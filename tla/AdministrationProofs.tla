-------------------------- MODULE AdministrationProofs --------------------------
(* Proofs about the accounts and the digests, and about the administration as *)
(* a whole.                                                                   *)
(*                                                                            *)
(* An acceptance that nothing disturbs runs all its statements on one         *)
(* connection, for it takes first what it gave back last; disturbed or not, a *)
(* credential has its user, for what a failed call takes back is written      *)
(* nowhere else. While a notice is unsent, every mail of it is accounted for  *)
(* by an attempt, a lost digest or a worker that still holds it.              *)
EXTENDS MCAdministration, CatalogueProofs, SequenceTheorems

------------------------------------------------------------------------------
(* Accounts. *)

\* What a connection has written belongs to its transaction: a credential there has its
\* user, and a row that is removed there belongs to a call that has failed and is
\* written nowhere else.
ConnectionsAreSound == \A k \in Connections :
  /\ ~pool[k].transaction =>
       pool[k].users = {} /\ pool[k].accounts = {} /\ pool[k].removed = {}
  /\ pool[k].accounts \subseteq users \cup pool[k].users
  /\ \A c \in pool[k].removed :
       /\ calls[c].step = "failed"
       /\ \A l \in Connections : l # k => c \notin pool[l].accounts

NoTransaction == \A k \in Connections : ~pool[k].transaction

\* The connection a call's next statement runs on, when nobody else uses the pool.
Turn(c)    == IF calls[c].connection # NoValue THEN calls[c].connection ELSE Head(idle)
HasTurn(c) == calls[c].connection = NoValue => idle # <<>>

\* A transaction of the call's own, with what it has written so far.
InTransaction(c, newUsers, newAccounts) ==
  /\ HasTurn(c)
  /\ pool[Turn(c)].transaction
  /\ pool[Turn(c)].users = newUsers /\ pool[Turn(c)].accounts = newAccounts
  /\ pool[Turn(c)].removed = {}
  /\ \A k \in Connections : k # Turn(c) => ~pool[k].transaction

\* Where an acceptance that nothing disturbs stands.
CallIsWhole(c) ==
  /\ calls[c].step \in {"none", "begin", "user", "account", "commit", "rollback", "failed"} =>
       c \notin users
  /\ calls[c].step \in {"profile", "ok"} => c \in accounts
  /\ calls[c].step \in {"begin", "profile", "undo", "rollback"} => NoTransaction
  /\ calls[c].step = "profile" => idle # <<>>
  /\ calls[c].step = "undo" => HasTurn(c)
  /\ calls[c].step = "user" => InTransaction(c, {}, {})
  /\ calls[c].step = "account" => InTransaction(c, {c}, {})
  /\ calls[c].step = "commit" => InTransaction(c, {c}, {c})

Alone == ~disturbed =>
  /\ \A k \in Connections : pool[k].runs # Other
  /\ \A c, d \in Calls : InCall(c) /\ InCall(d) => c = d
  /\ (\A c \in Calls : ~InCall(c)) => NoTransaction
  /\ \A c \in Calls : CallIsWhole(c)

\* A call that has begun knows its invitation.
InvitationsAreKnown ==
  \A c \in Calls : calls[c].step # "none" => calls[c].invitation \in Invitations

AccountsInv == /\ AccountsTypeOK /\ RolesAreWhole /\ InvitationsAreKnown
               /\ ConnectionsAreSound /\ Alone

------------------------------------------------------------------------------
(* The types of accounts, and the first state. *)

RoleRows       == [archived : BOOLEAN, base : BaseRoles, revision : 1 .. MaxRevision]
DialogRows     == [role : CustomRoles, base : BaseRoles, revision : 1 .. MaxRevision]
InvitationRows == [accepted : BOOLEAN, revoked : BOOLEAN, expired : BOOLEAN,
                   address : Addresses, role : BaseRoles, custom : CustomRoles \cup {NoValue}]
ProfileRows    == [address : Addresses, role : BaseRoles, custom : CustomRoles \cup {NoValue}]
ConnectionRows == [open : BOOLEAN, transaction : BOOLEAN, users : SUBSET Calls,
                   accounts : SUBSET Calls, removed : SUBSET Calls,
                   runs : Calls \cup {Other, NoValue}]
CallRows       == [step : Steps \cup {"none"}, invitation : Invitations \cup {NoValue},
                   address : Addresses \cup {NoValue}, connection : Connections \cup {NoValue}]

\* The types of what is registered, and of what signs people in.
RegistryTypes ==
  /\ roles \in [CustomRoles -> {NoValue} \cup RoleRows]
  /\ dialogs \in [Dialogs -> {NoValue} \cup DialogRows]
  /\ invitations \in [Invitations -> {NoValue} \cup InvitationRows]
  /\ profiles \in [Calls -> {NoValue} \cup ProfileRows]

AuthTypes ==
  /\ users \subseteq Calls /\ accounts \subseteq users
  /\ pool \in [Connections -> ConnectionRows]
  /\ idle \in Seq(Connections)
  /\ calls \in [Calls -> CallRows]
  /\ disturbed \in BOOLEAN

\* Together they are the types of the module.
LEMMA TypesOfBoth == AccountsTypeOK <=> RegistryTypes /\ AuthTypes
BY DEF AccountsTypeOK, RegistryTypes, AuthTypes, RoleRows, DialogRows, InvitationRows,
   ProfileRows, ConnectionRows, CallRows

\* A closed connection is in no transaction.
LEMMA ClosedFields ==
  /\ Closed \in ConnectionRows /\ [Closed EXCEPT !.open = TRUE] \in ConnectionRows
  /\ Closed.runs = NoValue /\ Closed.users = {} /\ Closed.accounts = {} /\ Closed.removed = {}
  /\ ~Closed.transaction
BY DEF Closed, ConnectionRows

\* Nothing is there in the first state.
LEMMA AccountsInitially == AccountsInit => AccountsInv
<1> SUFFICES ASSUME AccountsInit PROVE AccountsInv OBVIOUS
<1> USE DEF AccountsInit
<1>1. RegistryTypes BY DEF RegistryTypes
<1>2. AuthTypes
  <2>1. NewCall \in CallRows BY DEF NewCall, CallRows
  <2> QED BY <2>1, ClosedFields, EmptySeq DEF AuthTypes
<1>3. RolesAreWhole BY DEF RolesAreWhole, Acceptable, Pending
<1>4. ConnectionsAreSound BY ClosedFields DEF ConnectionsAreSound
<1>5. Alone
  <2>1. \A c \in Calls : calls[c].step = "none" BY DEF NewCall
  <2>2. \A k \in Connections : pool[k].runs # Other /\ ~pool[k].transaction
    BY ClosedFields, AccountsAssumption
  <2>3. \A c \in Calls : ~InCall(c) BY <2>1 DEF InCall
  <2>4. \A c \in Calls : CallIsWhole(c) BY <2>1 DEF CallIsWhole
  <2> QED BY <2>2, <2>3, <2>4 DEF Alone, NoTransaction
<1>6. InvitationsAreKnown BY DEF InvitationsAreKnown, NewCall
<1> QED BY <1>1, <1>2, <1>3, <1>4, <1>5, <1>6, TypesOfBoth DEF AccountsInv

------------------------------------------------------------------------------
(* Custom roles and invitations. *)

\* A step that leaves alone what signs people in.
LEMMA RegistryKeeps ==
  ASSUME AccountsInv, UNCHANGED <<authVars, calls, disturbed>>, RegistryTypes', RolesAreWhole'
  PROVE  AccountsInv'
<1> USE DEF AccountsInv, authVars
<1>1. AccountsTypeOK' BY TypesOfBoth DEF AuthTypes, RegistryTypes, AccountsTypeOK,
        RoleRows, DialogRows, InvitationRows, ProfileRows, ConnectionRows, CallRows
<1>2. ConnectionsAreSound' BY DEF ConnectionsAreSound
<1>3. Alone'
  BY DEF Alone, InCall, NoTransaction, CallIsWhole, InTransaction, HasTurn, Turn
<1>4. InvitationsAreKnown' BY DEF InvitationsAreKnown
<1> QED BY <1>1, <1>2, <1>3, <1>4

\* A custom role that is new is in no dialog, profile or open invitation.
LEMMA CreateRoleKeeps ==
  ASSUME AccountsInv, NEW r \in CustomRoles, NEW base \in BaseRoles, CreateRole(r, base)
  PROVE  AccountsInv'
<1> USE DEF CreateRole
<1>1. RegistryTypes BY TypesOfBoth DEF AccountsInv
<1>2. [archived |-> FALSE, base |-> base, revision |-> 1] \in RoleRows
  BY AccountsAssumption DEF RoleRows
<1>3. RegistryTypes' BY <1>1, <1>2 DEF RegistryTypes
<1>4. \A s \in CustomRoles : Live(s) => roles'[s] = roles[s]
  BY <1>1 DEF Live, RegistryTypes
<1>5. RolesAreWhole' BY <1>1, <1>4
  DEF AccountsInv, RolesAreWhole, Matches, Acceptable, Pending, Live, RegistryTypes,
      ProfileRows, InvitationRows
<1> QED BY <1>3, <1>5, RegistryKeeps

\* A dialog is opened, or closed.
LEMMA DialogsKeep ==
  ASSUME AccountsInv, NEW d \in Dialogs,
         CloseDialog(d) \/ \E r \in CustomRoles : OpenDialog(d, r)
  PROVE  AccountsInv'
<1>1. RegistryTypes BY TypesOfBoth DEF AccountsInv
<1>2. RegistryTypes'
  <2>1. CASE CloseDialog(d) BY <1>1, <2>1 DEF CloseDialog, RegistryTypes
  <2>2. ASSUME NEW r \in CustomRoles, OpenDialog(d, r) PROVE RegistryTypes'
    <3>1. roles[r] \in RoleRows BY <1>1, <2>2 DEF OpenDialog, Live, RegistryTypes
    <3>2. [role |-> r, base |-> roles[r].base, revision |-> roles[r].revision] \in DialogRows
      BY <3>1 DEF RoleRows, DialogRows
    <3> QED BY <1>1, <2>2, <3>2 DEF OpenDialog, RegistryTypes
  <2> QED BY <2>1, <2>2
<1>3. UNCHANGED <<roles, invitations, profiles, authVars, calls, disturbed>>
  BY DEF CloseDialog, OpenDialog
<1>4. RolesAreWhole'
  BY <1>3 DEF AccountsInv, RolesAreWhole, Matches, Acceptable, Pending, Live
<1> QED BY <1>2, <1>3, <1>4, RegistryKeeps

\* A live role, and the one row that a dialog changes.
LEMMA DialogRole ==
  ASSUME RegistryTypes, NEW d \in Dialogs, dialogs[d] # NoValue, IsCurrent(d)
  PROVE  /\ dialogs[d].role \in CustomRoles /\ Live(dialogs[d].role)
         /\ roles[dialogs[d].role] \in RoleRows
BY DEF RegistryTypes, IsCurrent, Live, DialogRows

\* A role only changes its base while nobody holds it.
LEMMA SaveRoleKeeps ==
  ASSUME AccountsInv, NEW d \in Dialogs, NEW base \in BaseRoles, SaveRole(d, base)
  PROVE  AccountsInv'
<1> DEFINE r   == dialogs[d].role
           new == [roles[r] EXCEPT !.base = base, !.revision = @ + 1]
<1>1. RegistryTypes BY TypesOfBoth DEF AccountsInv
<1>2. r \in CustomRoles /\ Live(r) /\ roles[r] \in RoleRows
  BY <1>1, DialogRole DEF SaveRole
<1>3. new \in RoleRows /\ ~new.archived /\ new.base = base
  <2>1. roles[r].revision + 1 \in 1 .. MaxRevision
    BY <1>2, AccountsAssumption DEF SaveRole, RoleRows
  <2>2. ~roles[r].archived BY <1>2 DEF Live
  <2> QED BY <1>2, <2>1, <2>2 DEF RoleRows
<1>4. roles' = [roles EXCEPT ![r] = new] BY <1>1, <1>2 DEF SaveRole, RegistryTypes
<1>5. /\ dialogs' = [dialogs EXCEPT ![d] = NoValue]
      /\ UNCHANGED <<invitations, profiles, authVars, calls, disturbed>>
      /\ roles[r].base = base \/ ~Held(r)
  BY DEF SaveRole, BaseMayBecome
<1> HIDE DEF r, new
<1>6. RegistryTypes' BY <1>1, <1>2, <1>3, <1>4, <1>5 DEF RegistryTypes
<1>7. roles'[r] = new /\ new # NoValue /\ \A s \in CustomRoles : s # r => roles'[s] = roles[s]
  BY <1>1, <1>2, <1>3, <1>4, AccountsAssumption DEF RegistryTypes, RoleRows
<1>8. \A s \in CustomRoles : Live(s) => Live(s)' BY <1>3, <1>7 DEF Live
<1>9. ASSUME NEW c \in Calls, profiles[c] # NoValue
      PROVE  Matches(profiles[c].custom, profiles[c].role)'
  <2>1. Matches(profiles[c].custom, profiles[c].role) BY <1>9 DEF AccountsInv, RolesAreWhole
  <2>2. profiles[c].custom \in CustomRoles \cup {NoValue}
    BY <1>1, <1>9 DEF RegistryTypes, ProfileRows
  <2>3. CASE profiles[c].custom # r
    BY <1>5, <1>7, <2>1, <2>2, <2>3 DEF Matches, Live
  <2>4. CASE profiles[c].custom = r
    <3>1. Held(r) BY <1>9, <2>4 DEF Held, Holds
    <3> QED BY <1>2, <1>3, <1>5, <1>7, <1>8, <2>1, <2>4, <3>1 DEF Matches
  <2> QED BY <2>3, <2>4
<1>10. RolesAreWhole'
  BY <1>1, <1>5, <1>8, <1>9
  DEF AccountsInv, RolesAreWhole, Acceptable, Pending, RegistryTypes, InvitationRows
<1> QED BY <1>5, <1>6, <1>10, RegistryKeeps

\* A role is only archived while nobody holds it or can still accept it.
LEMMA ArchiveRoleKeeps ==
  ASSUME AccountsInv, NEW d \in Dialogs, ArchiveRole(d)
  PROVE  AccountsInv'
<1> DEFINE r   == dialogs[d].role
           new == [roles[r] EXCEPT !.archived = TRUE, !.revision = @ + 1]
<1>1. RegistryTypes BY TypesOfBoth DEF AccountsInv
<1>2. r \in CustomRoles /\ Live(r) /\ roles[r] \in RoleRows
  BY <1>1, DialogRole DEF ArchiveRole
<1>3. new \in RoleRows
  <2>1. roles[r].revision + 1 \in 1 .. MaxRevision
    BY <1>2, AccountsAssumption DEF ArchiveRole, RoleRows
  <2> QED BY <1>2, <2>1 DEF RoleRows
<1>4. roles' = [roles EXCEPT ![r] = new] BY <1>1, <1>2 DEF ArchiveRole, RegistryTypes
<1>5. /\ dialogs' = [dialogs EXCEPT ![d] = NoValue]
      /\ UNCHANGED <<invitations, profiles, authVars, calls, disturbed>>
      /\ Unassigned(r)
  BY DEF ArchiveRole
<1> HIDE DEF r, new
<1>6. RegistryTypes' BY <1>1, <1>2, <1>3, <1>4, <1>5 DEF RegistryTypes
<1>7. \A s \in CustomRoles : s # r => roles'[s] = roles[s]
  BY <1>1, <1>4 DEF RegistryTypes
<1>8. \A c \in Calls : profiles[c] # NoValue => profiles[c].custom # r
  BY <1>5 DEF Unassigned, Held, Holds
<1>9. RolesAreWhole'
  BY <1>1, <1>5, <1>7, <1>8
  DEF AccountsInv, RolesAreWhole, Matches, Acceptable, Pending, Live, Unassigned,
      RegistryTypes, InvitationRows, ProfileRows
<1> QED BY <1>5, <1>6, <1>9, RegistryKeeps

\* What is assigned, or invited to, matches.
LEMMA AssignUserKeeps ==
  ASSUME AccountsInv, NEW c \in Calls, NEW role \in BaseRoles,
         NEW r \in CustomRoles \cup {NoValue}, AssignUser(c, role, r)
  PROVE  AccountsInv'
<1> DEFINE new == [profiles[c] EXCEPT !.role = role, !.custom = r]
<1>1. RegistryTypes BY TypesOfBoth DEF AccountsInv
<1>2. profiles[c] \in ProfileRows BY <1>1 DEF AssignUser, RegistryTypes
<1>3. new \in ProfileRows /\ new.role = role /\ new.custom = r BY <1>2 DEF ProfileRows
<1>4. profiles' = [profiles EXCEPT ![c] = new] BY <1>1 DEF AssignUser, RegistryTypes
<1> HIDE DEF new
<1>5. /\ UNCHANGED <<registryVars, invitations, authVars, calls, disturbed>>
      /\ Matches(r, role)
  BY DEF AssignUser
<1>6. RegistryTypes' BY <1>1, <1>3, <1>4, <1>5 DEF RegistryTypes, registryVars
<1>7. profiles'[c] = new /\ \A d \in Calls : d # c => profiles'[d] = profiles[d]
  BY <1>1, <1>4 DEF RegistryTypes
<1>8. RolesAreWhole'
  BY <1>3, <1>5, <1>7
  DEF AccountsInv, RolesAreWhole, Matches, Acceptable, Pending, Live, registryVars
<1> QED BY <1>5, <1>6, <1>8, RegistryKeeps

\* An invitation is sent, revoked, or expires.
LEMMA InvitationsKeep ==
  ASSUME AccountsInv, NEW i \in Invitations,
         \/ \E a \in Addresses, role \in BaseRoles, r \in CustomRoles \cup {NoValue} :
              CreateInvitation(i, a, role, r)
         \/ RevokeInvitation(i) \/ Expire(i)
  PROVE  AccountsInv'
<1>1. RegistryTypes BY TypesOfBoth DEF AccountsInv
<1>2. PICK new \in InvitationRows :
        /\ invitations' = [invitations EXCEPT ![i] = new]
        /\ \/ new.custom # NoValue => Live(new.custom)
           \/ Pending(i) /\ new.custom = invitations[i].custom
              /\ (new.revoked \/ new.accepted \/ new.expired)
  <2>1. ASSUME NEW a \in Addresses, NEW role \in BaseRoles,
               NEW r \in CustomRoles \cup {NoValue}, CreateInvitation(i, a, role, r)
        PROVE  \E new \in InvitationRows :
                 /\ invitations' = [invitations EXCEPT ![i] = new]
                 /\ new.custom # NoValue => Live(new.custom)
    <3> DEFINE new == [accepted |-> FALSE, revoked |-> FALSE, expired |-> FALSE,
                       address |-> a, role |-> role, custom |-> r]
    <3>1. new \in InvitationRows /\ new.custom = r BY DEF InvitationRows
    <3>2. invitations' = [invitations EXCEPT ![i] = new] /\ Matches(r, role)
      BY <2>1 DEF CreateInvitation
    <3> QED BY <3>1, <3>2 DEF Matches
  <2>2. CASE RevokeInvitation(i)
    <3> DEFINE new == [invitations[i] EXCEPT !.revoked = TRUE]
    <3>1. invitations[i] \in InvitationRows /\ Pending(i)
      BY <1>1, <2>2 DEF RevokeInvitation, Pending, RegistryTypes
    <3>2. new \in InvitationRows /\ new.custom = invitations[i].custom /\ new.revoked
      BY <3>1 DEF InvitationRows
    <3>3. invitations' = [invitations EXCEPT ![i] = new]
      BY <1>1, <2>2 DEF RevokeInvitation, RegistryTypes
    <3> QED BY <3>1, <3>2, <3>3
  <2>3. CASE Expire(i)
    <3> DEFINE new == [invitations[i] EXCEPT !.expired = TRUE]
    <3>1. invitations[i] \in InvitationRows /\ Pending(i)
      BY <1>1, <2>3 DEF Expire, Pending, RegistryTypes
    <3>2. new \in InvitationRows /\ new.custom = invitations[i].custom /\ new.expired
      BY <3>1 DEF InvitationRows
    <3>3. invitations' = [invitations EXCEPT ![i] = new]
      BY <1>1, <2>3 DEF Expire, RegistryTypes
    <3> QED BY <3>1, <3>2, <3>3
  <2> QED BY <2>1, <2>2, <2>3
<1>3. UNCHANGED <<roles, dialogs, profiles, authVars, calls, disturbed>>
  BY DEF CreateInvitation, RevokeInvitation, Expire, registryVars
<1>4. RegistryTypes' BY <1>1, <1>2, <1>3 DEF RegistryTypes
<1>5. invitations'[i] = new /\ \A j \in Invitations : j # i => invitations'[j] = invitations[j]
  BY <1>1, <1>2 DEF RegistryTypes
<1>6. RolesAreWhole'
  BY <1>2, <1>3, <1>5
  DEF AccountsInv, RolesAreWhole, Matches, Acceptable, Pending, Live
<1> QED BY <1>3, <1>4, <1>6, RegistryKeeps

------------------------------------------------------------------------------
(* The pool. *)

\* A step that leaves roles, dialogs, invitations and profiles alone.
LEMMA AuthKeeps ==
  ASSUME AccountsInv, UNCHANGED <<registryVars, invitations, profiles>>,
         AuthTypes', InvitationsAreKnown', ConnectionsAreSound', Alone'
  PROVE  AccountsInv'
<1>1. RegistryTypes' BY TypesOfBoth DEF AccountsInv, RegistryTypes, registryVars
<1>2. AccountsTypeOK'
  BY <1>1 DEF AuthTypes, RegistryTypes, AccountsTypeOK, RoleRows, DialogRows,
              InvitationRows, ProfileRows, ConnectionRows, CallRows
<1>3. RolesAreWhole'
  BY DEF AccountsInv, registryVars, RolesAreWhole, Matches, Acceptable, Pending, Live
<1> QED BY <1>2, <1>3 DEF AccountsInv

\* The connection that is taken: the next idle one, or a new one.
LEMMA Taken ==
  ASSUME AuthTypes, NEW k \in Connections, NEW who \in Calls \cup {Other}, Take(k, who)
  PROVE  /\ pool' \in [Connections -> ConnectionRows] /\ idle' \in Seq(Connections)
         /\ idle # <<>> => k = Head(idle)
         /\ \A l \in Connections :
              /\ pool'[l].transaction = pool[l].transaction
              /\ pool'[l].users = pool[l].users /\ pool'[l].accounts = pool[l].accounts
              /\ pool'[l].removed = pool[l].removed
              /\ pool'[l].runs = IF l = k THEN who ELSE pool[l].runs
<1> DEFINE new == [pool[k] EXCEPT !.open = TRUE, !.runs = who]
<1>1. pool[k] \in ConnectionRows BY DEF AuthTypes
<1>2. /\ new \in ConnectionRows /\ new.transaction = pool[k].transaction
      /\ new.users = pool[k].users /\ new.accounts = pool[k].accounts
      /\ new.removed = pool[k].removed /\ new.runs = who
  BY <1>1 DEF ConnectionRows
<1>3. pool' = [pool EXCEPT ![k] = new] BY DEF Take, AuthTypes
<1> HIDE DEF new
<1>4. idle' \in Seq(Connections)
  <2>1. CASE idle = <<>> BY <2>1 DEF Take, AuthTypes
  <2>2. CASE idle # <<>> BY <2>2, HeadTailProperties DEF Take, AuthTypes
  <2> QED BY <2>1, <2>2
<1>5. idle # <<>> => k = Head(idle) BY DEF Take, FreeNext
<1> QED BY <1>2, <1>3, <1>4, <1>5 DEF AuthTypes

\* The connection that is given back is the next one.
LEMMA Given ==
  ASSUME AuthTypes, NEW k \in Connections, NEW connection \in ConnectionRows,
         GiveBack(k, connection)
  PROVE  /\ pool' \in [Connections -> ConnectionRows] /\ idle' \in Seq(Connections)
         /\ idle' # <<>> /\ Head(idle') = k
         /\ pool'[k].transaction = connection.transaction
         /\ pool'[k].users = connection.users /\ pool'[k].accounts = connection.accounts
         /\ pool'[k].removed = connection.removed /\ pool'[k].runs = NoValue
         /\ \A l \in Connections : l # k => pool'[l] = pool[l]
<1> DEFINE new == [connection EXCEPT !.runs = NoValue]
<1>1. /\ new \in ConnectionRows /\ new.transaction = connection.transaction
      /\ new.users = connection.users /\ new.accounts = connection.accounts
      /\ new.removed = connection.removed /\ new.runs = NoValue
  BY DEF ConnectionRows
<1>2. pool' = [pool EXCEPT ![k] = new] /\ idle' = <<k>> \o idle BY DEF GiveBack
<1> HIDE DEF new
<1>3. <<k>> \in Seq(Connections) /\ Len(<<k>>) = 1 /\ <<k>>[1] = k OBVIOUS
<1>4. Len(idle) \in Nat /\ idle \in Seq(Connections) BY LenProperties DEF AuthTypes
<1>5. idle' \in Seq(Connections) /\ Len(idle') = 1 + Len(idle) /\ idle'[1] = k
  BY <1>2, <1>3, <1>4, ConcatProperties
<1>6. idle' # <<>> BY <1>4, <1>5, EmptySeq
<1>7. Head(idle') = k BY <1>5, <1>6
<1> QED BY <1>1, <1>2, <1>5, <1>6, <1>7 DEF AuthTypes

\* The connection that is closed.
LEMMA ClosedNow ==
  ASSUME AuthTypes, NEW k \in Connections, pool' = [pool EXCEPT ![k] = Closed]
  PROVE  /\ pool' \in [Connections -> ConnectionRows]
         /\ ~pool'[k].transaction /\ pool'[k].users = {} /\ pool'[k].accounts = {}
         /\ pool'[k].removed = {} /\ pool'[k].runs = NoValue
         /\ \A l \in Connections : l # k => pool'[l] = pool[l]
BY ClosedFields DEF AuthTypes

\* Somebody else takes a connection, which is the disturbance.
LEMMA OtherTakesKeeps ==
  ASSUME AccountsInv, NEW k \in Connections, OtherTakes(k)
  PROVE  AccountsInv'
<1>1. AuthTypes BY TypesOfBoth DEF AccountsInv
<1>2. /\ Take(k, Other) /\ disturbed' = TRUE
      /\ UNCHANGED <<registryVars, invitations, profiles, users, accounts, calls>>
  BY DEF OtherTakes
<1>3. AuthTypes' BY <1>1, <1>2, Taken DEF AuthTypes
<1>4. ConnectionsAreSound'
  <2>1. \A l \in Connections :
          /\ pool'[l].transaction = pool[l].transaction
          /\ pool'[l].users = pool[l].users /\ pool'[l].accounts = pool[l].accounts
          /\ pool'[l].removed = pool[l].removed
    BY <1>1, <1>2, Taken
  <2> QED BY <1>2, <2>1 DEF AccountsInv, ConnectionsAreSound
<1>5. Alone' BY <1>2 DEF Alone
<1>6. InvitationsAreKnown' BY <1>2 DEF AccountsInv, InvitationsAreKnown
<1> QED BY <1>2, <1>3, <1>4, <1>5, <1>6, AuthKeeps

\* Somebody else gives a connection back: nobody does while nothing is disturbed.
LEMMA OtherGivesBackKeeps ==
  ASSUME AccountsInv, NEW k \in Connections, OtherGivesBack(k)
  PROVE  AccountsInv'
<1>1. AuthTypes /\ pool[k] \in ConnectionRows BY TypesOfBoth DEF AccountsInv, AuthTypes
<1>2. /\ GiveBack(k, pool[k]) /\ pool[k].runs = Other
      /\ UNCHANGED <<registryVars, invitations, profiles, users, accounts, calls, disturbed>>
  BY DEF OtherGivesBack
<1>3. AuthTypes' BY <1>1, <1>2, Given DEF AuthTypes
<1>4. ConnectionsAreSound'
  <2>1. \A l \in Connections :
          /\ pool'[l].transaction = pool[l].transaction
          /\ pool'[l].users = pool[l].users /\ pool'[l].accounts = pool[l].accounts
          /\ pool'[l].removed = pool[l].removed
    BY <1>1, <1>2, Given
  <2> QED BY <1>2, <2>1 DEF AccountsInv, ConnectionsAreSound
<1>5. Alone' BY <1>2 DEF AccountsInv, Alone
<1>6. InvitationsAreKnown' BY <1>2 DEF AccountsInv, InvitationsAreKnown
<1> QED BY <1>2, <1>3, <1>4, <1>5, <1>6, AuthKeeps

\* A connection that nobody uses is closed.
LEMMA CloseIdleKeeps ==
  ASSUME AccountsInv, NEW k \in Connections, CloseIdle(k)
  PROVE  AccountsInv'
<1>1. AuthTypes BY TypesOfBoth DEF AccountsInv
<1>2. /\ pool' = [pool EXCEPT ![k] = Closed]
      /\ disturbed' = (disturbed \/ \E c \in Calls : InCall(c))
      /\ UNCHANGED <<registryVars, invitations, profiles, users, accounts, calls>>
  BY DEF CloseIdle
<1>3. idle' \in Seq(Connections)
  <2>1. PICK n \in DOMAIN idle :
          idle' = SubSeq(idle, 1, n - 1) \o SubSeq(idle, n + 1, Len(idle))
    BY DEF CloseIdle
  <2>2. /\ idle \in Seq(Connections) /\ Len(idle) \in Nat /\ n \in 1 .. Len(idle)
        /\ \A j \in 1 .. Len(idle) : idle[j] \in Connections
    BY <1>1, LenProperties, ElementOfSeq DEF AuthTypes
  <2>3. SubSeq(idle, 1, n - 1) \in Seq(Connections) BY <2>2, SubSeqProperties
  <2>4. SubSeq(idle, n + 1, Len(idle)) \in Seq(Connections) BY <2>2, SubSeqProperties
  <2> QED BY <2>1, <2>3, <2>4, ConcatProperties
<1>4. AuthTypes' BY <1>1, <1>2, <1>3, ClosedNow DEF AuthTypes
<1>5. ConnectionsAreSound'
  <2>1. \A l \in Connections : \/ l # k /\ pool'[l] = pool[l]
                               \/ /\ ~pool'[l].transaction /\ pool'[l].users = {}
                                  /\ pool'[l].accounts = {} /\ pool'[l].removed = {}
    BY <1>1, <1>2, ClosedNow
  <2> QED BY <1>2, <2>1 DEF AccountsInv, ConnectionsAreSound
<1>6. Alone'
  <2> SUFFICES ASSUME ~disturbed' PROVE Alone' BY DEF Alone
  <2>1. ~disturbed /\ \A c \in Calls : ~InCall(c) BY <1>1, <1>2 DEF AuthTypes
  <2>2. NoTransaction /\ \A l \in Connections : pool[l].runs # Other
    BY <2>1 DEF AccountsInv, Alone
  <2>3. NoTransaction' /\ \A l \in Connections : pool'[l].runs # Other
    BY <1>1, <1>2, <2>2, ClosedNow, AccountsAssumption DEF NoTransaction
  <2>4. \A c \in Calls : ~InCall(c)' BY <1>2, <2>1 DEF InCall
  <2>5. \A c \in Calls : CallIsWhole(c)'
    <3> SUFFICES ASSUME NEW c \in Calls PROVE CallIsWhole(c)' OBVIOUS
    <3>1. CallIsWhole(c) BY <2>1 DEF AccountsInv, Alone
    <3>2. calls'[c].step = calls[c].step /\ calls[c].step \in {"none", "ok", "failed"}
      BY <1>2, <2>1 DEF InCall
    <3> QED BY <1>2, <3>1, <3>2 DEF CallIsWhole
  <2> QED BY <2>3, <2>4, <2>5 DEF Alone
<1>7. InvitationsAreKnown' BY <1>2 DEF AccountsInv, InvitationsAreKnown
<1> QED BY <1>2, <1>4, <1>5, <1>6, <1>7, AuthKeeps

------------------------------------------------------------------------------
(* Acceptances. *)

\* A call goes to its next step, and the others stay where they are.
LEMMA Gone ==
  ASSUME AuthTypes, NEW c \in Calls, NEW step \in Steps, Goes(c, step)
  PROVE  /\ calls' \in [Calls -> CallRows]
         /\ calls'[c].step = step /\ calls'[c].connection = NoValue
         /\ calls'[c].invitation = calls[c].invitation
         /\ \A d \in Calls : d # c => calls'[d] = calls[d]
<1> DEFINE new == [calls[c] EXCEPT !.step = step, !.connection = NoValue]
<1>1. calls[c] \in CallRows BY DEF AuthTypes
<1>2. /\ new \in CallRows /\ new.step = step /\ new.connection = NoValue
      /\ new.invitation = calls[c].invitation
  BY <1>1 DEF CallRows
<1>3. calls' = [calls EXCEPT ![c] = new] BY DEF Goes
<1> HIDE DEF new
<1> QED BY <1>2, <1>3 DEF AuthTypes

\* What the steps of one call may do while nothing is disturbed: they touch no row but its
\* own, for it is the only one at work.
LEMMA AloneKeeps ==
  ASSUME Alone, NEW c \in Calls, InCall(c), disturbed' = disturbed,
         \A d \in Calls : d # c => calls'[d] = calls[d],
         ~disturbed => /\ \A k \in Connections : pool'[k].runs # Other
                       /\ \A d \in Calls : d # c => /\ d \in users' => d \in users
                                                    /\ d \in accounts => d \in accounts'
                       /\ CallIsWhole(c)'
                       /\ ~InCall(c)' => NoTransaction'
  PROVE  Alone'
<1> SUFFICES ASSUME ~disturbed PROVE Alone' BY DEF Alone
<1>1. \A d \in Calls : d # c => ~InCall(d) BY DEF Alone
<1>2. \A d \in Calls : d # c => ~InCall(d)' BY <1>1 DEF InCall
<1>3. ASSUME NEW d \in Calls, d # c PROVE CallIsWhole(d)'
  <2>1. CallIsWhole(d) /\ calls'[d] = calls[d] BY <1>3 DEF Alone
  <2>2. calls[d].step \in {"none", "ok", "failed"} BY <1>1, <1>3 DEF InCall
  <2> QED BY <1>3, <2>1, <2>2 DEF CallIsWhole
<1> QED BY <1>2, <1>3 DEF Alone

\* A call begins, on its own or next to another one.
LEMMA StartAcceptKeeps ==
  ASSUME AccountsInv, NEW c \in Calls, NEW i \in Invitations, StartAccept(c, i)
  PROVE  AccountsInv'
<1> DEFINE new == [calls[c] EXCEPT !.step = "begin", !.invitation = i,
                                   !.address = invitations[i].address]
<1>1. AuthTypes /\ RegistryTypes BY TypesOfBoth DEF AccountsInv
<1>2. calls[c] \in CallRows /\ calls[c].step = "none" /\ invitations[i].address \in Addresses
  BY <1>1 DEF AuthTypes, RegistryTypes, StartAccept, Acceptable, Pending, InvitationRows
<1>3. new \in CallRows /\ new.step = "begin" /\ new.invitation = i BY <1>2 DEF CallRows, Steps
<1>4. calls' = [calls EXCEPT ![c] = new] BY DEF StartAccept
<1>5. /\ disturbed' = (disturbed \/ \E d \in Calls : InCall(d)
                              \/ \E k \in Connections : pool[k].runs = Other)
      /\ UNCHANGED <<registryVars, invitations, profiles, users, accounts, pool, idle>>
  BY DEF StartAccept, authVars
<1> HIDE DEF new
<1>6. AuthTypes' BY <1>1, <1>3, <1>4, <1>5 DEF AuthTypes
<1>7. /\ calls'[c].step = "begin" /\ calls'[c].invitation = i
      /\ \A d \in Calls : d # c => calls'[d] = calls[d]
  BY <1>1, <1>3, <1>4 DEF AuthTypes
<1>8. ConnectionsAreSound'
  <2>1. \A d \in Calls : calls[d].step = "failed" => calls'[d].step = "failed"
    BY <1>2, <1>7
  <2>2. \A k \in Connections : pool[k].removed \subseteq Calls
    BY <1>1 DEF AuthTypes, ConnectionRows
  <2> QED BY <1>5, <2>1, <2>2 DEF AccountsInv, ConnectionsAreSound
<1>9. Alone'
  <2> SUFFICES ASSUME ~disturbed' PROVE Alone' BY DEF Alone
  <2>1. ~disturbed /\ \A d \in Calls : ~InCall(d) BY <1>1, <1>5 DEF AuthTypes
  <2>2. NoTransaction' BY <1>5, <2>1 DEF AccountsInv, Alone, NoTransaction
  <2>3. \A d \in Calls : d # c => ~InCall(d)' BY <1>7, <2>1 DEF InCall
  <2>4. ASSUME NEW d \in Calls PROVE CallIsWhole(d)'
    <3>1. CallIsWhole(d) BY <2>1 DEF AccountsInv, Alone
    <3>2. CASE d = c BY <1>2, <1>5, <1>7, <2>2, <3>1, <3>2 DEF CallIsWhole
    <3>3. CASE d # c
      <4>1. calls'[d] = calls[d] /\ calls[d].step \in {"none", "ok", "failed"}
        BY <1>7, <2>1, <3>3 DEF InCall
      <4> QED BY <1>5, <3>1, <4>1 DEF CallIsWhole
    <3> QED BY <3>2, <3>3
  <2>5. InCall(c)' BY <1>7 DEF InCall
  <2> QED BY <1>5, <2>1, <2>3, <2>4, <2>5 DEF AccountsInv, Alone
<1>10. InvitationsAreKnown' BY <1>7 DEF AccountsInv, InvitationsAreKnown
<1> QED BY <1>5, <1>6, <1>8, <1>9, <1>10, AuthKeeps

\* The next connection is the call's own when nobody else uses the pool.
LEMMA SendsKeeps ==
  ASSUME AccountsInv, NEW c \in Calls, NEW k \in Connections, Sends(c, k)
  PROVE  AccountsInv'
<1> DEFINE new == [calls[c] EXCEPT !.connection = k]
<1>1. AuthTypes BY TypesOfBoth DEF AccountsInv
<1>2. /\ calls[c].step \in Statements /\ calls[c].connection = NoValue /\ Take(k, c)
      /\ UNCHANGED <<registryVars, invitations, profiles, users, accounts, disturbed>>
  BY DEF Sends
<1>3. calls[c] \in CallRows BY <1>1 DEF AuthTypes
<1>4. /\ new \in CallRows /\ new.step = calls[c].step /\ new.connection = k
      /\ new.invitation = calls[c].invitation
  BY <1>3 DEF CallRows
<1>5. calls' = [calls EXCEPT ![c] = new] BY <1>1 DEF Sends, AuthTypes
<1> HIDE DEF new
<1>6. /\ calls'[c].step = calls[c].step /\ calls'[c].connection = k
      /\ calls'[c].invitation = calls[c].invitation
      /\ \A d \in Calls : d # c => calls'[d] = calls[d]
  BY <1>1, <1>4, <1>5 DEF AuthTypes
<1>7. AuthTypes' BY <1>1, <1>2, <1>4, <1>5, Taken DEF AuthTypes
<1>8. /\ idle # <<>> => k = Head(idle)
      /\ \A l \in Connections :
           /\ pool'[l].transaction = pool[l].transaction
           /\ pool'[l].users = pool[l].users /\ pool'[l].accounts = pool[l].accounts
           /\ pool'[l].removed = pool[l].removed
           /\ pool'[l].runs = IF l = k THEN c ELSE pool[l].runs
  BY <1>1, <1>2, Taken
<1>9. ConnectionsAreSound'
  <2>1. \A d \in Calls : calls'[d].step = calls[d].step BY <1>6
  <2>2. \A l \in Connections : pool[l].removed \subseteq Calls
    BY <1>1 DEF AuthTypes, ConnectionRows
  <2> QED BY <1>2, <1>8, <2>1, <2>2 DEF AccountsInv, ConnectionsAreSound
<1>10. InCall(c) /\ InCall(c)' BY <1>2, <1>6 DEF InCall, Statements
<1>11. CallIsWhole(c) => CallIsWhole(c)'
  <2> SUFFICES ASSUME CallIsWhole(c) PROVE CallIsWhole(c)' OBVIOUS
  <2>1. k # NoValue BY AccountsAssumption
  <2>2. Turn(c)' = k /\ HasTurn(c)' BY <1>6, <2>1 DEF Turn, HasTurn
  <2>3. HasTurn(c) => Turn(c) = k BY <1>2, <1>8 DEF Turn, HasTurn
  <2>4. NoTransaction => NoTransaction' BY <1>8 DEF NoTransaction
  <2>5. ASSUME NEW us, NEW as, InTransaction(c, us, as) PROVE InTransaction(c, us, as)'
    BY <1>8, <2>2, <2>3, <2>5 DEF InTransaction
  <2>6. calls[c].step # "profile" BY <1>2 DEF Statements
  <2>7. /\ InTransaction(c, {}, {}) => InTransaction(c, {}, {})'
        /\ InTransaction(c, {c}, {}) => InTransaction(c, {c}, {})'
        /\ InTransaction(c, {c}, {c}) => InTransaction(c, {c}, {c})'
    BY <2>5
  <2> QED BY <1>2, <1>6, <2>2, <2>4, <2>6, <2>7 DEF CallIsWhole
<1>12. Alone'
  <2>1. c # Other BY AccountsAssumption
  <2> QED BY <1>2, <1>6, <1>8, <1>10, <1>11, <2>1, AloneKeeps DEF AccountsInv, Alone
<1>13. InvitationsAreKnown' BY <1>6 DEF AccountsInv, InvitationsAreKnown
<1> QED BY <1>2, <1>7, <1>9, <1>12, <1>13, AuthKeeps

\* There is always a connection for a call that is alone and in its transaction.
LEMMA NoConnectionKeeps ==
  ASSUME AccountsInv, NEW c \in Calls, NoConnection(c)
  PROVE  AccountsInv'
<1> DEFINE step == AfterError(calls[c].step)
<1>1. AuthTypes BY TypesOfBoth DEF AccountsInv
<1>2. /\ calls[c].step \in Statements /\ calls[c].connection = NoValue /\ idle = <<>>
      /\ Goes(c, step)
      /\ UNCHANGED <<registryVars, invitations, profiles, users, accounts, pool, idle,
                     disturbed>>
  BY DEF NoConnection, authVars
<1>3. step \in {"rollback", "failed"} /\ step \in Steps BY DEF AfterError, Steps
<1>4. /\ calls' \in [Calls -> CallRows] /\ calls'[c].step = step
      /\ calls'[c].invitation = calls[c].invitation
      /\ \A d \in Calls : d # c => calls'[d] = calls[d]
  BY <1>1, <1>2, <1>3, Gone
<1>5. AuthTypes' BY <1>1, <1>2, <1>4 DEF AuthTypes
<1>6. ConnectionsAreSound'
  <2>1. \A d \in Calls : calls[d].step = "failed" => calls'[d].step = "failed"
    BY <1>2, <1>4 DEF Statements
  <2>2. \A l \in Connections : pool[l].removed \subseteq Calls
    BY <1>1 DEF AuthTypes, ConnectionRows
  <2> QED BY <1>2, <2>1, <2>2 DEF AccountsInv, ConnectionsAreSound
<1>7. InCall(c) BY <1>2 DEF InCall, Statements
<1>8. ASSUME ~disturbed PROVE CallIsWhole(c)' /\ NoTransaction'
  <2>1. CallIsWhole(c) BY <1>8 DEF AccountsInv, Alone
  <2>2. ~HasTurn(c) BY <1>2 DEF HasTurn
  <2>3. calls[c].step \in {"begin", "rollback"}
    BY <1>2, <2>1, <2>2 DEF CallIsWhole, InTransaction, Statements
  <2>4. NoTransaction' BY <1>2, <2>1, <2>3 DEF CallIsWhole, NoTransaction
  <2> HIDE DEF step
  <2>5. c \notin users' BY <1>2, <2>1, <2>3 DEF CallIsWhole
  <2>6. CallIsWhole(c)' BY <1>3, <1>4, <2>4, <2>5 DEF CallIsWhole
  <2> QED BY <2>4, <2>6
<1>9. Alone'
  BY <1>2, <1>4, <1>7, <1>8, AloneKeeps DEF AccountsInv, Alone
<1>10. InvitationsAreKnown' BY <1>2, <1>4 DEF AccountsInv, InvitationsAreKnown, Statements
<1> QED BY <1>2, <1>5, <1>6, <1>9, <1>10, AuthKeeps

\* One connection changes: what is known of the others stays.
LEMMA SoundWithOne ==
  ASSUME AccountsInv, NEW k \in Connections,
         \A l \in Connections : l # k => pool'[l] = pool[l],
         \A d \in Calls : calls[d].step = "failed" => calls'[d].step = "failed",
         ~pool'[k].transaction =>
           pool'[k].users = {} /\ pool'[k].accounts = {} /\ pool'[k].removed = {},
         pool'[k].accounts \subseteq users' \cup pool'[k].users,
         \A l \in Connections : l # k => pool[l].accounts \subseteq users' \cup pool[l].users,
         \A d \in pool'[k].removed :
           /\ calls'[d].step = "failed"
           /\ \A l \in Connections : l # k => d \notin pool[l].accounts,
         \A l \in Connections : l # k => pool[l].removed \cap pool'[k].accounts = {}
  PROVE  ConnectionsAreSound'
<1>1. \A l \in Connections : pool[l].removed \subseteq Calls
  BY TypesOfBoth DEF AccountsInv, AuthTypes, ConnectionRows
<1>2. ASSUME NEW l \in Connections, l # k
      PROVE  /\ ~pool'[l].transaction =>
                  pool'[l].users = {} /\ pool'[l].accounts = {} /\ pool'[l].removed = {}
             /\ pool'[l].accounts \subseteq users' \cup pool'[l].users
             /\ \A d \in pool'[l].removed :
                  /\ calls'[d].step = "failed"
                  /\ \A m \in Connections : m # l => d \notin pool'[m].accounts
  <2>1. pool'[l] = pool[l] BY <1>2
  <2>2. ASSUME NEW d \in pool[l].removed, NEW m \in Connections, m # l
        PROVE  d \notin pool'[m].accounts
    <3>1. d \notin pool[m].accounts BY <1>2, <2>2 DEF AccountsInv, ConnectionsAreSound
    <3>2. CASE m = k BY <1>2, <2>2, <3>2
    <3>3. CASE m # k BY <3>1, <3>3
    <3> QED BY <3>2, <3>3
  <2> QED BY <1>1, <1>2, <2>1, <2>2 DEF AccountsInv, ConnectionsAreSound
<1> QED BY <1>2 DEF ConnectionsAreSound

\* What the end of a statement has to keep, of the call and its connection.
LEMMA StatementKeeps ==
  ASSUME AccountsInv, NEW c \in Calls, NEW k \in Connections, calls[c].step \in Statements,
         NEW step \in Steps, Goes(c, step),
         UNCHANGED <<registryVars, invitations, profiles, disturbed>>,
         pool' \in [Connections -> ConnectionRows], idle' \in Seq(Connections),
         \A l \in Connections : l # k => pool'[l] = pool[l],
         pool'[k].runs = NoValue,
         users' \subseteq Calls, accounts' \subseteq users', ConnectionsAreSound',
         ~disturbed /\ CallIsWhole(c) =>
           /\ \A d \in Calls : d # c => /\ d \in users' => d \in users
                                        /\ d \in accounts => d \in accounts'
           /\ CallIsWhole(c)'
           /\ step \in {"ok", "failed"} => NoTransaction'
  PROVE  AccountsInv'
<1>1. AuthTypes BY TypesOfBoth DEF AccountsInv
<1>2. /\ calls' \in [Calls -> CallRows] /\ calls'[c].step = step
      /\ calls'[c].invitation = calls[c].invitation
      /\ \A d \in Calls : d # c => calls'[d] = calls[d]
  BY <1>1, Gone
<1>3. AuthTypes' BY <1>1, <1>2 DEF AuthTypes
<1>4. InCall(c) BY DEF InCall, Statements
<1>5. ~InCall(c)' => step \in {"ok", "failed"} BY <1>2 DEF InCall, Steps
<1>6. ~disturbed => CallIsWhole(c) /\ \A l \in Connections : pool'[l].runs # Other
  BY AccountsAssumption DEF AccountsInv, Alone
<1>7. Alone' BY <1>2, <1>4, <1>5, <1>6, AloneKeeps DEF AccountsInv
<1>8. InvitationsAreKnown' BY <1>2 DEF AccountsInv, InvitationsAreKnown, Statements
<1> QED BY <1>3, <1>7, <1>8, AuthKeeps

\* A call's connection, and what is said of it.
LEMMA Connected ==
  ASSUME AccountsInv, NEW c \in Calls, calls[c].connection # NoValue
  PROVE  /\ calls[c].connection \in Connections /\ Conn(c) \in ConnectionRows
         /\ Conn(c) = pool[calls[c].connection] /\ Turn(c) = calls[c].connection
         /\ users \subseteq Calls /\ accounts \subseteq users /\ AuthTypes
<1>1. AuthTypes BY TypesOfBoth DEF AccountsInv
<1>2. calls[c] \in CallRows BY <1>1 DEF AuthTypes
<1>3. calls[c].connection \in Connections BY <1>2 DEF CallRows
<1> QED BY <1>1, <1>3 DEF AuthTypes, Conn, Turn

\* What has failed stays so, for a call that is at work has not.
LEMMA FailedStays ==
  ASSUME AuthTypes, NEW c \in Calls, calls[c].step \in Statements, NEW step \in Steps,
         Goes(c, step)
  PROVE  \A d \in Calls : calls[d].step = "failed" => calls'[d].step = "failed"
BY Gone DEF Statements

\* BEGIN
LEMMA TransactionBegins ==
  ASSUME AccountsInv, NEW c \in Calls, Begin(c)
  PROVE  AccountsInv'
<1> DEFINE k   == calls[c].connection
           new == [Conn(c) EXCEPT !.transaction = TRUE]
<1>1. /\ calls[c].step = "begin" /\ k # NoValue /\ GiveBack(k, new) /\ Goes(c, "user")
      /\ UNCHANGED <<registryVars, invitations, profiles, users, accounts, disturbed>>
  BY DEF Begin, Runs
<1>2. /\ k \in Connections /\ Conn(c) \in ConnectionRows /\ Conn(c) = pool[k]
      /\ users \subseteq Calls /\ accounts \subseteq users /\ AuthTypes
  BY <1>1, Connected
<1>3. /\ new \in ConnectionRows /\ new.transaction /\ new.users = pool[k].users
      /\ new.accounts = pool[k].accounts /\ new.removed = pool[k].removed
  BY <1>2 DEF ConnectionRows
<1> HIDE DEF new, k
<1>4. /\ pool' \in [Connections -> ConnectionRows] /\ idle' \in Seq(Connections)
      /\ idle' # <<>> /\ Head(idle') = k /\ pool'[k].transaction
      /\ pool'[k].users = pool[k].users /\ pool'[k].accounts = pool[k].accounts
      /\ pool'[k].removed = pool[k].removed /\ pool'[k].runs = NoValue
      /\ \A l \in Connections : l # k => pool'[l] = pool[l]
  BY <1>1, <1>2, <1>3, Given
<1>5. "user" \in Steps /\ calls[c].step \in Statements BY <1>1 DEF Steps, Statements
<1>6. \A d \in Calls : calls[d].step = "failed" => calls'[d].step = "failed"
  BY <1>1, <1>2, <1>5, FailedStays
<1>7. ConnectionsAreSound'
  <2>1. \A d \in pool[k].removed : d \in Calls BY <1>2 DEF AuthTypes, ConnectionRows
  <2> QED BY <1>1, <1>2, <1>4, <1>6, <2>1, SoundWithOne DEF AccountsInv, ConnectionsAreSound
<1>8. calls'[c].step = "user" /\ calls'[c].connection = NoValue
  BY <1>1, <1>2, <1>5, Gone
<1>9. ASSUME CallIsWhole(c) PROVE CallIsWhole(c)'
  <2>1. c \notin users' /\ NoTransaction BY <1>1, <1>9 DEF CallIsWhole
  <2>2. Turn(c)' = k /\ HasTurn(c)' BY <1>4, <1>8 DEF Turn, HasTurn
  <2>3. pool[k].users = {} /\ pool[k].accounts = {} /\ pool[k].removed = {}
    BY <1>2, <2>1 DEF NoTransaction, AccountsInv, ConnectionsAreSound
  <2>4. InTransaction(c, {}, {})'
    BY <1>4, <2>1, <2>2, <2>3 DEF InTransaction, NoTransaction
  <2> QED BY <1>8, <2>1, <2>4 DEF CallIsWhole
<1> QED BY <1>1, <1>2, <1>4, <1>5, <1>7, <1>9, StatementKeeps

\* An INSERT fails: its connection is closed, and with it the transaction.
LEMMA ErrsKeeps ==
  ASSUME AccountsInv, NEW c \in Calls, calls[c].step \in {"user", "account"},
         calls[c].connection # NoValue, Errs(c)
  PROVE  AccountsInv'
<1> DEFINE k == calls[c].connection
<1>1. /\ pool' = [pool EXCEPT ![k] = Closed] /\ idle' = idle /\ Goes(c, "rollback")
      /\ UNCHANGED <<registryVars, invitations, profiles, users, accounts, disturbed>>
  BY DEF Errs, Close, AfterError
<1>2. /\ k \in Connections /\ Turn(c) = k
      /\ users \subseteq Calls /\ accounts \subseteq users /\ AuthTypes
  BY Connected
<1> HIDE DEF k
<1>3. /\ pool' \in [Connections -> ConnectionRows] /\ idle' \in Seq(Connections)
      /\ ~pool'[k].transaction /\ pool'[k].users = {} /\ pool'[k].accounts = {}
      /\ pool'[k].removed = {} /\ pool'[k].runs = NoValue
      /\ \A l \in Connections : l # k => pool'[l] = pool[l]
  BY <1>1, <1>2, ClosedNow DEF AuthTypes
<1>4. "rollback" \in Steps /\ calls[c].step \in Statements BY DEF Steps, Statements
<1>5. \A d \in Calls : calls[d].step = "failed" => calls'[d].step = "failed"
  BY <1>1, <1>2, <1>4, FailedStays
<1>6. ConnectionsAreSound'
  BY <1>1, <1>2, <1>3, <1>5, SoundWithOne DEF AccountsInv, ConnectionsAreSound
<1>7. calls'[c].step = "rollback" BY <1>1, <1>2, <1>4, Gone
<1>8. ASSUME CallIsWhole(c) PROVE CallIsWhole(c)'
  <2>1. c \notin users' BY <1>1, <1>8 DEF CallIsWhole
  <2>2. \A l \in Connections : l # k => ~pool[l].transaction
    BY <1>2, <1>8 DEF CallIsWhole, InTransaction
  <2>3. NoTransaction' BY <1>3, <2>2 DEF NoTransaction
  <2> QED BY <1>7, <2>1, <2>3 DEF CallIsWhole
<1> QED BY <1>1, <1>2, <1>3, <1>4, <1>6, <1>8, StatementKeeps

\* A statement that writes: at once outside a transaction, later inside one.
LEMMA Written ==
  ASSUME AccountsInv, NEW c \in Calls, calls[c].connection # NoValue,
         NEW connection \in ConnectionRows, NEW newUsers, NEW newAccounts,
         connection.transaction = Conn(c).transaction,
         Writes(c, connection, newUsers, newAccounts)
  PROVE  LET k == calls[c].connection
             row == IF Conn(c).transaction THEN connection ELSE pool[k] IN
         /\ pool' \in [Connections -> ConnectionRows] /\ idle' \in Seq(Connections)
         /\ idle' # <<>> /\ Head(idle') = k
         /\ pool'[k].transaction = Conn(c).transaction
         /\ pool'[k].users = row.users /\ pool'[k].accounts = row.accounts
         /\ pool'[k].removed = row.removed /\ pool'[k].runs = NoValue
         /\ \A l \in Connections : l # k => pool'[l] = pool[l]
         /\ Conn(c).transaction => UNCHANGED <<users, accounts>>
         /\ ~Conn(c).transaction => users' = newUsers /\ accounts' = newAccounts
<1> DEFINE k == calls[c].connection
<1>1. /\ k \in Connections /\ Conn(c) \in ConnectionRows /\ Conn(c) = pool[k] /\ AuthTypes
  BY Connected
<1>2. CASE Conn(c).transaction
  <2>1. GiveBack(k, connection) /\ UNCHANGED <<users, accounts>> BY <1>2 DEF Writes
  <2> QED BY <1>1, <1>2, <2>1, Given
<1>3. CASE ~Conn(c).transaction
  <2>1. GiveBack(k, pool[k]) /\ users' = newUsers /\ accounts' = newAccounts
    BY <1>3 DEF Writes
  <2> QED BY <1>1, <1>3, <2>1, Given
<1> QED BY <1>2, <1>3

\* The user is inserted.
LEMMA InsertUserKeeps ==
  ASSUME AccountsInv, NEW c \in Calls, InsertUser(c)
  PROVE  AccountsInv'
<1> DEFINE k   == calls[c].connection
           new == [Conn(c) EXCEPT !.users = @ \cup {c}]
<1>1. calls[c].step = "user" /\ k # NoValue BY DEF InsertUser, Runs
<1>2. CASE Errs(c) BY <1>1, <1>2, ErrsKeeps
<1>3. CASE /\ Writes(c, new, users \cup {c}, accounts) /\ Goes(c, "account")
           /\ UNCHANGED <<registryVars, invitations, profiles, disturbed>>
  <2>1. /\ k \in Connections /\ Conn(c) \in ConnectionRows /\ Conn(c) = pool[k]
        /\ Turn(c) = k /\ users \subseteq Calls /\ accounts \subseteq users /\ AuthTypes
    BY <1>1, Connected
  <2>2. /\ new \in ConnectionRows /\ new.transaction = Conn(c).transaction
        /\ new.users = pool[k].users \cup {c} /\ new.accounts = pool[k].accounts
        /\ new.removed = pool[k].removed
    BY <2>1 DEF ConnectionRows
  <2> HIDE DEF new
  <2>3. /\ pool' \in [Connections -> ConnectionRows] /\ idle' \in Seq(Connections)
        /\ idle' # <<>> /\ Head(idle') = k
        /\ pool'[k].transaction = pool[k].transaction
        /\ pool'[k].accounts = pool[k].accounts
        /\ pool'[k].removed = pool[k].removed /\ pool'[k].runs = NoValue
        /\ \A l \in Connections : l # k => pool'[l] = pool[l]
        /\ \/ /\ pool[k].transaction /\ UNCHANGED <<users, accounts>>
              /\ pool'[k].users = pool[k].users \cup {c}
           \/ /\ ~pool[k].transaction /\ users' = users \cup {c} /\ accounts' = accounts
              /\ pool'[k].users = pool[k].users
    BY <1>1, <1>3, <2>1, <2>2, Written
  <2> HIDE DEF k
  <2>4. "account" \in Steps /\ calls[c].step \in Statements BY <1>1 DEF Steps, Statements
  <2>5. \A d \in Calls : calls[d].step = "failed" => calls'[d].step = "failed"
    BY <1>3, <2>1, <2>4, FailedStays
  <2>6. ConnectionsAreSound'
    <3>1. \A d \in pool[k].removed : d \in Calls BY <2>1 DEF AuthTypes, ConnectionRows
    <3>2. users \subseteq users' /\ pool[k].users \subseteq pool'[k].users BY <2>3
    <3> QED BY <2>1, <2>3, <2>5, <3>1, <3>2, SoundWithOne DEF AccountsInv, ConnectionsAreSound
  <2>7. calls'[c].step = "account" /\ calls'[c].connection = NoValue
    BY <1>3, <2>1, <2>4, Gone
  <2>8. users' \subseteq Calls /\ accounts' \subseteq users' BY <2>1, <2>3
  <2>9. ASSUME CallIsWhole(c)
        PROVE  CallIsWhole(c)' /\ UNCHANGED <<users, accounts>>
    <3>1. c \notin users /\ InTransaction(c, {}, {}) BY <1>1, <2>9 DEF CallIsWhole
    <3>2. pool[k].transaction BY <2>1, <3>1 DEF InTransaction
    <3>3. Turn(c)' = k /\ HasTurn(c)' BY <2>3, <2>7 DEF Turn, HasTurn
    <3>4. InTransaction(c, {c}, {})'
      BY <2>1, <2>3, <3>1, <3>2, <3>3 DEF InTransaction
    <3> QED BY <2>3, <2>7, <3>1, <3>2, <3>4 DEF CallIsWhole
  <2> QED BY <1>3, <2>1, <2>3, <2>4, <2>6, <2>8, <2>9, StatementKeeps
<1> QED BY <1>2, <1>3 DEF InsertUser

\* The credential is inserted: its user is committed or the transaction's own.
LEMMA InsertAccountKeeps ==
  ASSUME AccountsInv, NEW c \in Calls, InsertAccount(c)
  PROVE  AccountsInv'
<1> DEFINE k   == calls[c].connection
           new == [Conn(c) EXCEPT !.accounts = @ \cup {c}]
<1>1. calls[c].step = "account" /\ k # NoValue BY DEF InsertAccount, Runs
<1>2. CASE Errs(c) BY <1>1, <1>2, ErrsKeeps
<1>3. CASE /\ c \in users \cup Conn(c).users
           /\ Writes(c, new, users, accounts \cup {c}) /\ Goes(c, "commit")
           /\ UNCHANGED <<registryVars, invitations, profiles, disturbed>>
  <2>1. /\ k \in Connections /\ Conn(c) \in ConnectionRows /\ Conn(c) = pool[k]
        /\ Turn(c) = k /\ users \subseteq Calls /\ accounts \subseteq users /\ AuthTypes
    BY <1>1, Connected
  <2>2. /\ new \in ConnectionRows /\ new.transaction = Conn(c).transaction
        /\ new.users = pool[k].users /\ new.accounts = pool[k].accounts \cup {c}
        /\ new.removed = pool[k].removed
    BY <2>1 DEF ConnectionRows
  <2> HIDE DEF new
  <2>3. /\ pool' \in [Connections -> ConnectionRows] /\ idle' \in Seq(Connections)
        /\ idle' # <<>> /\ Head(idle') = k
        /\ pool'[k].transaction = pool[k].transaction
        /\ pool'[k].users = pool[k].users
        /\ pool'[k].removed = pool[k].removed /\ pool'[k].runs = NoValue
        /\ \A l \in Connections : l # k => pool'[l] = pool[l]
        /\ \/ /\ pool[k].transaction /\ UNCHANGED <<users, accounts>>
              /\ pool'[k].accounts = pool[k].accounts \cup {c}
           \/ /\ ~pool[k].transaction /\ users' = users /\ accounts' = accounts \cup {c}
              /\ pool'[k].accounts = pool[k].accounts
    BY <1>1, <1>3, <2>1, <2>2, Written
  <2>4. c \in users \cup pool[k].users BY <1>3, <2>1
  <2> HIDE DEF k
  <2>5. "commit" \in Steps /\ calls[c].step \in Statements BY <1>1 DEF Steps, Statements
  <2>6. \A d \in Calls : calls[d].step = "failed" => calls'[d].step = "failed"
    BY <1>3, <2>1, <2>5, FailedStays
  <2>7. ConnectionsAreSound'
    <3>1. \A d \in pool[k].removed : d \in Calls BY <2>1 DEF AuthTypes, ConnectionRows
    <3>2. \A l \in Connections : c \notin pool[l].removed
      BY <1>1 DEF AccountsInv, ConnectionsAreSound
    <3>3. pool'[k].accounts \subseteq pool[k].accounts \cup {c} /\ users' = users BY <2>3
    <3>4. \A l \in Connections : l # k => pool[l].removed \cap pool'[k].accounts = {}
      BY <2>1, <3>2, <3>3 DEF AccountsInv, ConnectionsAreSound
    <3>5. pool'[k].accounts \subseteq users' \cup pool'[k].users
      BY <2>1, <2>3, <2>4, <3>3 DEF AccountsInv, ConnectionsAreSound
    <3>6. ~pool'[k].transaction =>
            pool'[k].users = {} /\ pool'[k].accounts = {} /\ pool'[k].removed = {}
      BY <2>1, <2>3 DEF AccountsInv, ConnectionsAreSound
    <3>7. \A d \in pool'[k].removed :
            /\ calls'[d].step = "failed"
            /\ \A l \in Connections : l # k => d \notin pool[l].accounts
      BY <2>1, <2>3, <2>6, <3>1 DEF AccountsInv, ConnectionsAreSound
    <3>8. \A l \in Connections : l # k => pool[l].accounts \subseteq users' \cup pool[l].users
      BY <3>3 DEF AccountsInv, ConnectionsAreSound
    <3> QED BY <2>1, <2>3, <2>6, <3>4, <3>5, <3>6, <3>7, <3>8, SoundWithOne
  <2>8. calls'[c].step = "commit" /\ calls'[c].connection = NoValue
    BY <1>3, <2>1, <2>5, Gone
  <2>9. users' \subseteq Calls /\ accounts' \subseteq users'
    BY <2>1, <2>3, <2>4 DEF AccountsInv, ConnectionsAreSound
  <2>10. ASSUME CallIsWhole(c)
         PROVE  CallIsWhole(c)' /\ UNCHANGED <<users, accounts>>
    <3>1. c \notin users /\ InTransaction(c, {c}, {}) BY <1>1, <2>10 DEF CallIsWhole
    <3>2. pool[k].transaction BY <2>1, <3>1 DEF InTransaction
    <3>3. Turn(c)' = k /\ HasTurn(c)' BY <2>3, <2>8 DEF Turn, HasTurn
    <3>4. InTransaction(c, {c}, {c})'
      BY <2>1, <2>3, <3>1, <3>2, <3>3 DEF InTransaction
    <3> QED BY <2>3, <2>8, <3>1, <3>2, <3>4 DEF CallIsWhole
  <2> QED BY <1>3, <2>1, <2>3, <2>5, <2>7, <2>9, <2>10, StatementKeeps
<1> QED BY <1>2, <1>3 DEF InsertAccount

\* COMMIT and ROLLBACK leave a connection that is open and in no transaction.
LEMMA GivenEmpty ==
  ASSUME AuthTypes, NEW k \in Connections, GiveBack(k, [Closed EXCEPT !.open = TRUE])
  PROVE  /\ pool' \in [Connections -> ConnectionRows] /\ idle' \in Seq(Connections)
         /\ idle' # <<>> /\ Head(idle') = k
         /\ ~pool'[k].transaction /\ pool'[k].users = {} /\ pool'[k].accounts = {}
         /\ pool'[k].removed = {} /\ pool'[k].runs = NoValue
         /\ \A l \in Connections : l # k => pool'[l] = pool[l]
<1> DEFINE new == [Closed EXCEPT !.open = TRUE]
<1>1. /\ new \in ConnectionRows /\ ~new.transaction /\ new.users = {}
      /\ new.accounts = {} /\ new.removed = {}
  BY DEF Closed, ConnectionRows
<1> HIDE DEF new
<1>2. GiveBack(k, new) BY DEF new
<1> QED BY <1>1, <1>2, Given

\* What a transaction removed is written nowhere else, so its COMMIT takes no user from a
\* credential.
LEMMA CommitKeeps ==
  ASSUME AccountsInv, NEW c \in Calls, Commit(c)
  PROVE  AccountsInv'
<1> DEFINE k == calls[c].connection
<1>1. /\ calls[c].step = "commit" /\ k # NoValue /\ Goes(c, "profile")
      /\ GiveBack(k, [Closed EXCEPT !.open = TRUE])
      /\ users' = (users \cup Conn(c).users) \ Conn(c).removed
      /\ accounts' = (accounts \cup Conn(c).accounts) \ Conn(c).removed
      /\ UNCHANGED <<registryVars, invitations, profiles, disturbed>>
  BY DEF Commit, Runs
<1>2. /\ k \in Connections /\ Conn(c) \in ConnectionRows /\ Conn(c) = pool[k]
      /\ Turn(c) = k /\ users \subseteq Calls /\ accounts \subseteq users /\ AuthTypes
  BY <1>1, Connected
<1>3. /\ pool' \in [Connections -> ConnectionRows] /\ idle' \in Seq(Connections)
      /\ idle' # <<>> /\ Head(idle') = k
      /\ ~pool'[k].transaction /\ pool'[k].users = {} /\ pool'[k].accounts = {}
      /\ pool'[k].removed = {} /\ pool'[k].runs = NoValue
      /\ \A l \in Connections : l # k => pool'[l] = pool[l]
  BY <1>1, <1>2, GivenEmpty
<1>4. pool[k].users \subseteq Calls /\ pool[k].accounts \subseteq users \cup pool[k].users
  BY <1>2 DEF AccountsInv, ConnectionsAreSound, ConnectionRows
<1> HIDE DEF k
<1>5. users' \subseteq Calls /\ accounts' \subseteq users' BY <1>1, <1>2, <1>4
<1>6. "profile" \in Steps /\ calls[c].step \in Statements BY <1>1 DEF Steps, Statements
<1>7. \A d \in Calls : calls[d].step = "failed" => calls'[d].step = "failed"
  BY <1>1, <1>2, <1>6, FailedStays
<1>8. ConnectionsAreSound'
  <2>1. ASSUME NEW l \in Connections, l # k
        PROVE  pool[l].accounts \subseteq users' \cup pool[l].users
    <3>1. pool[l].accounts \subseteq users \cup pool[l].users
      BY DEF AccountsInv, ConnectionsAreSound
    <3>2. pool[l].accounts \cap pool[k].removed = {}
      BY <1>2, <2>1 DEF AccountsInv, ConnectionsAreSound
    <3> QED BY <1>1, <1>2, <3>1, <3>2
  <2> QED BY <1>2, <1>3, <1>7, <2>1, SoundWithOne
<1>9. calls'[c].step = "profile" BY <1>1, <1>2, <1>6, Gone
<1>10. ASSUME CallIsWhole(c)
       PROVE  /\ CallIsWhole(c)'
              /\ \A d \in Calls : d # c => /\ d \in users' => d \in users
                                           /\ d \in accounts => d \in accounts'
  <2>1. InTransaction(c, {c}, {c}) BY <1>1, <1>10 DEF CallIsWhole
  <2>2. users' = users \cup {c} /\ accounts' = accounts \cup {c}
    BY <1>1, <1>2, <2>1 DEF InTransaction
  <2>3. NoTransaction' BY <1>2, <1>3, <2>1 DEF InTransaction, NoTransaction
  <2> QED BY <1>3, <1>9, <2>2, <2>3 DEF CallIsWhole
<1> QED BY <1>1, <1>2, <1>3, <1>5, <1>6, <1>8, <1>10, StatementKeeps

\* ROLLBACK
LEMMA RollbackKeeps ==
  ASSUME AccountsInv, NEW c \in Calls, Rollback(c)
  PROVE  AccountsInv'
<1> DEFINE k == calls[c].connection
<1>1. /\ calls[c].step = "rollback" /\ k # NoValue /\ Goes(c, "failed")
      /\ GiveBack(k, [Closed EXCEPT !.open = TRUE])
      /\ UNCHANGED <<registryVars, invitations, profiles, users, accounts, disturbed>>
  BY DEF Rollback, Runs
<1>2. k \in Connections /\ users \subseteq Calls /\ accounts \subseteq users /\ AuthTypes
  BY <1>1, Connected
<1>3. /\ pool' \in [Connections -> ConnectionRows] /\ idle' \in Seq(Connections)
      /\ ~pool'[k].transaction /\ pool'[k].users = {} /\ pool'[k].accounts = {}
      /\ pool'[k].removed = {} /\ pool'[k].runs = NoValue
      /\ \A l \in Connections : l # k => pool'[l] = pool[l]
  BY <1>1, <1>2, GivenEmpty
<1> HIDE DEF k
<1>4. "failed" \in Steps /\ calls[c].step \in Statements BY <1>1 DEF Steps, Statements
<1>5. \A d \in Calls : calls[d].step = "failed" => calls'[d].step = "failed"
  BY <1>1, <1>2, <1>4, FailedStays
<1>6. ConnectionsAreSound'
  BY <1>1, <1>2, <1>3, <1>5, SoundWithOne DEF AccountsInv, ConnectionsAreSound
<1>7. calls'[c].step = "failed" BY <1>1, <1>2, <1>4, Gone
<1>8. ASSUME CallIsWhole(c) PROVE CallIsWhole(c)' /\ NoTransaction'
  <2>1. c \notin users' /\ NoTransaction BY <1>1, <1>8 DEF CallIsWhole
  <2>2. NoTransaction' BY <1>3, <2>1 DEF NoTransaction
  <2> QED BY <1>7, <2>1, <2>2 DEF CallIsWhole
<1> QED BY <1>1, <1>2, <1>3, <1>4, <1>6, <1>8, StatementKeeps

\* The profile is completed, with the custom role only while that is live and of the same
\* base; or the call takes its rows back.
LEMMA AcceptKeeps ==
  ASSUME AccountsInv, NEW c \in Calls, Accept(c)
  PROVE  AccountsInv'
<1> DEFINE i    == calls[c].invitation
           inv  == [invitations[i] EXCEPT !.accepted = TRUE]
           prof == [address |-> invitations[i].address, role |-> invitations[i].role,
                    custom |-> KeptRole(i)]
<1>1. AuthTypes /\ RegistryTypes BY TypesOfBoth DEF AccountsInv
<1>2. /\ calls[c].step = "profile" /\ i \in Invitations
      /\ UNCHANGED <<roles, dialogs, users, accounts, pool, idle, disturbed>>
  BY DEF Accept, registryVars, authVars, AccountsInv, InvitationsAreKnown
<1>3. PICK step \in {"ok", "undo"} : Goes(c, step) BY DEF Accept
<1>4. /\ calls' \in [Calls -> CallRows] /\ calls'[c].step = step
      /\ calls'[c].connection = NoValue /\ calls'[c].invitation = i
      /\ \A d \in Calls : d # c => calls'[d] = calls[d]
  BY <1>1, <1>3, Gone DEF Steps
<1>5. AuthTypes' BY <1>1, <1>2, <1>4 DEF AuthTypes
<1>6. InvitationsAreKnown' BY <1>2, <1>4 DEF AccountsInv, InvitationsAreKnown
<1>7. ConnectionsAreSound'
  <2>1. \A d \in Calls : calls[d].step = "failed" => calls'[d].step = "failed"
    BY <1>2, <1>4
  <2>2. \A l \in Connections : pool[l].removed \subseteq Calls
    BY <1>1 DEF AuthTypes, ConnectionRows
  <2> QED BY <1>2, <2>1, <2>2 DEF AccountsInv, ConnectionsAreSound
<1>8. Alone'
  <2>1. InCall(c) BY <1>2 DEF InCall
  <2>2. ASSUME ~disturbed PROVE CallIsWhole(c)' /\ NoTransaction'
    <3>1. CallIsWhole(c) BY <2>2 DEF AccountsInv, Alone
    <3>2. c \in accounts /\ NoTransaction /\ idle # <<>> BY <1>2, <3>1 DEF CallIsWhole
    <3>3. NoTransaction' BY <1>2, <3>2 DEF NoTransaction
    <3>4. HasTurn(c)' BY <1>2, <3>2 DEF HasTurn
    <3> QED BY <1>2, <1>4, <3>2, <3>3, <3>4 DEF CallIsWhole
  <2> QED BY <1>2, <1>4, <2>1, <2>2, AloneKeeps DEF AccountsInv, Alone
<1>9. RegistryTypes' /\ RolesAreWhole'
  <2>1. CASE UNCHANGED <<profiles, invitations>>
    BY <1>1, <1>2, <2>1
    DEF RegistryTypes, AccountsInv, RolesAreWhole, Matches, Acceptable, Pending, Live
  <2>2. CASE /\ StillAcceptable(i) /\ Matches(KeptRole(i), invitations[i].role)
             /\ profiles' = [profiles EXCEPT ![c] = prof]
             /\ invitations' = [invitations EXCEPT ![i].accepted = TRUE]
    <3>1. invitations[i] \in InvitationRows
      BY <1>1, <1>2, <2>2 DEF StillAcceptable, Acceptable, Pending, RegistryTypes
    <3>2. inv \in InvitationRows /\ inv.accepted BY <3>1 DEF InvitationRows
    <3>3. KeptRole(i) \in CustomRoles \cup {NoValue}
      BY <3>1 DEF KeptRole, InvitationRows
    <3>4. /\ prof \in ProfileRows /\ prof.custom = KeptRole(i)
          /\ prof.role = invitations[i].role
      BY <3>1, <3>3 DEF InvitationRows, ProfileRows
    <3>5. invitations' = [invitations EXCEPT ![i] = inv]
      BY <1>1, <1>2, <2>2 DEF RegistryTypes
    <3>6. Matches(prof.custom, prof.role) BY <2>2, <3>4
    <3>7. profiles' = [profiles EXCEPT ![c] = prof] BY <2>2
    <3> HIDE DEF inv, prof, i
    <3>8. RegistryTypes' BY <1>1, <1>2, <3>2, <3>4, <3>5, <3>7 DEF RegistryTypes
    <3>9. /\ invitations'[i] = inv
          /\ \A j \in Invitations : j # i => invitations'[j] = invitations[j]
          /\ profiles'[c] = prof /\ \A d \in Calls : d # c => profiles'[d] = profiles[d]
      BY <1>1, <1>2, <3>5, <3>7 DEF RegistryTypes
    <3>10. RolesAreWhole'
      BY <1>2, <3>2, <3>6, <3>9
      DEF AccountsInv, RolesAreWhole, Matches, Acceptable, Pending, Live
    <3> QED BY <3>8, <3>10
  <2> QED BY <2>1, <2>2 DEF Accept
<1>10. AccountsTypeOK'
  BY <1>5, <1>9 DEF AuthTypes, RegistryTypes, AccountsTypeOK, RoleRows, DialogRows,
                    InvitationRows, ProfileRows, ConnectionRows, CallRows
<1> QED BY <1>6, <1>7, <1>8, <1>9, <1>10 DEF AccountsInv

\* The rows are taken back; what another connection has written for them keeps them.
LEMMA UndoKeeps ==
  ASSUME AccountsInv, NEW c \in Calls, Undo(c)
  PROVE  AccountsInv'
<1> DEFINE k   == calls[c].connection
           new == [Conn(c) EXCEPT !.users = @ \ {c}, !.accounts = @ \ {c},
                                  !.removed = @ \cup ({c} \cap users)]
<1>1. /\ calls[c].step = "undo" /\ k # NoValue /\ Goes(c, "failed")
      /\ c \in users => \A l \in Connections : l # k => c \notin pool[l].accounts
      /\ Writes(c, new, users \ {c}, accounts \ {c})
      /\ UNCHANGED <<registryVars, invitations, profiles, disturbed>>
  BY DEF Undo, Runs, TakenBack, Elsewhere
<1>2. /\ k \in Connections /\ Conn(c) \in ConnectionRows /\ Conn(c) = pool[k]
      /\ users \subseteq Calls /\ accounts \subseteq users /\ AuthTypes
  BY <1>1, Connected
<1>3. /\ new \in ConnectionRows /\ new.transaction = Conn(c).transaction
      /\ new.users = pool[k].users \ {c} /\ new.accounts = pool[k].accounts \ {c}
      /\ new.removed = pool[k].removed \cup ({c} \cap users)
  BY <1>2 DEF ConnectionRows
<1> HIDE DEF new
<1>4. /\ pool' \in [Connections -> ConnectionRows] /\ idle' \in Seq(Connections)
      /\ pool'[k].transaction = pool[k].transaction /\ pool'[k].runs = NoValue
      /\ \A l \in Connections : l # k => pool'[l] = pool[l]
      /\ \/ /\ pool[k].transaction /\ UNCHANGED <<users, accounts>>
            /\ pool'[k].users = pool[k].users \ {c}
            /\ pool'[k].accounts = pool[k].accounts \ {c}
            /\ pool'[k].removed = pool[k].removed \cup ({c} \cap users)
         \/ /\ ~pool[k].transaction /\ users' = users \ {c} /\ accounts' = accounts \ {c}
            /\ pool'[k].users = pool[k].users
            /\ pool'[k].accounts = pool[k].accounts
            /\ pool'[k].removed = pool[k].removed
  BY <1>1, <1>2, <1>3, Written
<1> HIDE DEF k
<1>5. "failed" \in Steps /\ calls[c].step \in Statements BY <1>1 DEF Steps, Statements
<1>6. \A d \in Calls : calls[d].step = "failed" => calls'[d].step = "failed"
  BY <1>1, <1>2, <1>5, FailedStays
<1>7. calls'[c].step = "failed" BY <1>1, <1>2, <1>5, Gone
<1>8. users' \subseteq Calls /\ accounts' \subseteq users' BY <1>2, <1>4
<1>9. ConnectionsAreSound'
  <2>1. ~pool'[k].transaction =>
          pool'[k].users = {} /\ pool'[k].accounts = {} /\ pool'[k].removed = {}
    BY <1>2, <1>4 DEF AccountsInv, ConnectionsAreSound
  <2>2. pool'[k].accounts \subseteq users' \cup pool'[k].users
    BY <1>2, <1>4 DEF AccountsInv, ConnectionsAreSound
  <2>3. \A l \in Connections : l # k => pool[l].accounts \subseteq users' \cup pool[l].users
    BY <1>1, <1>4 DEF AccountsInv, ConnectionsAreSound
  <2>4. ASSUME NEW d \in pool'[k].removed
        PROVE  /\ calls'[d].step = "failed"
               /\ \A l \in Connections : l # k => d \notin pool[l].accounts
    <3>1. \/ d \in pool[k].removed /\ d \in Calls
          \/ d = c /\ c \in users
      BY <1>2, <1>4 DEF ConnectionRows
    <3>2. CASE d \in pool[k].removed /\ d \in Calls
      BY <1>2, <1>6, <3>2 DEF AccountsInv, ConnectionsAreSound
    <3>3. CASE d = c /\ c \in users BY <1>1, <1>7, <3>3
    <3> QED BY <3>1, <3>2, <3>3
  <2>5. \A l \in Connections : l # k => pool[l].removed \cap pool'[k].accounts = {}
    BY <1>2, <1>4 DEF AccountsInv, ConnectionsAreSound
  <2> QED BY <1>2, <1>4, <1>6, <2>1, <2>2, <2>3, <2>4, <2>5, SoundWithOne
<1>10. ASSUME CallIsWhole(c)
       PROVE  /\ CallIsWhole(c)' /\ NoTransaction'
              /\ \A d \in Calls : d # c => /\ d \in users' => d \in users
                                           /\ d \in accounts => d \in accounts'
  <2>1. NoTransaction BY <1>1, <1>10 DEF CallIsWhole
  <2>2. NoTransaction' BY <1>2, <1>4, <2>1 DEF NoTransaction
  <2>3. users' = users \ {c} /\ accounts' = accounts \ {c}
    BY <1>2, <1>4, <2>1 DEF NoTransaction
  <2> QED BY <1>7, <2>2, <2>3 DEF CallIsWhole
<1> QED BY <1>1, <1>2, <1>4, <1>5, <1>8, <1>9, <1>10, StatementKeeps

\* The portal stops: every transaction is gone.
LEMMA RestartKeeps ==
  ASSUME AccountsInv, Restart
  PROVE  AccountsInv'
<1>1. AuthTypes BY TypesOfBoth DEF AccountsInv
<1>2. /\ pool' = [k \in Connections |-> Closed] /\ idle' = <<>> /\ disturbed' = TRUE
      /\ UNCHANGED <<registryVars, invitations, profiles, users, accounts>>
  BY DEF Restart
<1>3. \A c \in Calls : [calls[c] EXCEPT !.step = "failed", !.connection = NoValue] \in CallRows
  BY <1>1 DEF AuthTypes, CallRows, Steps
<1>4. calls' \in [Calls -> CallRows] BY <1>1, <1>3 DEF Restart, AuthTypes
<1>5. AuthTypes' BY <1>1, <1>2, <1>4, ClosedFields, EmptySeq DEF AuthTypes
<1>6. ASSUME NEW c \in Calls, calls'[c].step # "none"
      PROVE  calls'[c].invitation \in Invitations
  <2>1. calls[c] \in CallRows BY <1>1 DEF AuthTypes
  <2>2. CASE InCall(c)
    <3>1. calls'[c] = [calls[c] EXCEPT !.step = "failed", !.connection = NoValue]
      BY <2>2 DEF Restart
    <3>2. calls'[c].invitation = calls[c].invitation BY <2>1, <3>1 DEF CallRows
    <3> QED BY <2>2, <3>2 DEF AccountsInv, InvitationsAreKnown, InCall
  <2>3. CASE ~InCall(c)
    BY <1>6, <2>3 DEF Restart, AccountsInv, InvitationsAreKnown
  <2> QED BY <2>2, <2>3
<1>7. InvitationsAreKnown' BY <1>6 DEF InvitationsAreKnown
<1>8. ConnectionsAreSound' BY <1>2, ClosedFields DEF ConnectionsAreSound
<1>9. Alone' BY <1>2 DEF Alone
<1> QED BY <1>2, <1>5, <1>7, <1>8, <1>9, AuthKeeps

\* Every step keeps the invariant.
LEMMA AccountsStep == AccountsInv /\ [AccountsNext]_accountsVars => AccountsInv'
<1> SUFFICES ASSUME AccountsInv, [AccountsNext]_accountsVars PROVE AccountsInv' OBVIOUS
<1>1. CASE UNCHANGED accountsVars
  <2>1. /\ UNCHANGED <<authVars, calls, disturbed>>
        /\ UNCHANGED <<roles, dialogs, invitations, profiles>>
    BY <1>1 DEF accountsVars, registryVars
  <2>2. RegistryTypes' BY <2>1, TypesOfBoth DEF AccountsInv, RegistryTypes
  <2>3. RolesAreWhole'
    BY <2>1 DEF AccountsInv, RolesAreWhole, Matches, Acceptable, Pending, Live
  <2> QED BY <2>1, <2>2, <2>3, RegistryKeeps
<1>2. CASE \/ \E r \in CustomRoles, base \in BaseRoles : CreateRole(r, base)
           \/ \E d \in Dialogs, r \in CustomRoles : OpenDialog(d, r)
           \/ \E d \in Dialogs : CloseDialog(d) \/ ArchiveRole(d)
           \/ \E d \in Dialogs, base \in BaseRoles : SaveRole(d, base)
           \/ \E c \in Calls, role \in BaseRoles, r \in CustomRoles \cup {NoValue} :
                AssignUser(c, role, r)
  BY <1>2, CreateRoleKeeps, DialogsKeep, ArchiveRoleKeeps, SaveRoleKeeps, AssignUserKeeps
<1>3. CASE \/ \E i \in Invitations, a \in Addresses, role \in BaseRoles,
                 r \in CustomRoles \cup {NoValue} : CreateInvitation(i, a, role, r)
           \/ \E i \in Invitations : RevokeInvitation(i) \/ Expire(i)
  BY <1>3, InvitationsKeep
<1>4. CASE \E k \in Connections : OtherTakes(k) \/ OtherGivesBack(k) \/ CloseIdle(k)
  BY <1>4, OtherTakesKeeps, OtherGivesBackKeeps, CloseIdleKeeps
<1>5. CASE \/ \E c \in Calls, i \in Invitations : StartAccept(c, i)
           \/ \E c \in Calls, k \in Connections : Sends(c, k)
  BY <1>5, StartAcceptKeeps, SendsKeeps
<1>6. CASE \E c \in Calls : \/ NoConnection(c) \/ Begin(c) \/ InsertUser(c)
                            \/ InsertAccount(c) \/ Commit(c) \/ Rollback(c)
                            \/ Accept(c) \/ Undo(c)
  BY <1>6, NoConnectionKeeps, TransactionBegins, InsertUserKeeps, InsertAccountKeeps,
     CommitKeeps, RollbackKeeps, AcceptKeeps, UndoKeeps
<1>7. CASE Restart BY <1>7, RestartKeeps
<1> QED BY <1>1, <1>2, <1>3, <1>4, <1>5, <1>6, <1>7 DEF AccountsNext

\* However statements of other requests fall between those of an acceptance, a credential
\* has its user, and what is taken back was written nowhere else.
THEOREM AccountsInvariant == AccountsSpec => []AccountsInv
BY AccountsInitially, AccountsStep, PTL DEF AccountsSpec

\* A custom role that is held has the base role of its holder, and one that can still be
\* accepted is not archived (custom_role_matches, save_custom_role, archive_custom_role).
THEOREM RolesAreWholeHolds == AccountsSpec => []RolesAreWhole
<1>1. AccountsInv => RolesAreWhole BY DEF AccountsInv
<1> QED BY <1>1, AccountsInvariant, PTL

\* An acceptance that nobody disturbs runs all its statements on one connection, for any
\* number of connections: it ends with user and credential, or with neither.
THEOREM WholeWhenAloneHolds == AccountsSpec => []WholeWhenAlone
<1>1. AccountsInv => WholeWhenAlone BY DEF AccountsInv, Alone, CallIsWhole, WholeWhenAlone
<1> QED BY <1>1, AccountsInvariant, PTL

------------------------------------------------------------------------------
(* The digests: why a notice is mailed only so often. While a notice is       *)
(* unsent, every mail is accounted for by an attempt, a lost digest or a      *)
(* worker that still holds it; and no worker takes it once it is given up.    *)

Rows == [person : People, age : Ages, emailed : BOOLEAN,
         attempts : 0 .. MaxAttempts + Cardinality(Mailers)]
DigestStates == [step : {"none", "send", "sent", "failed"}, items : SUBSET Notices]

\* The workers that hold a notice, and those of them that have not sent it yet.
Holders(n) == {w \in Mailers : n \in digests[w].items}
Senders(n) == {w \in Mailers : n \in digests[w].items /\ digests[w].step = "send"}

NoticeIsSound(n) ==
  /\ notices[n] = NoNotice => mailed[n] = 0 /\ Holders(n) = {}
  /\ n \in Unsent =>
       /\ mailed[n] + Cardinality(Senders(n)) <=
            notices[n].attempts + lost[n] + Cardinality(Holders(n))
       /\ notices[n].attempts + Cardinality(Holders(n)) <=
            MaxAttempts + Cardinality(Mailers) - 1
  /\ notices[n] # NoNotice =>
       /\ mailed[n] + Cardinality(Senders(n)) <=
            MaxAttempts + lost[n] + Cardinality(Mailers) - 1
       /\ notices[n].emailed => mailed[n] > 0 \/ n \in retired \/ GivenUp(n)
  /\ \A w \in Holders(n) : /\ digests[w].step # "none"
                           /\ digests[w].step = "sent" => mailed[n] > 0

DigestsInv == DigestsTypeOK /\ \A n \in Notices : NoticeIsSound(n)

\* The numbers that are compared.
LEMMA Numbers ==
  ASSUME DigestsTypeOK, NEW n \in Notices
  PROVE  /\ mailed[n] \in Nat /\ lost[n] \in Nat /\ Cardinality(Mailers) \in Nat
         /\ Cardinality(Holders(n)) \in Nat /\ Cardinality(Senders(n)) \in Nat
         /\ Cardinality(Senders(n)) <= Cardinality(Holders(n))
         /\ Cardinality(Holders(n)) <= Cardinality(Mailers)
         /\ notices[n] = NoNotice \/ notices[n] \in Rows
         /\ notices[n] \in Rows => notices[n].attempts \in Nat /\ notices[n] # NoNotice
         /\ MaxAttempts \in Nat /\ MaxAttempts >= 1
<1> USE DigestsAssumption DEF DigestsTypeOK
<1>1. Senders(n) \subseteq Holders(n) /\ Holders(n) \subseteq Mailers BY DEF Senders, Holders
<1>2. IsFiniteSet(Holders(n)) /\ IsFiniteSet(Senders(n)) BY <1>1, FS_Subset
<1>3. /\ Cardinality(Senders(n)) <= Cardinality(Holders(n))
      /\ Cardinality(Holders(n)) <= Cardinality(Mailers)
  BY <1>1, <1>2, FS_Subset
<1>4. /\ Cardinality(Mailers) \in Nat /\ Cardinality(Holders(n)) \in Nat
      /\ Cardinality(Senders(n)) \in Nat
  BY <1>2, FS_CardinalityType
<1>5. NoNotice \notin Rows BY DEF Rows, Ages
<1>6. notices[n] = NoNotice \/ notices[n] \in Rows BY DEF Rows
<1>7. mailed[n] \in Nat /\ lost[n] \in Nat OBVIOUS
<1>8. notices[n] \in Rows => notices[n].attempts \in Nat BY <1>4 DEF Rows
<1> QED BY <1>3, <1>4, <1>5, <1>6, <1>7, <1>8

\* No worker holds anything at first.
LEMMA DigestsInitially == DigestsInit => DigestsInv
<1> SUFFICES ASSUME DigestsInit PROVE DigestsInv OBVIOUS
<1> USE DigestsAssumption DEF DigestsInit
<1>1. NoDigest \in DigestStates BY DEF NoDigest, DigestStates
<1>2. digests \in [Mailers -> DigestStates] BY <1>1
<1>3. DigestsTypeOK BY <1>2 DEF DigestsTypeOK, DigestStates
<1>4. \A n \in Notices : NoticeIsSound(n)
  BY DEF NoticeIsSound, Unsent, Holders, NoDigest
<1> QED BY <1>3, <1>4 DEF DigestsInv

\* Whether a digest holds a notice, and has still to mail it, as a number.
Carries(d, n) == IF n \in d.items THEN 1 ELSE 0
Outstanding(d, n) == IF n \in d.items /\ d.step = "send" THEN 1 ELSE 0

\* How many workers hold a notice after one of them has taken up something else.
LEMMA OneDigestChanges ==
  ASSUME DigestsTypeOK, NEW w \in Mailers, NEW new \in DigestStates,
         digests' = [digests EXCEPT ![w] = new], NEW n \in Notices
  PROVE  /\ digests' \in [Mailers -> DigestStates] /\ digests'[w] = new
         /\ \A v \in Mailers : v # w => digests'[v] = digests[v]
         /\ Cardinality(Holders(n))' = Cardinality(Holders(n))
              + Carries(new, n) - Carries(digests[w], n)
         /\ Cardinality(Senders(n))' = Cardinality(Senders(n))
              + Outstanding(new, n) - Outstanding(digests[w], n)
<1>1. /\ digests' \in [Mailers -> DigestStates] /\ digests'[w] = new
      /\ \A v \in Mailers : v # w => digests'[v] = digests[v]
  BY DEF DigestsTypeOK, DigestStates
<1>2. ASSUME NEW S \in SUBSET Mailers, NEW T \in SUBSET Mailers, S \ {w} = T \ {w}
      PROVE  Cardinality(T) = Cardinality(S)
               + (IF w \in T THEN 1 ELSE 0) - (IF w \in S THEN 1 ELSE 0)
  <2>1. IsFiniteSet(S) /\ IsFiniteSet(T) BY DigestsAssumption, FS_Subset
  <2>2. Cardinality(S) \in Nat /\ Cardinality(T) \in Nat BY <2>1, FS_CardinalityType
  <2>3. Cardinality(S \ {w}) = IF w \in S THEN Cardinality(S) - 1 ELSE Cardinality(S)
    BY <2>1, FS_RemoveElement
  <2>4. Cardinality(T \ {w}) = IF w \in T THEN Cardinality(T) - 1 ELSE Cardinality(T)
    BY <2>1, FS_RemoveElement
  <2> QED BY <1>2, <2>2, <2>3, <2>4
<1>3. /\ Holders(n) \in SUBSET Mailers /\ Holders(n)' \in SUBSET Mailers
      /\ Holders(n) \ {w} = Holders(n)' \ {w}
      /\ w \in Holders(n) <=> n \in digests[w].items
      /\ w \in Holders(n)' <=> n \in new.items
  BY <1>1 DEF Holders
<1>4. /\ Senders(n) \in SUBSET Mailers /\ Senders(n)' \in SUBSET Mailers
      /\ Senders(n) \ {w} = Senders(n)' \ {w}
      /\ w \in Senders(n) <=> n \in digests[w].items /\ digests[w].step = "send"
      /\ w \in Senders(n)' <=> n \in new.items /\ new.step = "send"
  BY <1>1 DEF Senders
<1>5. Cardinality(Holders(n)') = Cardinality(Holders(n))
        + (IF w \in Holders(n)' THEN 1 ELSE 0) - (IF w \in Holders(n) THEN 1 ELSE 0)
  BY <1>2, <1>3
<1>6. Cardinality(Senders(n)') = Cardinality(Senders(n))
        + (IF w \in Senders(n)' THEN 1 ELSE 0) - (IF w \in Senders(n) THEN 1 ELSE 0)
  BY <1>2, <1>4
<1> QED BY <1>1, <1>3, <1>4, <1>5, <1>6 DEF Carries, Outstanding

\* Marking unsent notices changes nothing else in them.
LEMMA MarkedRows ==
  ASSUME DigestsTypeOK, NEW S \in SUBSET Unsent
  PROVE  /\ Marked(S) \in [Notices -> {NoNotice} \cup Rows]
         /\ \A n \in Notices : n \notin S => Marked(S)[n] = notices[n]
         /\ \A n \in S : /\ notices[n] \in Rows /\ ~notices[n].emailed
                         /\ Marked(S)[n] \in Rows /\ Marked(S)[n].emailed
                         /\ Marked(S)[n].attempts = notices[n].attempts
<1>1. \A n \in Notices : notices[n] \in {NoNotice} \cup Rows BY DEF DigestsTypeOK, Rows
<1>2. \A n \in S : n \in Notices /\ notices[n] \in Rows /\ ~notices[n].emailed
  BY <1>1 DEF Unsent
<1>3. ASSUME NEW row \in Rows
      PROVE  /\ [row EXCEPT !.emailed = TRUE] \in Rows
             /\ [row EXCEPT !.emailed = TRUE].emailed
             /\ [row EXCEPT !.emailed = TRUE].attempts = row.attempts
  BY DEF Rows
<1>4. \A n \in S : /\ Marked(S)[n] \in Rows /\ Marked(S)[n].emailed
                   /\ Marked(S)[n].attempts = notices[n].attempts
  BY <1>2, <1>3 DEF Marked
<1>5. \A n \in Notices : n \notin S => Marked(S)[n] = notices[n] BY DEF Marked
<1>6. \A n \in Notices : Marked(S)[n] \in {NoNotice} \cup Rows BY <1>1, <1>4, <1>5
<1> QED BY <1>2, <1>4, <1>5, <1>6 DEF Marked

\* What may happen to a row while no digest changes hands.
RowChanges(n) ==
  \/ notices'[n] = notices[n]
  \/ notices[n] = NoNotice /\ ~notices'[n].emailed /\ notices'[n].attempts = 0
  \/ /\ notices[n] # NoNotice /\ notices'[n] # NoNotice
     /\ notices'[n].attempts = notices[n].attempts
     /\ ~notices'[n].emailed => ~notices[n].emailed
     /\ notices'[n].emailed => notices[n].emailed \/ n \in retired' \/ GivenUp(n)

\* Such a step keeps the account.
LEMMA RowsChange ==
  ASSUME DigestsInv, UNCHANGED <<digests, mailed, lost>>, wanting' \subseteq People,
         retired \subseteq retired', retired' \subseteq Notices,
         notices' \in [Notices -> {NoNotice} \cup Rows], \A n \in Notices : RowChanges(n)
  PROVE  DigestsInv'
<1>1. DigestsTypeOK' BY DEF DigestsInv, DigestsTypeOK, Rows
<1>2. ASSUME NEW n \in Notices PROVE NoticeIsSound(n)'
  <2>1. /\ NoticeIsSound(n) /\ Holders(n)' = Holders(n) /\ Senders(n)' = Senders(n)
        /\ RowChanges(n)
    BY DEF DigestsInv, Holders, Senders
  <2>2. /\ mailed[n] \in Nat /\ lost[n] \in Nat /\ Cardinality(Mailers) \in Nat
        /\ MaxAttempts \in Nat /\ MaxAttempts >= 1
    BY Numbers DEF DigestsInv
  <2>3. CASE notices'[n] = notices[n]
    <3>1. n \in Unsent' <=> n \in Unsent BY <2>3 DEF Unsent
    <3>2. GivenUp(n)' <=> GivenUp(n) BY <2>3 DEF GivenUp
    <3> QED BY <2>1, <2>3, <3>1, <3>2 DEF NoticeIsSound
  <2>4. CASE notices[n] = NoNotice /\ ~notices'[n].emailed /\ notices'[n].attempts = 0
    <3>1. mailed[n] = 0 /\ Holders(n) = {} /\ Senders(n) = {} /\ Cardinality({}) = 0
      BY <2>1, <2>4, FS_EmptySet DEF NoticeIsSound, Holders, Senders
    <3> QED BY <2>1, <2>2, <2>4, <3>1 DEF NoticeIsSound
  <2>5. CASE /\ notices[n] # NoNotice /\ notices'[n] # NoNotice
             /\ notices'[n].attempts = notices[n].attempts
             /\ ~notices'[n].emailed => ~notices[n].emailed
             /\ notices'[n].emailed => notices[n].emailed \/ n \in retired' \/ GivenUp(n)
    <3>1. n \in Unsent' => n \in Unsent BY <2>5 DEF Unsent
    <3>2. GivenUp(n)' <=> GivenUp(n) BY <2>5 DEF GivenUp
    <3> QED BY <2>1, <2>5, <3>1, <3>2 DEF NoticeIsSound
  <2> QED BY <2>1, <2>3, <2>4, <2>5 DEF RowChanges
<1> QED BY <1>1, <1>2 DEF DigestsInv

\* The steps in which no digest changes hands.
LEMMA RowStepsKeep ==
  ASSUME DigestsInv,
         \/ \E n \in Notices, p \in People : Notify(n, p)
         \/ \E n \in Notices : GrowOlder(n)
         \/ \E p \in People : Switch(p)
         \/ GiveUp \/ Retire \/ UNCHANGED digestsVars
  PROVE  DigestsInv'
<1> USE DigestsAssumption
<1>1. /\ DigestsTypeOK /\ notices \in [Notices -> {NoNotice} \cup Rows]
      /\ wanting \subseteq People /\ retired \subseteq Notices
      /\ \A n \in Notices : notices[n] = NoNotice \/ notices[n] \in Rows
      /\ NoNotice \notin Rows
  BY DEF DigestsInv, DigestsTypeOK, Rows, Ages
<1>2. ASSUME NEW n \in Notices, NEW p \in People, Notify(n, p) PROVE DigestsInv'
  <2> DEFINE new == [person |-> p, age |-> "fresh", emailed |-> FALSE, attempts |-> 0]
  <2>1. Cardinality(Mailers) \in Nat BY FS_CardinalityType
  <2>2. new \in Rows /\ ~new.emailed /\ new.attempts = 0 BY <2>1 DEF Rows, Ages
  <2>3. notices' = [notices EXCEPT ![n] = new] /\ notices[n] = NoNotice BY <1>2 DEF Notify
  <2> HIDE DEF new
  <2>4. notices' \in [Notices -> {NoNotice} \cup Rows] /\ \A m \in Notices : RowChanges(m)
    BY <1>1, <2>2, <2>3 DEF RowChanges
  <2> QED BY <1>1, <1>2, <2>4, RowsChange DEF Notify
<1>3. ASSUME NEW n \in Notices, GrowOlder(n) PROVE DigestsInv'
  <2>1. PICK row \in Rows : row = notices[n] BY <1>1, <1>3 DEF GrowOlder, Unsent
  <2>2. PICK age \in {"ripe", "stale"} : notices' = [notices EXCEPT ![n].age = age]
    BY <1>3 DEF GrowOlder
  <2> DEFINE new == [row EXCEPT !.age = age]
  <2>3. /\ new \in Rows /\ new.emailed = row.emailed /\ new.attempts = row.attempts
    BY DEF Rows, Ages
  <2>4. notices' = [notices EXCEPT ![n] = new] BY <2>1, <2>2
  <2> HIDE DEF new
  <2>5. notices' \in [Notices -> {NoNotice} \cup Rows] /\ \A m \in Notices : RowChanges(m)
    BY <1>1, <2>1, <2>3, <2>4 DEF RowChanges
  <2> QED BY <1>1, <1>3, <2>5, RowsChange DEF GrowOlder
<1>4. ASSUME NEW S \in SUBSET Unsent, notices' = Marked(S),
             \A n \in S : n \in retired' \/ GivenUp(n),
             retired \subseteq retired', retired' \subseteq Notices,
             UNCHANGED <<wanting, digests, mailed, lost>>
      PROVE  DigestsInv'
  <2>1. notices' \in [Notices -> {NoNotice} \cup Rows] /\ \A n \in Notices : RowChanges(n)
    BY <1>1, <1>4, MarkedRows DEF RowChanges
  <2> QED BY <1>1, <1>4, <2>1, RowsChange
<1>5. CASE GiveUp
  <2>1. PICK S \in SUBSET Unsent : S = {n \in Unsent : GivenUp(n)} OBVIOUS
  <2> QED BY <1>1, <1>4, <1>5, <2>1 DEF GiveUp
<1>6. CASE Retire
  <2>1. PICK S \in SUBSET Unsent : S = {n \in Unsent : notices[n].age = "stale"} OBVIOUS
  <2>2. notices' = Marked(S) /\ retired' = retired \cup S /\ S \subseteq Notices
    BY <1>6, <2>1 DEF Retire, Unsent
  <2> QED BY <1>1, <1>4, <1>6, <2>2 DEF Retire
<1>7. CASE (\E p \in People : Switch(p)) \/ UNCHANGED digestsVars
  <2>1. /\ UNCHANGED <<notices, digests, mailed, retired, lost>> /\ wanting' \subseteq People
    BY <1>1, <1>7 DEF Switch, digestsVars
  <2> QED BY <1>1, <2>1, RowsChange DEF RowChanges
<1> QED BY <1>2, <1>3, <1>5, <1>6, <1>7

\* A worker takes what is not given up; what is, is marked.
LEMMA ClaimKeeps ==
  ASSUME DigestsInv, NEW w \in Mailers, NEW p \in People, Claim(w, p)
  PROVE  DigestsInv'
<1> USE DigestsAssumption
<1>1. PICK dropped \in SUBSET Unsent : dropped = {n \in Unsent : GivenUp(n)} OBVIOUS
<1>2. PICK items \in SUBSET Notices : items = UnsentOf(p) \ dropped BY DEF UnsentOf, Unsent
<1> DEFINE new == [step |-> "send", items |-> items]
<1>3. new \in DigestStates /\ new.items = items /\ new.step = "send" BY DEF DigestStates
<1>4. /\ notices' = Marked(dropped) /\ digests' = [digests EXCEPT ![w] = new]
      /\ UNCHANGED <<wanting, mailed, retired, lost>> /\ digests[w].step = "none"
  BY <1>1, <1>2 DEF Claim
<1> HIDE DEF new
<1>5. DigestsTypeOK BY DEF DigestsInv
<1>6. notices' \in [Notices -> {NoNotice} \cup Rows] BY <1>4, <1>5, MarkedRows
<1>7. digests' \in [Mailers -> DigestStates] BY <1>3, <1>4 DEF DigestsInv, DigestsTypeOK, DigestStates
<1>8. DigestsTypeOK' BY <1>4, <1>5, <1>6, <1>7 DEF DigestsTypeOK, Rows, DigestStates
<1>9. ASSUME NEW n \in Notices PROVE NoticeIsSound(n)'
  <2>1. NoticeIsSound(n) BY DEF DigestsInv
  <2>2. n \notin digests[w].items BY <1>4, <2>1 DEF NoticeIsSound, Holders
  <2>3. /\ digests'[w] = new /\ \A v \in Mailers : v # w => digests'[v] = digests[v]
        /\ Cardinality(Holders(n))' =
             Cardinality(Holders(n)) + (IF n \in items THEN 1 ELSE 0)
        /\ Cardinality(Senders(n))' =
             Cardinality(Senders(n)) + (IF n \in items THEN 1 ELSE 0)
    <3>1. Cardinality(Holders(n)) \in Nat /\ Cardinality(Senders(n)) \in Nat
      BY <1>5, Numbers
    <3>2. /\ digests'[w] = new /\ \A v \in Mailers : v # w => digests'[v] = digests[v]
          /\ Cardinality(Holders(n))' = Cardinality(Holders(n))
               + Carries(new, n) - Carries(digests[w], n)
          /\ Cardinality(Senders(n))' = Cardinality(Senders(n))
               + Outstanding(new, n) - Outstanding(digests[w], n)
      BY <1>3, <1>4, <1>5, OneDigestChanges
    <3> QED BY <1>3, <2>2, <3>1, <3>2 DEF Carries, Outstanding
  <2>4. \A v \in Holders(n)' : \/ v \in Holders(n) /\ digests'[v] = digests[v]
                               \/ n \in items /\ digests'[v].step = "send"
    BY <1>3, <2>3 DEF Holders
  <2>5. n \in items => n \notin dropped /\ n \in Unsent /\ notices[n].attempts < MaxAttempts
    BY <1>1, <1>2, <1>5, Numbers DEF UnsentOf, Unsent, GivenUp
  <2>6. CASE n \in dropped
    <3>1. /\ n \in Unsent /\ n \notin items /\ GivenUp(n) BY <1>1, <1>2, <2>6
    <3>2. /\ notices'[n].emailed /\ notices'[n].attempts = notices[n].attempts
          /\ notices'[n] \in Rows /\ notices[n] # NoNotice
      BY <1>4, <1>5, <2>6, <3>1, MarkedRows DEF Unsent
    <3>3. n \notin Unsent' /\ GivenUp(n)' /\ notices'[n] # NoNotice
      BY <3>1, <3>2 DEF Unsent, GivenUp, Rows, Ages
    <3>4. Cardinality(Holders(n)) \in Nat /\ Cardinality(Senders(n)) \in Nat
      BY <1>5, Numbers
    <3> QED BY <1>4, <2>1, <2>3, <2>4, <3>1, <3>2, <3>3, <3>4 DEF NoticeIsSound
  <2>7. CASE n \notin dropped
    <3>1. notices'[n] = notices[n] BY <1>4, <1>5, <2>7, MarkedRows
    <3>2. (n \in Unsent' <=> n \in Unsent) /\ (GivenUp(n)' <=> GivenUp(n))
      BY <3>1 DEF Unsent, GivenUp
    <3>3. CASE n \notin items
      <4>1. Cardinality(Holders(n)) \in Nat /\ Cardinality(Senders(n)) \in Nat
        BY <1>5, Numbers
      <4>2. notices[n] = NoNotice => Holders(n)' = {}
        BY <2>1, <2>4, <3>3 DEF NoticeIsSound
      <4> QED BY <1>4, <2>1, <2>3, <2>4, <3>1, <3>2, <3>3, <4>1, <4>2 DEF NoticeIsSound
    <3>4. CASE n \in items
      <4>1. /\ n \in Unsent /\ notices[n] # NoNotice /\ ~notices[n].emailed
            /\ notices[n].attempts < MaxAttempts
        BY <2>5, <3>4 DEF Unsent
      <4>2. /\ mailed[n] \in Nat /\ lost[n] \in Nat /\ Cardinality(Mailers) \in Nat
            /\ Cardinality(Holders(n)) \in Nat /\ Cardinality(Senders(n)) \in Nat
            /\ notices[n].attempts \in Nat /\ MaxAttempts \in Nat
        BY <1>5, <4>1, Numbers
      <4>3. Cardinality(Holders(n))' <= Cardinality(Mailers)
        <5>1. Holders(n)' \in SUBSET Mailers BY DEF Holders
        <5> QED BY <5>1, FS_Subset
      <4>4. /\ Cardinality(Holders(n))' = Cardinality(Holders(n)) + 1
            /\ Cardinality(Senders(n))' = Cardinality(Senders(n)) + 1
        BY <2>3, <3>4
      <4>5. mailed[n] + Cardinality(Senders(n)) <=
              notices[n].attempts + lost[n] + Cardinality(Holders(n))
        BY <2>1, <4>1 DEF NoticeIsSound
      <4>6. /\ mailed[n] + Cardinality(Senders(n))' <=
                 notices[n].attempts + lost[n] + Cardinality(Holders(n))'
            /\ notices[n].attempts + Cardinality(Holders(n))' <=
                 MaxAttempts + Cardinality(Mailers) - 1
            /\ mailed[n] + Cardinality(Senders(n))' <=
                 MaxAttempts + lost[n] + Cardinality(Mailers) - 1
        BY <4>1, <4>2, <4>3, <4>4, <4>5
      <4> QED BY <1>4, <2>1, <2>4, <3>1, <3>4, <4>1, <4>6 DEF NoticeIsSound
    <3> QED BY <3>3, <3>4
  <2> QED BY <2>6, <2>7
<1> QED BY <1>8, <1>9 DEF DigestsInv

\* What a worker does with what it holds: it mails it, fails, settles it or is lost. The
\* notices it holds are mailed once more, marked, charged with an attempt or counted as
\* lost; the other notices stay as they are.
WorkerStep(w, new) ==
  /\ digests[w].step # "none" /\ digests' = [digests EXCEPT ![w] = new]
  /\ UNCHANGED <<wanting, retired>>
  /\ mailed' \in [Notices -> Nat] /\ lost' \in [Notices -> 0 .. MaxLost]
  /\ notices' \in [Notices -> {NoNotice} \cup Rows]
  /\ \A n \in Notices \ digests[w].items :
       notices'[n] = notices[n] /\ mailed'[n] = mailed[n] /\ lost'[n] = lost[n]
  /\ \/ /\ new.items = digests[w].items /\ new.step \in {"sent", "failed"}
        /\ UNCHANGED <<notices, lost>>
        /\ \/ UNCHANGED mailed /\ new.step = "failed"
           \/ /\ digests[w].step = "send"
              /\ \A n \in digests[w].items : mailed'[n] = mailed[n] + 1
     \/ /\ new.items = {} /\ digests[w].step = "sent" /\ UNCHANGED <<mailed, lost>>
        /\ \A n \in digests[w].items :
             notices'[n] # NoNotice /\ notices'[n].emailed
             /\ notices'[n].attempts = notices[n].attempts
     \/ /\ new.items = {} /\ digests[w].step = "failed" /\ UNCHANGED <<mailed, lost>>
        /\ \A n \in digests[w].items :
             \/ n \notin Unsent /\ notices'[n] = notices[n]
             \/ /\ n \in Unsent /\ notices'[n] # NoNotice /\ ~notices'[n].emailed
                /\ notices'[n].attempts = notices[n].attempts + 1
     \/ /\ new.items = {} /\ UNCHANGED <<notices, mailed>>
        /\ \A n \in digests[w].items : lost'[n] = lost[n] + 1

\* Such a step keeps the account.
LEMMA WorkerStepKeeps ==
  ASSUME DigestsInv, NEW w \in Mailers, NEW new \in DigestStates, WorkerStep(w, new)
  PROVE  DigestsInv'
<1>1. DigestsTypeOK BY DEF DigestsInv
<1>2. digests' = [digests EXCEPT ![w] = new] BY DEF WorkerStep
<1>3. digests' \in [Mailers -> DigestStates]
  BY <1>1, <1>2 DEF DigestsTypeOK, DigestStates
<1>4. DigestsTypeOK' BY <1>1, <1>3 DEF WorkerStep, DigestsTypeOK, DigestStates, Rows
<1>5. ASSUME NEW n \in Notices PROVE NoticeIsSound(n)'
  <2>1. NoticeIsSound(n) BY DEF DigestsInv
  <2>2. /\ digests'[w] = new /\ \A v \in Mailers : v # w => digests'[v] = digests[v]
        /\ Cardinality(Holders(n))' = Cardinality(Holders(n))
             + Carries(new, n) - Carries(digests[w], n)
        /\ Cardinality(Senders(n))' = Cardinality(Senders(n))
             + Outstanding(new, n) - Outstanding(digests[w], n)
    BY <1>1, <1>2, OneDigestChanges
  <2>3. /\ mailed[n] \in Nat /\ lost[n] \in Nat /\ Cardinality(Mailers) \in Nat
        /\ Cardinality(Holders(n)) \in Nat /\ Cardinality(Senders(n)) \in Nat
        /\ notices[n] # NoNotice => notices[n].attempts \in Nat
        /\ MaxAttempts \in Nat
    BY <1>1, Numbers
  <2>4. CASE n \notin digests[w].items
    <3>1. /\ notices'[n] = notices[n] /\ mailed'[n] = mailed[n] /\ lost'[n] = lost[n]
          /\ n \notin new.items /\ retired' = retired
      BY <2>4 DEF WorkerStep
    <3>2. Cardinality(Holders(n))' = Cardinality(Holders(n))
          /\ Cardinality(Senders(n))' = Cardinality(Senders(n))
      BY <2>2, <2>3, <2>4, <3>1 DEF Carries, Outstanding
    <3>3. Holders(n)' = Holders(n) /\ \A v \in Holders(n) : digests'[v] = digests[v]
      BY <2>2, <2>4, <3>1 DEF Holders
    <3>4. (n \in Unsent' <=> n \in Unsent) /\ (GivenUp(n)' <=> GivenUp(n))
      BY <3>1 DEF Unsent, GivenUp
    <3> QED BY <2>1, <3>1, <3>2, <3>3, <3>4 DEF NoticeIsSound
  <2>5. CASE n \in digests[w].items
    <3>1. w \in Holders(n) /\ notices[n] # NoNotice
      BY <2>1, <2>5 DEF Holders, NoticeIsSound
    <3>2. retired' = retired BY DEF WorkerStep
    <3>3. notices[n].emailed => mailed[n] > 0 \/ n \in retired \/ GivenUp(n)
      BY <2>1, <3>1 DEF NoticeIsSound
    <3>4. mailed[n] + Cardinality(Senders(n)) <=
            MaxAttempts + lost[n] + Cardinality(Mailers) - 1
      BY <2>1, <3>1 DEF NoticeIsSound
    <3>5. CASE /\ new.items = digests[w].items /\ new.step \in {"sent", "failed"}
               /\ UNCHANGED <<notices, lost>>
               /\ \/ UNCHANGED mailed /\ new.step = "failed"
                  \/ digests[w].step = "send" /\ mailed'[n] = mailed[n] + 1
      <4>1. (n \in Unsent' <=> n \in Unsent) /\ (GivenUp(n)' <=> GivenUp(n))
        BY <3>5 DEF Unsent, GivenUp
      <4>2. mailed'[n] \in {mailed[n], mailed[n] + 1} /\ (new.step = "sent" => mailed'[n] > 0)
        BY <2>3, <3>5
      <4>3. /\ Cardinality(Holders(n))' = Cardinality(Holders(n))
            /\ mailed'[n] + Cardinality(Senders(n))' <= mailed[n] + Cardinality(Senders(n))
        BY <2>2, <2>3, <2>5, <3>5 DEF Carries, Outstanding
      <4>4. \A v \in Holders(n)' : /\ digests'[v].step # "none"
                                   /\ digests'[v].step = "sent" => mailed'[n] > 0
        <5> SUFFICES ASSUME NEW v \in Mailers, n \in digests'[v].items
                     PROVE  /\ digests'[v].step # "none"
                            /\ digests'[v].step = "sent" => mailed'[n] > 0
          BY DEF Holders
        <5>1. CASE v = w BY <2>2, <3>5, <4>2, <5>1
        <5>2. CASE v # w
          <6>1. digests'[v] = digests[v] /\ v \in Holders(n) BY <2>2, <5>2 DEF Holders
          <6> QED BY <2>1, <2>3, <4>2, <6>1 DEF NoticeIsSound
        <5> QED BY <5>1, <5>2
      <4>5. /\ Cardinality(Senders(n))' \in Int /\ mailed'[n] \in Nat
        BY <2>2, <2>3, <2>5, <3>5, <4>2 DEF Carries, Outstanding
      <4>6. notices[n].emailed => mailed'[n] > 0 \/ n \in retired \/ GivenUp(n)
        BY <2>3, <3>3, <4>2
      <4>7. mailed'[n] + Cardinality(Senders(n))' <=
              MaxAttempts + lost[n] + Cardinality(Mailers) - 1
        BY <2>3, <3>4, <4>3, <4>5
      <4>8. n \in Unsent =>
              mailed'[n] + Cardinality(Senders(n))' <=
                notices[n].attempts + lost[n] + Cardinality(Holders(n))
        <5> SUFFICES ASSUME n \in Unsent
                     PROVE  mailed'[n] + Cardinality(Senders(n))' <=
                              notices[n].attempts + lost[n] + Cardinality(Holders(n))
          OBVIOUS
        <5>1. mailed[n] + Cardinality(Senders(n)) <=
                notices[n].attempts + lost[n] + Cardinality(Holders(n))
          BY <2>1 DEF NoticeIsSound
        <5> QED BY <2>3, <3>1, <4>3, <4>5, <5>1
      <4> QED BY <2>1, <3>1, <3>2, <3>5, <4>1, <4>3, <4>4, <4>6, <4>7, <4>8 DEF NoticeIsSound
    <3>6. CASE new.items = {}
      <4>1. /\ Cardinality(Holders(n))' = Cardinality(Holders(n)) - 1
            /\ Cardinality(Senders(n))' = Cardinality(Senders(n))
                 - (IF digests[w].step = "send" THEN 1 ELSE 0)
        BY <2>2, <2>3, <2>5, <3>6 DEF Carries, Outstanding
      <4>2. \A v \in Holders(n)' : v \in Holders(n) /\ digests'[v] = digests[v]
        BY <2>2, <3>6 DEF Holders
      <4>3. \A v \in Holders(n)' : /\ digests'[v].step # "none"
                                   /\ digests'[v].step = "sent" => mailed[n] > 0
        BY <2>1, <4>2 DEF NoticeIsSound
      <4>4. CASE /\ digests[w].step = "sent" /\ UNCHANGED <<mailed, lost>>
                 /\ notices'[n] # NoNotice /\ notices'[n].emailed
                 /\ notices'[n].attempts = notices[n].attempts
        <5>1. mailed[n] > 0 BY <2>1, <3>1, <4>4 DEF NoticeIsSound
        <5>2. n \notin Unsent' BY <4>4 DEF Unsent
        <5>3. Cardinality(Senders(n))' = Cardinality(Senders(n)) BY <2>3, <4>1, <4>4
        <5> QED BY <3>4, <4>3, <4>4, <5>1, <5>2, <5>3 DEF NoticeIsSound
      <4>5. CASE /\ digests[w].step = "failed" /\ UNCHANGED <<mailed, lost>>
                 /\ n \notin Unsent /\ notices'[n] = notices[n]
        <5>1. n \notin Unsent' /\ (GivenUp(n)' <=> GivenUp(n))
          BY <4>5 DEF Unsent, GivenUp
        <5>2. Cardinality(Senders(n))' = Cardinality(Senders(n)) BY <2>3, <4>1, <4>5
        <5> QED BY <3>1, <3>2, <3>3, <3>4, <4>3, <4>5, <5>1, <5>2 DEF NoticeIsSound
      <4>6. CASE /\ digests[w].step = "failed" /\ UNCHANGED <<mailed, lost>>
                 /\ n \in Unsent /\ notices'[n] # NoNotice /\ ~notices'[n].emailed
                 /\ notices'[n].attempts = notices[n].attempts + 1
        <5>1. Cardinality(Senders(n))' = Cardinality(Senders(n)) BY <2>3, <4>1, <4>6
        <5>2. /\ mailed[n] + Cardinality(Senders(n)) <=
                   notices[n].attempts + lost[n] + Cardinality(Holders(n))
              /\ notices[n].attempts + Cardinality(Holders(n)) <=
                   MaxAttempts + Cardinality(Mailers) - 1
          BY <2>1, <4>6 DEF NoticeIsSound
        <5>3. /\ mailed[n] + Cardinality(Senders(n)) <=
                   (notices[n].attempts + 1) + lost[n] + (Cardinality(Holders(n)) - 1)
              /\ (notices[n].attempts + 1) + (Cardinality(Holders(n)) - 1) <=
                   MaxAttempts + Cardinality(Mailers) - 1
          BY <2>3, <3>1, <5>2
        <5> QED BY <3>4, <4>1, <4>3, <4>6, <5>1, <5>3 DEF NoticeIsSound
      <4>7. CASE UNCHANGED <<notices, mailed>> /\ lost'[n] = lost[n] + 1
        <5>1. (n \in Unsent' <=> n \in Unsent) /\ (GivenUp(n)' <=> GivenUp(n))
          BY <4>7 DEF Unsent, GivenUp
        <5>2. Cardinality(Senders(n))' \in Int
              /\ Cardinality(Senders(n))' <= Cardinality(Senders(n))
          BY <2>3, <4>1
        <5>3. mailed[n] + Cardinality(Senders(n))' <=
                MaxAttempts + (lost[n] + 1) + Cardinality(Mailers) - 1
          BY <2>3, <3>4, <5>2
        <5>4. n \in Unsent =>
                /\ mailed[n] + Cardinality(Senders(n))' <=
                     notices[n].attempts + (lost[n] + 1) + (Cardinality(Holders(n)) - 1)
                /\ notices[n].attempts + (Cardinality(Holders(n)) - 1) <=
                     MaxAttempts + Cardinality(Mailers) - 1
          <6> SUFFICES ASSUME n \in Unsent
                       PROVE  /\ mailed[n] + Cardinality(Senders(n))' <=
                                   notices[n].attempts + (lost[n] + 1)
                                     + (Cardinality(Holders(n)) - 1)
                              /\ notices[n].attempts + (Cardinality(Holders(n)) - 1) <=
                                   MaxAttempts + Cardinality(Mailers) - 1
            OBVIOUS
          <6>1. /\ mailed[n] + Cardinality(Senders(n)) <=
                     notices[n].attempts + lost[n] + Cardinality(Holders(n))
                /\ notices[n].attempts + Cardinality(Holders(n)) <=
                     MaxAttempts + Cardinality(Mailers) - 1
            BY <2>1 DEF NoticeIsSound
          <6> QED BY <2>3, <3>1, <5>2, <6>1
        <5> QED BY <3>1, <3>2, <3>3, <4>1, <4>3, <4>7, <5>1, <5>3, <5>4 DEF NoticeIsSound
      <4> QED BY <2>5, <3>6, <4>4, <4>5, <4>6, <4>7 DEF WorkerStep
    <3> QED BY <2>5, <3>5, <3>6 DEF WorkerStep
  <2> QED BY <2>4, <2>5
<1> QED BY <1>4, <1>5 DEF DigestsInv

\* The five things a worker does are such steps.
LEMMA WorkersKeep ==
  ASSUME DigestsInv, NEW w \in Mailers,
         \/ \E step \in {"sent", "failed"} : Send(w, step)
         \/ SettleSent(w) \/ Fail(w) \/ SettleFailed(w) \/ Lose(w)
  PROVE  DigestsInv'
<1>1. /\ DigestsTypeOK /\ digests \in [Mailers -> DigestStates] /\ digests[w] \in DigestStates
      /\ notices \in [Notices -> {NoNotice} \cup Rows] /\ NoNotice \notin Rows
      /\ mailed \in [Notices -> Nat] /\ lost \in [Notices -> 0 .. MaxLost]
  BY DigestsAssumption DEF DigestsInv, DigestsTypeOK, DigestStates, Rows, Ages
<1>2. digests[w].items \subseteq Notices BY <1>1 DEF DigestStates
<1>3. \A n \in digests[w].items : notices[n] \in Rows /\ notices[n] # NoNotice
  BY <1>1, <1>2 DEF DigestsInv, NoticeIsSound, Holders
<1>4. NoDigest \in DigestStates /\ NoDigest.items = {} BY DEF NoDigest, DigestStates
<1>5. ASSUME NEW step \in {"sent", "failed"}, Send(w, step) PROVE DigestsInv'
  <2> DEFINE new == [digests[w] EXCEPT !.step = step]
  <2>1. new \in DigestStates /\ new.items = digests[w].items /\ new.step = step
    BY <1>1 DEF DigestStates
  <2>2. digests' = [digests EXCEPT ![w] = new] BY <1>1, <1>5 DEF Send
  <2>3. /\ mailed' \in [Notices -> Nat]
        /\ \A n \in digests[w].items : mailed'[n] = mailed[n] + 1
        /\ \A n \in Notices \ digests[w].items : mailed'[n] = mailed[n]
    BY <1>1, <1>2, <1>5 DEF Send
  <2> HIDE DEF new
  <2>4. WorkerStep(w, new) BY <1>1, <1>5, <2>1, <2>2, <2>3 DEF Send, WorkerStep
  <2> QED BY <2>1, <2>4, WorkerStepKeeps
<1>6. CASE Fail(w)
  <2> DEFINE new == [digests[w] EXCEPT !.step = "failed"]
  <2>1. new \in DigestStates /\ new.items = digests[w].items /\ new.step = "failed"
    BY <1>1 DEF DigestStates
  <2>2. digests' = [digests EXCEPT ![w] = new] BY <1>1, <1>6 DEF Fail
  <2> HIDE DEF new
  <2>3. WorkerStep(w, new) BY <1>1, <1>6, <2>1, <2>2 DEF Fail, WorkerStep
  <2> QED BY <2>1, <2>3, WorkerStepKeeps
<1>7. CASE SettleSent(w)
  <2>1. PICK S \in SUBSET Unsent : S = Settled(w) BY DEF Settled
  <2>2. /\ notices' = Marked(S) /\ digests' = [digests EXCEPT ![w] = NoDigest]
        /\ UNCHANGED <<wanting, mailed, retired, lost>> /\ digests[w].step = "sent"
    BY <1>7, <2>1 DEF SettleSent
  <2>3. notices' \in [Notices -> {NoNotice} \cup Rows] BY <1>1, <2>2, MarkedRows
  <2>4. \A n \in Notices \ digests[w].items : notices'[n] = notices[n]
    BY <1>1, <2>1, <2>2, MarkedRows DEF Settled
  <2>5. \A n \in digests[w].items :
          notices'[n] # NoNotice /\ notices'[n].emailed
          /\ notices'[n].attempts = notices[n].attempts
    <3> SUFFICES ASSUME NEW n \in digests[w].items
                 PROVE  /\ notices'[n] # NoNotice /\ notices'[n].emailed
                        /\ notices'[n].attempts = notices[n].attempts
      OBVIOUS
    <3>1. CASE n \in S BY <1>1, <2>2, <3>1, MarkedRows
    <3>2. CASE n \notin S
      <4>1. notices'[n] = notices[n] BY <1>1, <1>2, <2>2, <3>2, MarkedRows
      <4>2. n \notin Unsent BY <2>1, <3>2 DEF Settled
      <4> QED BY <1>2, <1>3, <4>1, <4>2 DEF Unsent
    <3> QED BY <3>1, <3>2
  <2>6. WorkerStep(w, NoDigest) BY <1>1, <1>4, <2>2, <2>3, <2>4, <2>5 DEF WorkerStep
  <2> QED BY <1>4, <2>6, WorkerStepKeeps
<1>8. CASE SettleFailed(w)
  <2>1. /\ digests[w].step = "failed" /\ digests' = [digests EXCEPT ![w] = NoDigest]
        /\ UNCHANGED <<wanting, mailed, retired, lost>>
    BY <1>8 DEF SettleFailed
  <2>2. ASSUME NEW n \in Settled(w)
        PROVE  /\ n \in Unsent /\ n \in Notices /\ notices'[n] \in Rows /\ ~notices'[n].emailed
               /\ notices'[n].attempts = notices[n].attempts + 1
    <3>1. n \in Unsent /\ n \in Notices /\ n \in digests[w].items
      BY <2>2 DEF Settled, Unsent
    <3>2. PICK row \in Rows : row = notices[n] BY <1>3, <3>1
    <3>3. /\ NoticeIsSound(n) /\ w \in Holders(n) BY <3>1 DEF DigestsInv, Holders
    <3>4. row.attempts + 1 \in 0 .. MaxAttempts + Cardinality(Mailers)
      <4>1. row.attempts + Cardinality(Holders(n)) <= MaxAttempts + Cardinality(Mailers) - 1
        BY <3>1, <3>2, <3>3 DEF NoticeIsSound
      <4>2. /\ Cardinality(Holders(n)) \in Nat /\ Cardinality(Mailers) \in Nat
            /\ MaxAttempts \in Nat /\ row.attempts \in Nat
        BY <1>1, <3>1, <3>2, Numbers
      <4> QED BY <4>1, <4>2
    <3> DEFINE new == [row EXCEPT !.attempts = row.attempts + 1]
    <3>5. /\ new \in Rows /\ new.emailed = row.emailed /\ new.attempts = row.attempts + 1
      BY <3>4 DEF Rows
    <3>6. notices'[n] = new BY <1>8, <2>2, <3>1, <3>2 DEF SettleFailed
    <3> HIDE DEF new
    <3> QED BY <3>1, <3>2, <3>5, <3>6 DEF Unsent
  <2>3. \A n \in Notices : n \notin Settled(w) => notices'[n] = notices[n]
    BY <1>8 DEF SettleFailed
  <2>4. notices' \in [Notices -> {NoNotice} \cup Rows]
    <3>1. DOMAIN notices' = Notices /\ notices' = [n \in Notices |-> notices'[n]]
      BY <1>8 DEF SettleFailed
    <3>2. \A n \in Notices : notices'[n] \in {NoNotice} \cup Rows BY <1>1, <2>2, <2>3
    <3> QED BY <3>1, <3>2
  <2>5. \A n \in digests[w].items :
          \/ n \notin Unsent /\ notices'[n] = notices[n]
          \/ /\ n \in Unsent /\ notices'[n] # NoNotice /\ ~notices'[n].emailed
             /\ notices'[n].attempts = notices[n].attempts + 1
    BY <1>1, <1>2, <2>2, <2>3 DEF Settled
  <2>6. \A n \in Notices \ digests[w].items : notices'[n] = notices[n] BY <2>3 DEF Settled
  <2>7. WorkerStep(w, NoDigest) BY <1>1, <1>4, <2>1, <2>4, <2>5, <2>6 DEF WorkerStep
  <2> QED BY <1>4, <2>7, WorkerStepKeeps
<1>9. CASE Lose(w)
  <2>1. /\ lost' \in [Notices -> 0 .. MaxLost]
        /\ \A n \in digests[w].items : lost'[n] = lost[n] + 1
        /\ \A n \in Notices \ digests[w].items : lost'[n] = lost[n]
    BY <1>1, <1>2, <1>9, DigestsAssumption DEF Lose
  <2>2. WorkerStep(w, NoDigest) BY <1>1, <1>4, <1>9, <2>1 DEF Lose, WorkerStep
  <2> QED BY <1>4, <2>2, WorkerStepKeeps
<1> QED BY <1>5, <1>6, <1>7, <1>8, <1>9

\* Every step keeps the invariant.
LEMMA DigestsStep == DigestsInv /\ [DigestsNext]_digestsVars => DigestsInv'
<1> SUFFICES ASSUME DigestsInv, [DigestsNext]_digestsVars PROVE DigestsInv' OBVIOUS
<1>1. ASSUME NEW w \in Mailers, NEW p \in People, Claim(w, p) PROVE DigestsInv'
  BY <1>1, ClaimKeeps
<1> QED BY <1>1, RowStepsKeep, WorkersKeep DEF DigestsNext

\* For any number of workers, attempts and lost digests, every mail of a notice is accounted
\* for, and none is marked as mailed for nothing.
THEOREM MailsAreAccountedForHolds == DigestsSpec => []MailsAreAccountedFor
<1>1. DigestsInv => MailsAreAccountedFor
  <2> SUFFICES ASSUME DigestsInv, NEW n \in Notices, notices[n] # NoNotice
               PROVE  /\ notices[n].emailed => mailed[n] > 0 \/ n \in retired \/ GivenUp(n)
                      /\ mailed[n] <= MaxAttempts + lost[n] + Cardinality(Mailers) - 1
    BY DEF MailsAreAccountedFor
  <2>1. /\ mailed[n] + Cardinality(Senders(n)) <=
             MaxAttempts + lost[n] + Cardinality(Mailers) - 1
        /\ notices[n].emailed => mailed[n] > 0 \/ n \in retired \/ GivenUp(n)
    BY DEF DigestsInv, NoticeIsSound
  <2>2. /\ mailed[n] \in Nat /\ lost[n] \in Nat /\ Cardinality(Mailers) \in Nat
        /\ Cardinality(Senders(n)) \in Nat /\ MaxAttempts \in Nat
    BY Numbers DEF DigestsInv
  <2> QED BY <2>1, <2>2
<1> QED BY <1>1, DigestsInitially, DigestsStep, PTL DEF DigestsSpec

------------------------------------------------------------------------------
(* The administration.                                                        *)

\* The invariants of the components, each of the one whose steps are taken.
AdministrationInv ==
  /\ part \in Parts
  /\ part = "accounts"     => AccountsInv
  /\ part = "taxonomy"     => TaxonomyInv
  /\ part = "labels"       => LabelsInv
  /\ part = "architecture" => ArchitectureTypeOK
  /\ part = "index"        => IndexInv
  /\ part = "digests"      => DigestsInv

\* A step is one of the part that is taken, or nothing.
LEMMA AdministrationStep ==
  AdministrationInv /\ [Next]_<<part, accountsVars, taxonomyVars, labelsVars,
                                architectureVars, indexVars, digestsVars>>
    => AdministrationInv'
<1> SUFFICES ASSUME AdministrationInv,
                    [Next]_<<part, accountsVars, taxonomyVars, labelsVars,
                             architectureVars, indexVars, digestsVars>>
             PROVE  AdministrationInv'
  OBVIOUS
<1>1. /\ part' = part /\ part \in Parts
      /\ part = "accounts"     => [AccountsNext]_accountsVars
      /\ part = "taxonomy"     => [TaxonomyNext]_taxonomyVars
      /\ part = "labels"       => [LabelsNext]_labelsVars
      /\ part = "architecture" => [ArchitectureNext]_architectureVars
      /\ part = "index"        => [IndexNext]_indexVars
      /\ part = "digests"      => [DigestsNext]_digestsVars
  BY DEF AdministrationInv, Next, Only
<1> QED BY <1>1, AccountsStep, TaxonomyStep, LabelsStep, ArchitectureStep, IndexStep,
           DigestsStep DEF AdministrationInv

\* Every component of the administration keeps its types.
THEOREM AdministrationTypeCorrect == AdministrationSpec => []AdministrationTypeOK
<1>1. Init => AdministrationInv
  BY AccountsInitially, TaxonomyInitially, LabelsInitially, ArchitectureInitially,
     IndexInitially, DigestsInitially DEF Init, AdministrationInv
<1>2. AdministrationInv => AdministrationTypeOK
  BY IndexTypes DEF AdministrationInv, AdministrationTypeOK, AccountsInv, TaxonomyInv,
     LabelsInv, DigestsInv
<1> QED BY <1>1, <1>2, AdministrationStep, PTL DEF AdministrationSpec
==============================================================================
