------------------------------ MODULE Accounts ------------------------------
(* How a person gets an account and a role: the invitations, the custom roles *)
(* that narrow a built-in role, and the call that accepts an invitation. That *)
(* call writes the sign-in rows statement by statement through the pool of    *)
(* auth connections, which other requests use at the same time, and then      *)
(* completes the profile with one SQL function. The administrators are super  *)
(* admins: what a knowledge admin may not do is left out.                     *)
EXTENDS Integers, Sequences, FiniteSets

CONSTANTS
  CustomRoles,  \* the ids of custom roles
  BaseRoles,    \* the built-in roles a custom role may narrow
  Dialogs,      \* the role dialogs that administrators have open
  Invitations,  \* the ids of invitations
  Addresses,    \* the mail addresses invited
  Calls,        \* the acceptances; a call's name is also the id of the user it creates
  Connections,  \* the auth pool: as many as its max
  NoValue,      \* SQL NULL, or nothing
  MaxRevision   \* bound: the revision at which a custom role is edited no more

Other == "other request"

\* A row is something else than NULL, and the other requests are no acceptance.
ASSUME AccountsAssumption ==
  /\ NoValue \notin CustomRoles \cup Invitations \cup Connections
  /\ NoValue \notin [archived : BOOLEAN, base : BaseRoles, revision : 1 .. MaxRevision]
  /\ Other \notin Calls \cup {NoValue}
  /\ MaxRevision \in Nat \ {0}

VARIABLES
  roles,        \* app.custom_roles
  dialogs,      \* what each role dialog was opened with
  invitations,  \* app.invitations
  profiles,     \* app.profiles
  users,        \* the committed rows of auth."user"
  accounts,     \* the committed credentials in auth.account, by user
  pool,         \* the auth connections: the transaction each one is in, what it has written
  idle,         \* the connections waiting for work, the next one first
  calls,        \* the acceptances
  disturbed     \* somebody else used the pool during an acceptance, or the portal went down

registryVars == <<roles, dialogs>>
authVars     == <<users, accounts, pool, idle>>
accountsVars == <<roles, dialogs, invitations, profiles, authVars, calls, disturbed>>

Steps == {"begin", "user", "account", "commit", "profile", "undo", "rollback", "ok", "failed"}
Statements == {"begin", "user", "account", "commit", "undo", "rollback"}

Closed  == [open |-> FALSE, transaction |-> FALSE, users |-> {}, accounts |-> {},
            removed |-> {}, runs |-> NoValue]
NewCall == [step |-> "none", invitation |-> NoValue, address |-> NoValue, connection |-> NoValue]

AccountsTypeOK ==
  /\ roles \in [CustomRoles -> {NoValue} \cup
                  [archived : BOOLEAN, base : BaseRoles, revision : 1 .. MaxRevision]]
  /\ dialogs \in [Dialogs -> {NoValue} \cup
                    [role : CustomRoles, base : BaseRoles, revision : 1 .. MaxRevision]]
  /\ invitations \in [Invitations -> {NoValue} \cup
       [accepted : BOOLEAN, revoked : BOOLEAN, expired : BOOLEAN,
        address : Addresses, role : BaseRoles, custom : CustomRoles \cup {NoValue}]]
  /\ profiles \in [Calls -> {NoValue} \cup
       [address : Addresses, role : BaseRoles, custom : CustomRoles \cup {NoValue}]]
  /\ users \subseteq Calls /\ accounts \subseteq users
  /\ pool \in [Connections -> [open : BOOLEAN, transaction : BOOLEAN, users : SUBSET Calls,
                               accounts : SUBSET Calls, removed : SUBSET Calls,
                               runs : Calls \cup {Other, NoValue}]]
  /\ idle \in Seq(Connections)
  /\ calls \in [Calls -> [step : Steps \cup {"none"}, invitation : Invitations \cup {NoValue},
                          address : Addresses \cup {NoValue},
                          connection : Connections \cup {NoValue}]]
  /\ disturbed \in BOOLEAN

AccountsInit ==
  /\ roles = [r \in CustomRoles |-> NoValue]
  /\ dialogs = [d \in Dialogs |-> NoValue]
  /\ invitations = [i \in Invitations |-> NoValue]
  /\ profiles = [c \in Calls |-> NoValue]
  /\ users = {} /\ accounts = {}
  /\ pool = [k \in Connections |-> Closed]
  /\ idle = <<>>
  /\ calls = [c \in Calls |-> NewCall]
  /\ disturbed = FALSE

Live(r)      == roles[r] # NoValue /\ ~roles[r].archived
Holds(c, r)  == profiles[c] # NoValue /\ profiles[c].custom = r
Held(r)      == \E c \in Calls : Holds(c, r)
Pending(i)   == invitations[i] # NoValue /\ ~invitations[i].accepted /\ ~invitations[i].revoked
Acceptable(i) == Pending(i) /\ ~invitations[i].expired
InCall(c)    == calls[c].step \notin {"none", "ok", "failed"}

\* custom_role_matches, the trigger on profiles and invitations.
Matches(r, role) == r # NoValue => Live(r) /\ roles[r].base = role
------------------------------------------------------------------------------
(* Custom roles. A dialog keeps the revision the card was drawn with.         *)

CreateRole(r, base) ==
  /\ roles[r] = NoValue
  /\ roles' = [roles EXCEPT ![r] = [archived |-> FALSE, base |-> base, revision |-> 1]]
  /\ UNCHANGED <<dialogs, invitations, profiles, authVars, calls, disturbed>>

OpenDialog(d, r) ==
  /\ dialogs[d] = NoValue /\ Live(r)
  /\ dialogs' = [dialogs EXCEPT ![d] =
       [role |-> r, base |-> roles[r].base, revision |-> roles[r].revision]]
  /\ UNCHANGED <<roles, invitations, profiles, authVars, calls, disturbed>>

CloseDialog(d) ==
  /\ dialogs[d] # NoValue
  /\ dialogs' = [dialogs EXCEPT ![d] = NoValue]
  /\ UNCHANGED <<roles, invitations, profiles, authVars, calls, disturbed>>

\* What save_custom_role and archive_custom_role find wrong with a dialog's revision.
IsCurrent(d) == Live(dialogs[d].role) /\ roles[dialogs[d].role].revision = dialogs[d].revision

\* Mutant: the base may change under the holders.
BaseMayAlwaysChange(r, base) == TRUE

\* The base is fixed while somebody holds the role; open invitations do not count.
BaseMayBecome(r, base) == roles[r].base = base \/ ~Held(r)

SaveRole(d, base) ==
  LET r == dialogs[d].role IN
  /\ dialogs[d] # NoValue /\ roles[r].revision < MaxRevision
  /\ IsCurrent(d) /\ BaseMayBecome(r, base)
  /\ roles' = [roles EXCEPT ![r].base = base, ![r].revision = @ + 1]
  /\ dialogs' = [dialogs EXCEPT ![d] = NoValue]
  /\ UNCHANGED <<invitations, profiles, authVars, calls, disturbed>>

\* Nobody holds the role, and no invitation that can still be accepted names it.
Unassigned(r) == ~Held(r) /\ \A i \in Invitations : Acceptable(i) => invitations[i].custom # r

ArchiveRole(d) ==
  LET r == dialogs[d].role IN
  /\ dialogs[d] # NoValue /\ roles[r].revision < MaxRevision
  /\ IsCurrent(d) /\ Unassigned(r)
  /\ roles' = [roles EXCEPT ![r].archived = TRUE, ![r].revision = @ + 1]
  /\ dialogs' = [dialogs EXCEPT ![d] = NoValue]
  /\ UNCHANGED <<invitations, profiles, authVars, calls, disturbed>>

\* assign_user: the role and the custom role of somebody who has a profile.
AssignUser(c, role, r) ==
  /\ profiles[c] # NoValue /\ Matches(r, role)
  /\ profiles' = [profiles EXCEPT ![c].role = role, ![c].custom = r]
  /\ UNCHANGED <<registryVars, invitations, authVars, calls, disturbed>>
------------------------------------------------------------------------------
(* Invitations. One invitation per address is neither accepted nor revoked.   *)

Registered(address) == \E c \in Calls : profiles[c] # NoValue /\ profiles[c].address = address

CreateInvitation(i, address, role, r) ==
  /\ invitations[i] = NoValue /\ Matches(r, role) /\ ~Registered(address)
  /\ \A j \in Invitations : Pending(j) => invitations[j].address # address
  /\ invitations' = [invitations EXCEPT ![i] =
       [accepted |-> FALSE, revoked |-> FALSE, expired |-> FALSE,
        address |-> address, role |-> role, custom |-> r]]
  /\ UNCHANGED <<registryVars, profiles, authVars, calls, disturbed>>

RevokeInvitation(i) ==
  /\ Pending(i)
  /\ invitations' = [invitations EXCEPT ![i].revoked = TRUE]
  /\ UNCHANGED <<registryVars, profiles, authVars, calls, disturbed>>

\* 72 hours pass.
Expire(i) ==
  /\ Pending(i) /\ ~invitations[i].expired
  /\ invitations' = [invitations EXCEPT ![i].expired = TRUE]
  /\ UNCHANGED <<registryVars, profiles, authVars, calls, disturbed>>
------------------------------------------------------------------------------
(* The pool. pool.query takes the connection that became idle last, or opens  *)
(* one, for a single statement, and gives it back; after an error it closes   *)
(* the connection, which ends the transaction that was open there.            *)

FreeNext(k) == IF idle # <<>> THEN k = Head(idle) ELSE ~pool[k].open

Take(k, who) ==
  /\ FreeNext(k)
  /\ idle' = IF idle # <<>> THEN Tail(idle) ELSE idle
  /\ pool' = [pool EXCEPT ![k].open = TRUE, ![k].runs = who]

GiveBack(k, connection) ==
  /\ pool' = [pool EXCEPT ![k] = [connection EXCEPT !.runs = NoValue]]
  /\ idle' = <<k>> \o idle

Close(k) == pool' = [pool EXCEPT ![k] = Closed] /\ UNCHANGED idle

\* better-auth signs people in and reads sessions over the same pool.
\* Between acceptances that only changes the order of the connections.
OtherTakes(k) ==
  /\ \E c \in Calls : InCall(c)
  /\ Take(k, Other)
  /\ disturbed' = TRUE
  /\ UNCHANGED <<registryVars, invitations, profiles, users, accounts, calls>>

OtherGivesBack(k) ==
  /\ pool[k].runs = Other /\ GiveBack(k, pool[k])
  /\ UNCHANGED <<registryVars, invitations, profiles, users, accounts, calls, disturbed>>

\* idleTimeoutMillis: what an open transaction on the connection had written is gone.
CloseIdle(k) ==
  /\ \E n \in DOMAIN idle :
       /\ idle[n] = k
       /\ idle' = SubSeq(idle, 1, n - 1) \o SubSeq(idle, n + 1, Len(idle))
  /\ pool' = [pool EXCEPT ![k] = Closed]
  /\ disturbed' = (disturbed \/ \E c \in Calls : InCall(c))
  /\ UNCHANGED <<registryVars, invitations, profiles, users, accounts, calls>>
------------------------------------------------------------------------------
(* acceptInvitation. The page is answered with ok or with an error; the       *)
(* person may try again, which is another call.                               *)

\* openInvitation and hashPassword, before the first statement.
StartAccept(c, i) ==
  /\ calls[c].step = "none" /\ Acceptable(i)
  /\ calls' = [calls EXCEPT ![c] = [@ EXCEPT !.step = "begin", !.invitation = i,
                                             !.address = invitations[i].address]]
  /\ disturbed' = (disturbed \/ \E d \in Calls : InCall(d)
                             \/ \E k \in Connections : pool[k].runs = Other)
  /\ UNCHANGED <<registryVars, invitations, profiles, authVars>>

Sends(c, k) ==
  /\ calls[c].step \in Statements /\ calls[c].connection = NoValue
  /\ Take(k, c)
  /\ calls' = [calls EXCEPT ![c].connection = k]
  /\ UNCHANGED <<registryVars, invitations, profiles, users, accounts, disturbed>>

Goes(c, step) == calls' = [calls EXCEPT ![c] =
  [@ EXCEPT !.step = step, !.connection = NoValue]]

\* The step after an error: BEGIN is outside the try, and so is everything that
\* ignores its own errors.
AfterError(step) == IF step \in {"user", "account", "commit"} THEN "rollback" ELSE "failed"

\* connectionTimeoutMillis: every connection is at work.
NoConnection(c) ==
  /\ calls[c].step \in Statements /\ calls[c].connection = NoValue
  /\ idle = <<>> /\ \A k \in Connections : pool[k].open
  /\ Goes(c, AfterError(calls[c].step))
  /\ UNCHANGED <<registryVars, invitations, profiles, authVars, disturbed>>

Runs(c, step) == calls[c].step = step /\ calls[c].connection # NoValue
Conn(c)       == pool[calls[c].connection]

Errs(c) ==
  /\ Close(calls[c].connection)
  /\ Goes(c, AfterError(calls[c].step))
  /\ UNCHANGED <<registryVars, invitations, profiles, users, accounts, disturbed>>

\* BEGIN inside a transaction only warns.
Begin(c) ==
  /\ Runs(c, "begin")
  /\ GiveBack(calls[c].connection, [Conn(c) EXCEPT !.transaction = TRUE])
  /\ Goes(c, "user")
  /\ UNCHANGED <<registryVars, invitations, profiles, users, accounts, disturbed>>

\* A statement outside a transaction takes effect at once, one inside when it commits.
Writes(c, connection, newUsers, newAccounts) ==
  LET k == calls[c].connection IN
  IF connection.transaction
    THEN GiveBack(k, connection) /\ UNCHANGED <<users, accounts>>
    ELSE GiveBack(k, pool[k]) /\ users' = newUsers /\ accounts' = newAccounts

SameAddress(c) == {d \in Calls \ {c} : calls[d].address = calls[c].address}
\* The other connections: a statement waits for the end of a transaction there that
\* has written the row it needs.
Elsewhere(c)   == Connections \ {calls[c].connection}

InsertUser(c) ==
  /\ Runs(c, "user")
  /\ \A k \in Elsewhere(c) : (pool[k].users \cup pool[k].removed) \cap SameAddress(c) = {}
  /\ IF ((users \ Conn(c).removed) \cup Conn(c).users) \cap SameAddress(c) # {}
       THEN Errs(c)
       ELSE /\ Writes(c, [Conn(c) EXCEPT !.users = @ \cup {c}], users \cup {c}, accounts)
            /\ Goes(c, "account")
            /\ UNCHANGED <<registryVars, invitations, profiles, disturbed>>

\* The foreign key wants a user row that is committed or the transaction's own.
InsertAccount(c) ==
  /\ Runs(c, "account")
  /\ IF c \notin users \cup Conn(c).users
       THEN Errs(c)
       ELSE /\ Writes(c, [Conn(c) EXCEPT !.accounts = @ \cup {c}], users, accounts \cup {c})
            /\ Goes(c, "commit")
            /\ UNCHANGED <<registryVars, invitations, profiles, disturbed>>

\* COMMIT outside a transaction only warns.
Commit(c) ==
  /\ Runs(c, "commit")
  /\ users' = (users \cup Conn(c).users) \ Conn(c).removed
  /\ accounts' = (accounts \cup Conn(c).accounts) \ Conn(c).removed
  /\ GiveBack(calls[c].connection, [Closed EXCEPT !.open = TRUE])
  /\ Goes(c, "profile")
  /\ UNCHANGED <<registryVars, invitations, profiles, disturbed>>

\* The ROLLBACK runs where the pool sends it, whatever transaction is open there.
Rollback(c) ==
  /\ Runs(c, "rollback")
  /\ GiveBack(calls[c].connection, [Closed EXCEPT !.open = TRUE])
  /\ Goes(c, "failed")
  /\ UNCHANGED <<registryVars, invitations, profiles, users, accounts, disturbed>>

\* What accept_invitation looks at first.
StillAcceptable(i) == Acceptable(i)

\* An archived custom role falls back to the base role.
KeptRole(i) ==
  LET r == invitations[i].custom IN IF r # NoValue /\ ~Live(r) THEN NoValue ELSE r

Accept(c) ==
  LET i == calls[c].invitation IN
  /\ calls[c].step = "profile"
  /\ \A k \in Connections : c \notin pool[k].removed
  /\ IF /\ StillAcceptable(i) /\ ~Registered(invitations[i].address)
        /\ c \in users
        /\ Matches(KeptRole(i), invitations[i].role)
       THEN /\ profiles' = [profiles EXCEPT ![c] = [address |-> invitations[i].address,
                 role |-> invitations[i].role, custom |-> KeptRole(i)]]
            /\ invitations' = [invitations EXCEPT ![i].accepted = TRUE]
            /\ Goes(c, "ok")
       ELSE Goes(c, "undo") /\ UNCHANGED <<profiles, invitations>>
  /\ UNCHANGED <<registryVars, authVars, disturbed>>

\* Mutant: the auth rows stay.
NothingTakenBack(c) == {}

\* The rows the DELETE of a failed acceptance removes; the account goes with its user.
TakenBack(c) == {c}

\* An account that is inserted and not committed keeps its user's row from going.
Undo(c) ==
  /\ Runs(c, "undo")
  /\ c \in users => \A k \in Elsewhere(c) : c \notin pool[k].accounts
  /\ Writes(c, [Conn(c) EXCEPT !.users = @ \ TakenBack(c), !.accounts = @ \ TakenBack(c),
                               !.removed = @ \cup (TakenBack(c) \cap users)],
            users \ TakenBack(c), accounts \ TakenBack(c))
  /\ Goes(c, "failed")
  /\ UNCHANGED <<registryVars, invitations, profiles, disturbed>>

\* The portal stops and starts again: calls end where they are, transactions are lost.
Restart ==
  /\ \E c \in Calls : InCall(c)
  /\ pool' = [k \in Connections |-> Closed] /\ idle' = <<>>
  /\ calls' = [c \in Calls |-> IF InCall(c) THEN [calls[c] EXCEPT !.step = "failed", !.connection = NoValue]
                               ELSE calls[c]]
  /\ disturbed' = TRUE
  /\ UNCHANGED <<registryVars, invitations, profiles, users, accounts>>
------------------------------------------------------------------------------
AccountsNext ==
  \/ \E r \in CustomRoles, base \in BaseRoles : CreateRole(r, base)
  \/ \E d \in Dialogs, r \in CustomRoles : OpenDialog(d, r)
  \/ \E d \in Dialogs : CloseDialog(d) \/ ArchiveRole(d)
  \/ \E d \in Dialogs, base \in BaseRoles : SaveRole(d, base)
  \/ \E c \in Calls, role \in BaseRoles, r \in CustomRoles \cup {NoValue} : AssignUser(c, role, r)
  \/ \E i \in Invitations, a \in Addresses, role \in BaseRoles, r \in CustomRoles \cup {NoValue} :
       CreateInvitation(i, a, role, r)
  \/ \E i \in Invitations : RevokeInvitation(i) \/ Expire(i)
  \/ \E k \in Connections : OtherTakes(k) \/ OtherGivesBack(k) \/ CloseIdle(k)
  \/ \E c \in Calls, i \in Invitations : StartAccept(c, i)
  \/ \E c \in Calls, k \in Connections : Sends(c, k)
  \/ \E c \in Calls : \/ NoConnection(c) \/ Begin(c) \/ InsertUser(c) \/ InsertAccount(c)
                      \/ Commit(c) \/ Rollback(c) \/ Accept(c) \/ Undo(c)
  \/ Restart

AccountsSpec == AccountsInit /\ [][AccountsNext]_accountsVars
------------------------------------------------------------------------------
\* A custom role never turns against who relies on it: the base role of a profile that
\* holds it is the profile's own (the row policies read one, the portal the other), and
\* it is not archived under an invitation that can still be accepted
\* (custom_role_matches, save_custom_role, archive_custom_role).
RolesAreWhole ==
  /\ \A c \in Calls : profiles[c] # NoValue => Matches(profiles[c].custom, profiles[c].role)
  /\ \A i \in Invitations :
       Acceptable(i) /\ invitations[i].custom # NoValue => Live(invitations[i].custom)

\* Acceptances that nothing disturbs end whole: a person who was told ok has a
\* committed user and credential, one who was refused has left neither behind
\* (the statements of acceptInvitation and the DELETE after a refusal).
WholeWhenAlone == ~disturbed => \A c \in Calls :
  /\ calls[c].step = "ok" => c \in accounts
  /\ calls[c].step = "failed" => c \notin users

\* Whoever was told that the account is ready can sign in: the credential is there
\* ("a half-made account never exists", acceptInvitation).
AcceptedCanSignIn == \A c \in Calls : calls[c].step = "ok" => c \in accounts
==============================================================================
