------------------------------- MODULE Accounts -------------------------------
(***************************************************************************)
(* Accounts of people, the identities of an issuer that lead to them, the  *)
(* workspace roles they have and the sessions they are given.  A request   *)
(* decides from what it reads and writes in one transaction, whose inserts *)
(* wait for those of others and fail where a unique value is taken.        *)
(*                                                                         *)
(* One issuer, one workspace and its owner, who grants roles.  A session   *)
(* is its signed identity, whatever the spelling of its token.             *)
(***************************************************************************)
EXTENDS Naturals, Sequences, FiniteSets

CONSTANTS
  Subjects,     \* people the issuer knows
  Emails,
  Clients,      \* concurrent requests
  MaxAccounts,  \* bound
  MaxSessions   \* bound

NoEmail == "no email"
Nobody == "nobody"

ASSUME AccountAssumptions ==
  NoEmail \notin Emails /\ Nobody \notin Subjects /\ MaxAccounts \in Nat /\ MaxSessions \in Nat

VARIABLES
  policy,      \* settings: open registration, linking by email
  accounts,    \* the users table, an account being its place in it
  identities,  \* federated_identities
  roles,       \* workspace_members: account -> rank, 0 for no member
  sessions,    \* tokens handed out
  revoked,     \* revoked_access_tokens
  client,      \* request -> what it read and is about to write
  loggedOut,   \* history: sessions whose logout was confirmed
  served       \* history: sessions served after that

acctvars == <<policy, accounts, identities, roles, sessions, revoked, client, loggedOut, served>>

Mail == Emails \cup {NoEmail}
Person == Subjects \cup {Nobody}
Id == 1 .. MaxAccounts
Account == [email : Mail, password : BOOLEAN]
Identity == [subject : Subjects, account : Id]
Session == [subject : Person, account : Id]
MemberRank == 2   \* the default role of a binding
OtherRank == 4
Rank == {0, MemberRank, OtherRank}

NoRequest == [doing |-> "nothing", subject |-> Nobody, email |-> NoEmail, account |-> 0,
         known |-> FALSE, member |-> TRUE, session |-> 0]

TypeOKAccounts ==
  /\ policy \in [open : BOOLEAN, linking : BOOLEAN]
  /\ accounts \in Seq(Account) /\ Len(accounts) <= MaxAccounts
  /\ identities \subseteq Identity
  /\ roles \in [Id -> Rank]
  /\ sessions \in Seq(Session)
  /\ revoked \subseteq 1 .. MaxSessions /\ loggedOut \subseteq 1 .. MaxSessions
  /\ served \subseteq 1 .. MaxSessions
  /\ client \in [Clients -> [doing : {"nothing", "register", "login", "logout", "revoking"},
                             subject : Person, email : Mail, account : 0 .. MaxAccounts,
                             known : BOOLEAN, member : BOOLEAN, session : 0 .. MaxSessions]]

AccountsInit ==
  /\ policy \in [open : BOOLEAN, linking : BOOLEAN]
  /\ accounts = <<>> /\ identities = {} /\ roles = [a \in Id |-> 0]
  /\ sessions = <<>> /\ revoked = {}
  /\ client = [c \in Clients |-> NoRequest]
  /\ loggedOut = {} /\ served = {}

-----------------------------------------------------------------------------
With(e) == {a \in DOMAIN accounts : accounts[a].email = e}
Of(s) == {i \in identities : i.subject = s}

Starts(c, request) == client[c] = NoRequest /\ client' = [client EXCEPT ![c] = request]
Ends(c) == client' = [client EXCEPT ![c] = NoRequest]

(* The unique constraints, at the flush.                                   *)
EmailFree(e) == e = NoEmail \/ With(e) = {}

IdentityFree_Unchecked(s) == TRUE

IdentityFree(s) == Of(s) = {}

NewAccount(e, password) ==
  /\ Len(accounts) < MaxAccounts /\ EmailFree(e)
  /\ accounts' = Append(accounts, [email |-> e, password |-> password])

HandOut(subject, a) ==
  /\ Len(sessions) < MaxSessions
  /\ sessions' = Append(sessions, [subject |-> subject, account |-> a])

(* Registration: open, or of the first user.                               *)
Register(c, e) ==
  /\ policy.open \/ accounts = <<>>
  /\ With(e) = {} /\ Starts(c, [NoRequest EXCEPT !.doing = "register", !.email = e])
  /\ UNCHANGED <<policy, accounts, identities, roles, sessions, revoked, loggedOut, served>>

RegisterUser(c) ==
  /\ client[c].doing = "register" /\ NewAccount(client[c].email, TRUE) /\ Ends(c)
  /\ UNCHANGED <<policy, identities, roles, sessions, revoked, loggedOut, served>>

LoginPassword(a) ==
  /\ a \in DOMAIN accounts /\ accounts[a].password /\ HandOut(Nobody, a)
  /\ UNCHANGED <<policy, accounts, identities, roles, revoked, client, loggedOut, served>>

(* login_oidc: the account of the identity, else the one of the address if *)
(* that may be linked, else a new one.                                     *)
Found(s, e, verified) ==
  IF Of(s) # {} THEN {i.account : i \in Of(s)}
  ELSE IF e = NoEmail \/ With(e) = {} THEN {0}
  ELSE IF verified /\ policy.linking THEN With(e) ELSE {}

ReadIdentity(c, s, e, verified) ==
  /\ \E a \in Found(s, e, verified), claimed \in BOOLEAN :   \* a tenant the binding maps here
       Starts(c, [NoRequest EXCEPT !.doing = "login", !.subject = s, !.account = a,
                              !.email = IF verified /\ a = 0 THEN e ELSE NoEmail,
                              !.known = Of(s) # {},
                              !.member = claimed => a # 0 /\ roles[a] # 0])
  /\ UNCHANGED <<policy, accounts, identities, roles, sessions, revoked, loggedOut, served>>

(* The account, its identity and its membership are one transaction; the   *)
(* role is that of the binding, also of a member made since the look.      *)
LoginOidc(c) ==
  LET now == client[c]
      a == IF now.account = 0 THEN Len(accounts) + 1 ELSE now.account IN
  /\ now.doing = "login"
  /\ IF now.account = 0 THEN NewAccount(now.email, FALSE) ELSE UNCHANGED accounts
  /\ IF now.known THEN UNCHANGED identities
     ELSE /\ IdentityFree(now.subject)
          /\ identities' = identities \cup {[subject |-> now.subject, account |-> a]}
  /\ roles' = IF now.member THEN roles ELSE [roles EXCEPT ![a] = MemberRank]
  /\ HandOut(now.subject, a) /\ Ends(c)
  /\ UNCHANGED <<policy, revoked, loggedOut, served>>

(* add_workspace_member: any other role than the default of a login.       *)
Grant(a) ==
  /\ a \in DOMAIN accounts /\ roles' = [roles EXCEPT ![a] = OtherRank]
  /\ UNCHANGED <<policy, accounts, identities, sessions, revoked, client, loggedOut, served>>

(* revoke_access_token: a look, an insert in a savepoint, the commit.  An  *)
(* insert waits for another one of the same session, and when that was     *)
(* committed the second look finds it.                                     *)
Logout(c, k) ==
  /\ k \in DOMAIN sessions /\ Starts(c, [NoRequest EXCEPT !.doing = "logout", !.session = k])
  /\ UNCHANGED <<policy, accounts, identities, roles, sessions, revoked, loggedOut, served>>

Revoking(k) == \E d \in Clients : client[d].doing = "revoking" /\ client[d].session = k

Confirms_WhenTried(k) == Revoking(k) \/ k \in revoked

Confirms(k) == k \in revoked

InsertRevocation(c) ==
  LET k == client[c].session IN
  /\ client[c].doing = "logout"
  /\ \/ /\ Confirms(k) /\ loggedOut' = loggedOut \cup {k} /\ Ends(c)
     \/ /\ ~Confirms(k) /\ ~Revoking(k) /\ UNCHANGED loggedOut
        /\ client' = [client EXCEPT ![c].doing = "revoking"]
  /\ UNCHANGED <<policy, accounts, identities, roles, sessions, revoked, served>>

CommitRevocation(c) ==
  /\ client[c].doing = "revoking"
  /\ revoked' = revoked \cup {client[c].session}
  /\ loggedOut' = loggedOut \cup {client[c].session} /\ Ends(c)
  /\ UNCHANGED <<policy, accounts, identities, roles, sessions, served>>

(* The boundary of every request: principal_from_bearer, then the role.    *)
Serve(k) ==
  /\ k \in DOMAIN sessions /\ k \notin revoked /\ roles[sessions[k].account] > 0
  /\ served' = served \cup ({k} \cap loggedOut)
  /\ UNCHANGED <<policy, accounts, identities, roles, sessions, revoked, client, loggedOut>>

(* A conflict, an error or a crash takes the whole transaction back.       *)
RollBack(c) ==
  /\ client[c] # NoRequest /\ Ends(c)
  /\ UNCHANGED <<policy, accounts, identities, roles, sessions, revoked, loggedOut, served>>

AccountsNext ==
  \/ \E c \in Clients :
       \/ \E e \in Emails : Register(c, e)
       \/ RegisterUser(c)
       \/ \E s \in Subjects, e \in Mail, verified \in BOOLEAN : ReadIdentity(c, s, e, verified)
       \/ LoginOidc(c)
       \/ \E k \in 1 .. MaxSessions : Logout(c, k)
       \/ InsertRevocation(c) \/ CommitRevocation(c) \/ RollBack(c)
  \/ \E a \in Id : LoginPassword(a)
  \/ \E a \in Id : Grant(a)
  \/ \E k \in 1 .. MaxSessions : Serve(k)

AccountsSpec == AccountsInit /\ [][AccountsNext]_acctvars

-----------------------------------------------------------------------------
(* However first logins, links and registrations race, a person of the     *)
(* issuer has one account and every session of that person is one of that  *)
(* account; no two accounts share an address, and none is left that nobody *)
(* can sign in to ("``sub`` is unique only within an issuer").             *)
OneAccountEach ==
  /\ \A i, j \in identities : i.subject = j.subject => i = j
  /\ \A k \in DOMAIN sessions :
       sessions[k].subject # Nobody =>
         [subject |-> sessions[k].subject, account |-> sessions[k].account] \in identities
  /\ \A a, b \in DOMAIN accounts :
       accounts[a].email = accounts[b].email /\ accounts[a].email # NoEmail => a = b
  /\ \A a \in DOMAIN accounts :
       accounts[a].password \/ \E i \in identities : i.account = a

(* A logout that was confirmed is recorded, also when several raced and    *)
(* some were rolled back, and its session is never served again.           *)
LogoutHolds == loggedOut \subseteq revoked /\ served = {}
=============================================================================
