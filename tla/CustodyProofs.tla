---------------------------- MODULE CustodyProofs ---------------------------
(***************************************************************************)
(* Proofs about who gets in and what they may do (Accounts, Access), the   *)
(* transfer of a project between two servers (ProjectTransfer), and the    *)
(* evaluations that are conducted by hand: the desktop pilot a custodian   *)
(* conducts (DesktopPilot) and the six stages of an arm (EvaluationRoles). *)
(* For any people, keys, files, processes, sessions and issues, and any    *)
(* number of overlapping requests.                                         *)
(***************************************************************************)
EXTENDS Accounts, Access, ProjectTransfer, DesktopPilot, EvaluationRoles, SequenceTheorems, TLAPS

-----------------------------------------------------------------------------
(* Accounts, identities and sessions: Accounts.                            *)

Link == [subject : Subjects, account : Nat \ {0}]
Handed == [subject : Person, account : Nat]
ClientCall == [doing : {"nothing", "register", "login", "logout", "revoking"},
         subject : Person, email : Mail, account : Nat,
         known : BOOLEAN, member : BOOLEAN, session : Nat]

AccountsShape ==
  /\ accounts \in Seq(Account) /\ sessions \in Seq(Handed)
  /\ identities \in SUBSET Link /\ client \in [Clients -> ClientCall]

(* A login that found an identity found one that stays.                    *)
LoginSound(now) ==
  now.doing = "login" =>
    /\ now.subject \in Subjects
    /\ now.known => [subject |-> now.subject, account |-> now.account] \in identities

IdentitiesSound == \A i, j \in identities : i.subject = j.subject => i = j
SessionsSound ==
  \A k \in DOMAIN sessions :
    sessions[k].subject # Nobody =>
      [subject |-> sessions[k].subject, account |-> sessions[k].account] \in identities
EmailsSound ==
  \A a, b \in DOMAIN accounts :
    accounts[a].email = accounts[b].email /\ accounts[a].email # NoEmail => a = b
Reachable(a) == accounts[a].password \/ \E i \in identities : i.account = a

AccountsSound ==
  /\ AccountsShape /\ IdentitiesSound /\ SessionsSound /\ EmailsSound
  /\ \A a \in DOMAIN accounts : Reachable(a)
  /\ \A c \in Clients : LoginSound(client[c])
  /\ LogoutHolds

LEMMA NoRequestSound == NoRequest \in ClientCall /\ NoRequest.doing = "nothing" /\ NoRequest.subject = Nobody
BY DEF NoRequest, ClientCall, Person, Mail

LEMMA AccountsInitSound == AccountsInit => AccountsSound
<1> SUFFICES ASSUME AccountsInit PROVE AccountsSound
  OBVIOUS
<1>1. AccountsShape
  BY NoRequestSound DEF AccountsInit, AccountsShape
<1>2. \A c \in Clients : LoginSound(client[c])
  BY NoRequestSound DEF AccountsInit, LoginSound
<1> QED BY <1>1, <1>2 DEF AccountsInit, AccountsSound, IdentitiesSound, SessionsSound, EmailsSound, LogoutHolds

(* A request begins or ends; no account, identity or session is made.      *)
LEMMA RequestMoves ==
  ASSUME AccountsSound, NEW c \in Clients, NEW now \in ClientCall,
         client' = [client EXCEPT ![c] = now], LoginSound(now),
         UNCHANGED <<accounts, identities, sessions>>, LogoutHolds'
  PROVE  AccountsSound'
<1>1. client'[c] = now /\ \A d \in Clients \ {c} : client'[d] = client[d]
  BY DEF AccountsSound, AccountsShape
<1>2. \A d \in Clients : LoginSound(client[d])'
  BY <1>1 DEF AccountsSound, LoginSound
<1>3. AccountsShape'
  BY DEF AccountsSound, AccountsShape
<1> QED BY <1>2, <1>3 DEF AccountsSound, IdentitiesSound, SessionsSound, EmailsSound, Reachable

(* A new account: its address was free, and everybody else keeps theirs.   *)
LEMMA AccountMade ==
  ASSUME AccountsSound, NEW e \in Mail, NEW password \in BOOLEAN, NewAccount(e, password)
  PROVE  /\ accounts' \in Seq(Account) /\ DOMAIN accounts' = DOMAIN accounts \cup {Len(accounts) + 1}
         /\ accounts'[Len(accounts) + 1].password = password
         /\ \A a \in DOMAIN accounts : accounts'[a] = accounts[a] /\ a # Len(accounts) + 1
         /\ EmailsSound'
<1> DEFINE new == [email |-> e, password |-> password]  n == Len(accounts) + 1
<1>1. accounts \in Seq(Account) /\ new \in Account /\ accounts' = Append(accounts, new)
  BY DEF AccountsSound, AccountsShape, NewAccount, Account
<1>2. new.email = e /\ new.password = password
  OBVIOUS
<1> HIDE DEF new
<1>3. /\ accounts' \in Seq(Account) /\ DOMAIN accounts' = DOMAIN accounts \cup {n}
      /\ accounts'[n] = new
      /\ \A a \in DOMAIN accounts : accounts'[a] = accounts[a] /\ a # n
  BY <1>1
<1>4. e = NoEmail \/ \A a \in DOMAIN accounts : accounts[a].email # e
  BY DEF NewAccount, EmailFree, With
<1>5. EmailsSound'
  BY <1>2, <1>3, <1>4 DEF EmailsSound, AccountsSound
<1> QED BY <1>2, <1>3, <1>5

(* A session handed out on an identity.                                    *)
LEMMA SessionMade ==
  ASSUME AccountsSound, NEW subject \in Person, NEW a \in Nat, HandOut(subject, a),
         identities \subseteq identities',
         subject # Nobody => [subject |-> subject, account |-> a] \in identities'
  PROVE  sessions' \in Seq(Handed) /\ SessionsSound'
<1> DEFINE new == [subject |-> subject, account |-> a]  n == Len(sessions) + 1
<1>1. sessions \in Seq(Handed) /\ new \in Handed /\ sessions' = Append(sessions, new)
  BY DEF AccountsSound, AccountsShape, HandOut, Handed
<1>2. new.subject = subject /\ new.account = a
  OBVIOUS
<1> HIDE DEF new
<1>3. /\ sessions' \in Seq(Handed) /\ DOMAIN sessions' = DOMAIN sessions \cup {n}
      /\ sessions'[n] = new
      /\ \A k \in DOMAIN sessions : sessions'[k] = sessions[k]
  BY <1>1
<1>4. SessionsSound'
  BY <1>2, <1>3 DEF SessionsSound, AccountsSound
<1> QED BY <1>3, <1>4

LEMMA EndsSound ==
  ASSUME AccountsSound, NEW c \in Clients, Ends(c), identities \subseteq identities'
  PROVE  client' \in [Clients -> ClientCall] /\ \A d \in Clients : LoginSound(client[d])'
<1>1. client'[c] = NoRequest /\ \A d \in Clients \ {c} : client'[d] = client[d]
  BY DEF AccountsSound, AccountsShape, Ends
<1>2. client' \in [Clients -> ClientCall]
  BY NoRequestSound DEF AccountsSound, AccountsShape, Ends
<1>3. \A d \in Clients : LoginSound(client[d])'
  BY <1>1, NoRequestSound DEF AccountsSound, LoginSound
<1> QED BY <1>2, <1>3

LEMMA RegisterStep ==
  ASSUME AccountsSound, NEW c \in Clients, RegisterUser(c)
  PROVE  AccountsSound'
<1>1. client[c].email \in Mail
  BY DEF AccountsSound, AccountsShape, ClientCall
<1>2. NewAccount(client[c].email, TRUE) /\ Ends(c) /\ UNCHANGED <<identities, sessions>> /\ LogoutHolds'
  BY DEF RegisterUser, AccountsSound, LogoutHolds
<1>3. /\ accounts' \in Seq(Account) /\ DOMAIN accounts' = DOMAIN accounts \cup {Len(accounts) + 1}
      /\ accounts'[Len(accounts) + 1].password
      /\ \A a \in DOMAIN accounts : accounts'[a] = accounts[a]
      /\ EmailsSound'
  BY <1>1, <1>2, AccountMade
<1>4. client' \in [Clients -> ClientCall] /\ \A d \in Clients : LoginSound(client[d])'
  BY <1>2, EndsSound
<1>5. \A a \in DOMAIN accounts' : Reachable(a)'
  BY <1>2, <1>3 DEF AccountsSound, Reachable
<1> QED BY <1>2, <1>3, <1>4, <1>5 DEF AccountsSound, AccountsShape, IdentitiesSound, SessionsSound

LEMMA PasswordStep ==
  ASSUME AccountsSound, NEW a \in Nat, LoginPassword(a)
  PROVE  AccountsSound'
<1>1. sessions' \in Seq(Handed) /\ SessionsSound'
  BY SessionMade DEF LoginPassword, Person
<1> QED BY <1>1 DEF LoginPassword, AccountsSound, AccountsShape, IdentitiesSound, EmailsSound, Reachable,
                    LoginSound, LogoutHolds

LEMMA OidcStep ==
  ASSUME AccountsSound, NEW c \in Clients, LoginOidc(c)
  PROVE  AccountsSound'
<1> DEFINE now == client[c]
           a == IF now.account = 0 THEN Len(accounts) + 1 ELSE now.account
           link == [subject |-> now.subject, account |-> a]
<1>1. /\ now \in ClientCall /\ now.subject \in Subjects /\ now.email \in Mail /\ now.account \in Nat
      /\ now.known => now.account # 0 /\ link \in identities
  <2>1. now \in ClientCall /\ now.subject \in Subjects /\ now.email \in Mail /\ now.account \in Nat
    BY DEF LoginOidc, AccountsSound, AccountsShape, LoginSound, ClientCall
  <2>2. ASSUME now.known PROVE now.account # 0 /\ link \in identities
    <3>1. [subject |-> now.subject, account |-> now.account] \in identities
      BY <2>2 DEF LoginOidc, AccountsSound, LoginSound
    <3>2. now.account # 0
      BY <3>1 DEF AccountsSound, AccountsShape, Link
    <3> QED BY <3>1, <3>2
  <2> QED BY <2>1, <2>2
<1>2. a \in Nat \ {0} /\ link \in Link /\ now.subject \in Person
  <2>1. Len(accounts) \in Nat
    BY DEF AccountsSound, AccountsShape
  <2>2. a \in Nat \ {0}
    BY <1>1, <2>1
  <2> HIDE DEF a
  <2> QED BY <1>1, <2>2 DEF Link, Person
<1>3. /\ HandOut(now.subject, a) /\ Ends(c) /\ LogoutHolds'
      /\ (now.account = 0 => NewAccount(now.email, FALSE))
      /\ (now.account # 0 => UNCHANGED accounts)
      /\ (now.known => UNCHANGED identities)
      /\ (~now.known => Of(now.subject) = {} /\ identities' = identities \cup {link})
  BY DEF LoginOidc, IdentityFree, AccountsSound, LogoutHolds
<1>4. link.subject = now.subject /\ link.account = a
  OBVIOUS
<1>5. now.account = 0 => a = Len(accounts) + 1
  OBVIOUS
<1> HIDE DEF a, link
<1>6. identities' = identities \cup {link} /\ identities \subseteq identities'
  BY <1>1, <1>3
<1>7. IdentitiesSound'
  <2>1. now.known \/ \A i \in identities : i.subject # now.subject
    BY <1>3 DEF Of
  <2> QED BY <1>1, <1>3, <1>4, <1>6, <2>1 DEF AccountsSound, IdentitiesSound
<1>8. sessions' \in Seq(Handed) /\ SessionsSound'
  <2>1. [subject |-> now.subject, account |-> a] \in identities'
    BY <1>6 DEF link
  <2> QED BY <1>2, <1>3, <1>6, <2>1, SessionMade
<1>9. client' \in [Clients -> ClientCall] /\ \A d \in Clients : LoginSound(client[d])'
  BY <1>3, <1>6, EndsSound
<1>10. accounts' \in Seq(Account) /\ EmailsSound' /\ \A b \in DOMAIN accounts' : Reachable(b)'
  <2>1. CASE now.account = 0
    <3>1. /\ accounts' \in Seq(Account) /\ DOMAIN accounts' = DOMAIN accounts \cup {Len(accounts) + 1}
          /\ \A b \in DOMAIN accounts : accounts'[b] = accounts[b]
          /\ EmailsSound'
      BY <1>1, <1>3, <2>1, AccountMade
    <3>2. \A b \in DOMAIN accounts' : Reachable(b)'
      BY <1>4, <1>5, <1>6, <2>1, <3>1 DEF AccountsSound, Reachable
    <3> QED BY <3>1, <3>2
  <2>2. CASE now.account # 0
    BY <1>3, <1>6, <2>2 DEF AccountsSound, AccountsShape, EmailsSound, Reachable
  <2> QED BY <2>1, <2>2
<1>11. identities' \in SUBSET Link
  BY <1>2, <1>6 DEF AccountsSound, AccountsShape
<1> QED BY <1>3, <1>7, <1>8, <1>9, <1>10, <1>11 DEF AccountsSound, AccountsShape

(* A login keeps what it found.                                            *)
LEMMA ReadStep ==
  ASSUME AccountsSound, NEW c \in Clients, NEW s \in Subjects, NEW e \in Mail, NEW verified \in BOOLEAN,
         ReadIdentity(c, s, e, verified)
  PROVE  AccountsSound'
<1>1. PICK a \in Found(s, e, verified), claimed \in BOOLEAN :
        Starts(c, [NoRequest EXCEPT !.doing = "login", !.subject = s, !.account = a,
                              !.email = IF verified /\ a = 0 THEN e ELSE NoEmail,
                              !.known = Of(s) # {},
                              !.member = claimed => a # 0 /\ roles[a] # 0])
  BY DEF ReadIdentity
<1> DEFINE email == IF verified /\ a = 0 THEN e ELSE NoEmail
           member == claimed => a # 0 /\ roles[a] # 0
           now == [NoRequest EXCEPT !.doing = "login", !.subject = s, !.account = a,
                                    !.email = email, !.known = Of(s) # {}, !.member = member]
<1>2. client' = [client EXCEPT ![c] = now]
  BY <1>1 DEF Starts
<1>3. a \in Nat /\ (Of(s) # {} => [subject |-> s, account |-> a] \in identities)
  <2>1. CASE Of(s) # {}
    <3>1. PICK i \in identities : i.subject = s /\ i.account = a
      BY <1>1, <2>1 DEF Found, Of
    <3>2. i = [subject |-> s, account |-> a] /\ a \in Nat
      BY <3>1 DEF AccountsSound, AccountsShape, Link
    <3> QED BY <3>1, <3>2
  <2>2. CASE Of(s) = {}
    <3>1. \A b \in DOMAIN accounts : b \in Nat
      BY DEF AccountsSound, AccountsShape
    <3> QED BY <1>1, <2>2, <3>1 DEF Found, With
  <2> QED BY <2>1, <2>2
<1>4. email \in Mail /\ member \in BOOLEAN
  BY DEF Mail
<1> HIDE DEF email, member
<1>5. /\ now \in ClientCall /\ now.doing = "login" /\ now.subject = s /\ now.account = a
      /\ now.known = (Of(s) # {})
  BY <1>3, <1>4, NoRequestSound DEF ClientCall, Person
<1> HIDE DEF now
<1>6. LoginSound(now)
  BY <1>3, <1>5 DEF LoginSound
<1>7. UNCHANGED <<accounts, identities, sessions>> /\ LogoutHolds'
  BY DEF ReadIdentity, AccountsSound, LogoutHolds
<1> QED BY <1>2, <1>5, <1>6, <1>7, RequestMoves

LEMMA QuietStep ==
  ASSUME AccountsSound, NEW c \in Clients,
         \/ \E e \in Emails : Register(c, e)
         \/ \E k \in 1 .. MaxSessions : Logout(c, k)
         \/ InsertRevocation(c) \/ CommitRevocation(c) \/ RollBack(c)
  PROVE  AccountsSound'
<1>1. UNCHANGED <<accounts, identities, sessions>>
  BY DEF Register, Logout, InsertRevocation, CommitRevocation, RollBack
<1>2. LogoutHolds'
  BY DEF Register, Logout, InsertRevocation, CommitRevocation, RollBack, Confirms, AccountsSound, LogoutHolds
<1>3. CASE \E e \in Emails : Register(c, e)
  <2>1. PICK e \in Emails : client' = [client EXCEPT ![c] = [NoRequest EXCEPT !.doing = "register", !.email = e]]
    BY <1>3 DEF Register, Starts
  <2> DEFINE now == [NoRequest EXCEPT !.doing = "register", !.email = e]
  <2>2. now \in ClientCall /\ now.doing = "register"
    BY NoRequestSound DEF ClientCall, Mail
  <2> HIDE DEF now
  <2>3. LoginSound(now)
    BY <2>2 DEF LoginSound
  <2> QED BY <1>1, <1>2, <2>1, <2>2, <2>3, RequestMoves DEF now
<1>4. CASE \E k \in 1 .. MaxSessions : Logout(c, k)
  <2>1. PICK k \in 1 .. MaxSessions : client' = [client EXCEPT ![c] = [NoRequest EXCEPT !.doing = "logout", !.session = k]]
    BY <1>4 DEF Logout, Starts
  <2> DEFINE now == [NoRequest EXCEPT !.doing = "logout", !.session = k]
  <2>2. now \in ClientCall /\ now.doing = "logout"
    <3>1. k \in Nat
      OBVIOUS
    <3> QED BY <3>1, NoRequestSound DEF ClientCall
  <2> HIDE DEF now
  <2>3. LoginSound(now)
    BY <2>2 DEF LoginSound
  <2> QED BY <1>1, <1>2, <2>1, <2>2, <2>3, RequestMoves DEF now
<1>5. CASE Ends(c)
  <2>1. LoginSound(NoRequest)
    BY NoRequestSound DEF LoginSound
  <2> QED BY <1>1, <1>2, <1>5, <2>1, NoRequestSound, RequestMoves DEF Ends
<1>6. CASE client[c].doing = "logout" /\ client' = [client EXCEPT ![c].doing = "revoking"]
  <2> DEFINE now == [client[c] EXCEPT !.doing = "revoking"]
  <2>1. client' = [client EXCEPT ![c] = now] /\ now \in ClientCall /\ now.doing = "revoking"
    BY <1>6 DEF AccountsSound, AccountsShape, ClientCall
  <2> HIDE DEF now
  <2>2. LoginSound(now)
    BY <2>1 DEF LoginSound
  <2> QED BY <1>1, <1>2, <2>1, <2>2, RequestMoves
<1> QED BY <1>3, <1>4, <1>5, <1>6 DEF InsertRevocation, CommitRevocation, RollBack

LEMMA AccountsNextSound ==
  ASSUME AccountsSound, [AccountsNext]_acctvars
  PROVE  AccountsSound'
<1>1. CASE UNCHANGED acctvars
  BY <1>1 DEF acctvars, AccountsSound, AccountsShape, IdentitiesSound, SessionsSound, EmailsSound, Reachable,
              LoginSound, LogoutHolds
<1>2. ASSUME NEW c \in Clients, RegisterUser(c) \/ LoginOidc(c) PROVE AccountsSound'
  BY <1>2, RegisterStep, OidcStep
<1>3. ASSUME NEW c \in Clients, NEW s \in Subjects, NEW e \in Mail, NEW verified \in BOOLEAN,
             ReadIdentity(c, s, e, verified)
      PROVE  AccountsSound'
  BY <1>3, ReadStep
<1>4. ASSUME NEW c \in Clients,
             \/ \E e \in Emails : Register(c, e)
             \/ \E k \in 1 .. MaxSessions : Logout(c, k)
             \/ InsertRevocation(c) \/ CommitRevocation(c) \/ RollBack(c)
      PROVE  AccountsSound'
  BY <1>4, QuietStep
<1>5. ASSUME NEW a \in Id, LoginPassword(a) PROVE AccountsSound'
  BY <1>5, PasswordStep, AccountAssumptions DEF Id
<1>6. ASSUME NEW a \in Id, Grant(a) PROVE AccountsSound'
  BY <1>6 DEF Grant, AccountsSound, AccountsShape, IdentitiesSound, SessionsSound, EmailsSound, Reachable,
              LoginSound, LogoutHolds
<1>7. ASSUME NEW k \in 1 .. MaxSessions, Serve(k) PROVE AccountsSound'
  <2>1. LogoutHolds'
    BY <1>7 DEF Serve, AccountsSound, LogoutHolds
  <2> QED BY <1>7, <2>1 DEF Serve, AccountsSound, AccountsShape, IdentitiesSound, SessionsSound, EmailsSound,
                            Reachable, LoginSound
<1> QED BY <1>1, <1>2, <1>3, <1>4, <1>5, <1>6, <1>7 DEF AccountsNext

-----------------------------------------------------------------------------
(* What the unique values protect, with what a login keeps between its     *)
(* look and its transaction (auth.py, login_oidc).                         *)
THEOREM AccountsHold == AccountsSpec => []AccountsSound
<1>1. AccountsSound /\ [AccountsNext]_acctvars => AccountsSound'
  BY AccountsNextSound
<1> QED BY <1>1, AccountsInitSound, PTL DEF AccountsSpec

(* A person of the issuer has one account, every session of that person is *)
(* one of that account, no two accounts share an address and none is out   *)
(* of reach, for any number of concurrent logins and registrations.        *)
THEOREM OneAccountEachHolds == AccountsSpec => []OneAccountEach
<1>1. AccountsSound => OneAccountEach
  BY DEF AccountsSound, IdentitiesSound, SessionsSound, EmailsSound, Reachable, OneAccountEach
<1> QED BY <1>1, AccountsHold, PTL

(* A session whose logout was confirmed is revoked for good and never      *)
(* served again (auth.py, revoke_access_token).                            *)
THEOREM LogoutHoldsAlways == AccountsSpec => []LogoutHolds
<1>1. AccountsSound => LogoutHolds
  BY DEF AccountsSound
<1> QED BY <1>1, AccountsHold, PTL

(* Bounds, which what the unique values protect does not rest on.          *)
CallBounded(now) ==
  /\ now.account \in 0 .. MaxAccounts /\ now.session \in 0 .. MaxSessions
  /\ now.doing \in {"logout", "revoking"} => now.session # 0

AccountsBounded ==
  /\ policy \in [open : BOOLEAN, linking : BOOLEAN]
  /\ Len(accounts) <= MaxAccounts /\ identities \in SUBSET Identity
  /\ roles \in [Id -> Rank] /\ sessions \in Seq(Session)
  /\ revoked \in SUBSET (1 .. MaxSessions) /\ loggedOut \in SUBSET (1 .. MaxSessions)
  /\ served \in SUBSET (1 .. MaxSessions)
  /\ \A c \in Clients : CallBounded(client[c])

LEMMA AccountsTypes == AccountsShape /\ AccountsBounded => TypeOKAccounts
<1> SUFFICES ASSUME AccountsShape, AccountsBounded PROVE TypeOKAccounts
  OBVIOUS
<1> DEFINE Asked == [doing : {"nothing", "register", "login", "logout", "revoking"},
                     subject : Person, email : Mail, account : 0 .. MaxAccounts,
                     known : BOOLEAN, member : BOOLEAN, session : 0 .. MaxSessions]
<1>1. client \in [Clients -> Asked]
  <2>1. \A c \in Clients : client[c] \in Asked
    BY DEF AccountsShape, AccountsBounded, CallBounded, ClientCall
  <2> HIDE DEF Asked
  <2> QED BY <2>1 DEF AccountsShape
<1> QED BY <1>1 DEF AccountsShape, AccountsBounded, TypeOKAccounts

LEMMA NobodyBounded == CallBounded(NoRequest)
BY AccountAssumptions DEF CallBounded, NoRequest

(* A call that is replaced by a bounded one leaves all of them bounded.    *)
LEMMA CallReplaced ==
  ASSUME AccountsShape, AccountsBounded, NEW c \in Clients, NEW now,
         client' = [client EXCEPT ![c] = now], CallBounded(now)
  PROVE  \A d \in Clients : CallBounded(client'[d])
BY DEF AccountsShape, AccountsBounded

LEMMA CallEnded ==
  ASSUME AccountsShape, AccountsBounded, NEW c \in Clients, Ends(c)
  PROVE  \A d \in Clients : CallBounded(client'[d])
BY CallReplaced, NobodyBounded DEF Ends

LEMMA AccountCounted ==
  ASSUME AccountsShape, NEW e, NEW password, NewAccount(e, password)
  PROVE  Len(accounts) + 1 \in Id /\ Len(accounts') <= MaxAccounts
<1>1. accounts \in Seq(Account) /\ Len(accounts) \in Nat
  BY DEF AccountsShape
<1>2. Len(accounts') = Len(accounts) + 1
  BY <1>1 DEF NewAccount
<1> QED BY <1>1, <1>2, AccountAssumptions DEF NewAccount, Id

LEMMA SessionTyped ==
  ASSUME sessions \in Seq(Session), NEW subject \in Person, NEW a \in Id, HandOut(subject, a)
  PROVE  sessions' \in Seq(Session)
<1>1. [subject |-> subject, account |-> a] \in Session
  BY DEF Session
<1> QED BY <1>1 DEF HandOut

LEMMA LoginBounded ==
  ASSUME AccountsSound, AccountsBounded, NEW c \in Clients, LoginOidc(c)
  PROVE  AccountsBounded'
<1> DEFINE now == client[c]
           a == IF now.account = 0 THEN Len(accounts) + 1 ELSE now.account
<1>1. now \in ClientCall /\ now.subject \in Subjects /\ now.account \in 0 .. MaxAccounts
  BY DEF LoginOidc, AccountsSound, AccountsShape, LoginSound, AccountsBounded, CallBounded
<1>2. a \in Id /\ Len(accounts') <= MaxAccounts
  <2>1. CASE now.account = 0
    BY <2>1, AccountCounted DEF LoginOidc, AccountsSound
  <2>2. CASE now.account # 0
    BY <1>1, <2>2, AccountAssumptions DEF LoginOidc, AccountsBounded, Id
  <2> QED BY <2>1, <2>2
<1>3. /\ identities' = identities \/ identities' = identities \cup {[subject |-> now.subject, account |-> a]}
      /\ roles' = roles \/ roles' = [roles EXCEPT ![a] = MemberRank]
      /\ HandOut(now.subject, a) /\ Ends(c) /\ UNCHANGED <<policy, revoked, loggedOut, served>>
  BY DEF LoginOidc
<1> HIDE DEF a, now
<1>4. [subject |-> now.subject, account |-> a] \in Identity
  BY <1>1, <1>2 DEF Identity
<1>5. identities' \in SUBSET Identity /\ roles' \in [Id -> Rank]
  BY <1>2, <1>3, <1>4 DEF AccountsBounded, Rank
<1>6. sessions' \in Seq(Session)
  BY <1>1, <1>2, <1>3, SessionTyped DEF AccountsBounded, Person
<1>7. \A d \in Clients : CallBounded(client[d])'
  BY <1>3, CallEnded DEF AccountsSound
<1> QED BY <1>2, <1>3, <1>5, <1>6, <1>7 DEF AccountsBounded

(* What a login found is an account of the table, or none.                 *)
LEMMA FoundBounded ==
  ASSUME AccountsShape, AccountsBounded, NEW s, NEW e, NEW verified, NEW a \in Found(s, e, verified)
  PROVE  a \in 0 .. MaxAccounts
<1>1. /\ accounts \in Seq(Account) /\ Len(accounts) \in Nat /\ DOMAIN accounts = 1 .. Len(accounts)
      /\ Len(accounts) <= MaxAccounts /\ identities \in SUBSET Identity
  BY DEF AccountsShape, AccountsBounded
<1>2. \A i \in Of(s) : i.account \in Id
  BY <1>1 DEF Of, Identity
<1>3. With(e) \subseteq 0 .. MaxAccounts
  BY <1>1, AccountAssumptions DEF With
<1> QED BY <1>2, <1>3, AccountAssumptions DEF Found, Id

LEMMA AccountsBoundedNext ==
  ASSUME AccountsSound, AccountsBounded, [AccountsNext]_acctvars
  PROVE  AccountsBounded'
<1>0. AccountsShape /\ MaxAccounts \in Nat /\ MaxSessions \in Nat
  BY AccountAssumptions DEF AccountsSound
<1>1. CASE UNCHANGED acctvars
  BY <1>1 DEF acctvars, AccountsBounded
<1>2. ASSUME NEW c \in Clients, NEW now, Starts(c, now), CallBounded(now),
             UNCHANGED <<policy, accounts, identities, roles, sessions, revoked, loggedOut, served>>
      PROVE  AccountsBounded'
  BY <1>0, <1>2, CallReplaced DEF Starts, AccountsBounded
<1>3. ASSUME NEW c \in Clients, NEW e \in Emails, Register(c, e) PROVE AccountsBounded'
  <2>1. CallBounded([NoRequest EXCEPT !.doing = "register", !.email = e])
    BY <1>0 DEF CallBounded, NoRequest
  <2> QED BY <1>2, <1>3, <2>1 DEF Register
<1>4. ASSUME NEW c \in Clients, RegisterUser(c) PROVE AccountsBounded'
  <2>1. Len(accounts') <= MaxAccounts
    BY <1>0, <1>4, AccountCounted DEF RegisterUser
  <2>2. \A d \in Clients : CallBounded(client[d])'
    BY <1>0, <1>4, CallEnded DEF RegisterUser
  <2> QED BY <1>4, <2>1, <2>2 DEF RegisterUser, AccountsBounded
<1>5. ASSUME NEW c \in Clients, NEW s \in Subjects, NEW e \in Mail, NEW verified \in BOOLEAN,
             ReadIdentity(c, s, e, verified)
      PROVE  AccountsBounded'
  <2>1. PICK a \in Found(s, e, verified), mail \in Mail, known \in BOOLEAN, member \in BOOLEAN :
          Starts(c, [NoRequest EXCEPT !.doing = "login", !.subject = s, !.account = a, !.email = mail,
                                      !.known = known, !.member = member])
    <3>1. PICK a \in Found(s, e, verified), claimed \in BOOLEAN :
            Starts(c, [NoRequest EXCEPT !.doing = "login", !.subject = s, !.account = a,
                                        !.email = IF verified /\ a = 0 THEN e ELSE NoEmail,
                                        !.known = Of(s) # {},
                                        !.member = claimed => a # 0 /\ roles[a] # 0])
      BY <1>5 DEF ReadIdentity
    <3>2. /\ (IF verified /\ a = 0 THEN e ELSE NoEmail) \in Mail /\ (Of(s) # {}) \in BOOLEAN
          /\ (claimed => a # 0 /\ roles[a] # 0) \in BOOLEAN
      BY DEF Mail
    <3> QED BY <3>1, <3>2
  <2>2. CallBounded([NoRequest EXCEPT !.doing = "login", !.subject = s, !.account = a, !.email = mail,
                                      !.known = known, !.member = member])
    BY <1>0, FoundBounded DEF CallBounded, NoRequest
  <2> QED BY <1>2, <1>5, <2>1, <2>2 DEF ReadIdentity
<1>6. ASSUME NEW c \in Clients, NEW k \in 1 .. MaxSessions, Logout(c, k) PROVE AccountsBounded'
  <2>1. CallBounded([NoRequest EXCEPT !.doing = "logout", !.session = k])
    BY <1>0 DEF CallBounded, NoRequest
  <2> QED BY <1>2, <1>6, <2>1 DEF Logout
<1>7. ASSUME NEW c \in Clients, InsertRevocation(c) PROVE AccountsBounded'
  <2>1. client[c].session \in 1 .. MaxSessions
    BY <1>0, <1>7 DEF InsertRevocation, AccountsBounded, CallBounded
  <2>2. CASE Ends(c) /\ loggedOut' = loggedOut \cup {client[c].session}
    <3>1. \A d \in Clients : CallBounded(client[d])'
      BY <1>0, <2>2, CallEnded
    <3> QED BY <1>7, <2>1, <2>2, <3>1 DEF InsertRevocation, AccountsBounded
  <2>3. CASE UNCHANGED loggedOut /\ client' = [client EXCEPT ![c].doing = "revoking"]
    <3>1. CallBounded([client[c] EXCEPT !.doing = "revoking"])
      BY <1>0, <2>1 DEF AccountsBounded, CallBounded, AccountsShape, ClientCall
    <3>2. \A d \in Clients : CallBounded(client[d])'
      BY <1>0, <2>3, <3>1, CallReplaced
    <3> QED BY <1>7, <2>3, <3>2 DEF InsertRevocation, AccountsBounded
  <2> QED BY <1>7, <2>2, <2>3 DEF InsertRevocation
<1>8. ASSUME NEW c \in Clients, CommitRevocation(c) PROVE AccountsBounded'
  <2>1. client[c].session \in 1 .. MaxSessions
    BY <1>0, <1>8 DEF CommitRevocation, AccountsBounded, CallBounded
  <2>2. \A d \in Clients : CallBounded(client[d])'
    BY <1>0, <1>8, CallEnded DEF CommitRevocation
  <2> QED BY <1>8, <2>1, <2>2 DEF CommitRevocation, AccountsBounded
<1>9. ASSUME NEW c \in Clients, RollBack(c) PROVE AccountsBounded'
  <2>1. \A d \in Clients : CallBounded(client[d])'
    BY <1>0, <1>9, CallEnded DEF RollBack
  <2> QED BY <1>9, <2>1 DEF RollBack, AccountsBounded
<1>10. ASSUME NEW a \in Id, LoginPassword(a) PROVE AccountsBounded'
  <2>1. sessions' \in Seq(Session)
    BY <1>10, SessionTyped DEF LoginPassword, AccountsBounded, Person
  <2> QED BY <1>10, <2>1 DEF LoginPassword, AccountsBounded
<1>11. ASSUME NEW a \in Id, Grant(a) PROVE AccountsBounded'
  BY <1>11 DEF Grant, AccountsBounded, Rank
<1>12. ASSUME NEW k \in 1 .. MaxSessions, Serve(k) PROVE AccountsBounded'
  BY <1>12 DEF Serve, AccountsBounded
<1> QED BY <1>1, <1>3, <1>4, <1>5, <1>6, <1>7, <1>8, <1>9, <1>10, <1>11, <1>12, LoginBounded
        DEF AccountsNext

LEMMA AccountTypesHold == AccountsSpec => []TypeOKAccounts
<1>1. AccountsInit => AccountsBounded
  <2>1. Len(<<>>) = 0 /\ <<>> \in Seq(Session)
    OBVIOUS
  <2> QED BY <2>1, NobodyBounded, AccountAssumptions DEF AccountsInit, AccountsBounded, Rank
<1>2. AccountsSound /\ AccountsBounded /\ [AccountsNext]_acctvars => AccountsBounded'
  BY AccountsBoundedNext
<1>3. AccountsSound /\ AccountsBounded => TypeOKAccounts
  BY AccountsTypes DEF AccountsSound
<1> QED BY <1>1, <1>2, <1>3, AccountsHold, PTL DEF AccountsSpec

-----------------------------------------------------------------------------
(* Roles and keys: Access.                                                 *)

Granting == [do : {"grant"}, to : People, rank : Grantable]
Admitting == [do : {"admit"}, to : People, belongs : BOOLEAN]
Minting == [do : {"mint"}, to : People, scope : 1 .. 3]
Withdrawing == [do : {"revoke"}, key : 1 .. MaxKeys]

AtBoundary == [at : {"boundary"}, op : Ops, by : People, key : 1 .. MaxKeys, scope : 1 .. 3]
AtHandler == [at : {"handler"}, op : Ops, by : People, scope : 1 .. 3, bot : BOOLEAN]
AtCommit == [at : {"commit"}, effect : AccessEffect]

(* What a request still stands on when it commits: nobody leaves the       *)
(* workspace, nor the people who have been its owners; and no key goes.    *)
Stands(now) ==
  /\ now.at = "boundary" => now.key \in DOMAIN keys
  /\ now.at = "handler" => now.op \notin {"view", "edit"}
  /\ now.at = "commit" =>
       /\ now.effect.do = "admit" /\ now.effect.belongs => wrole[now.effect.to] > 0
       /\ now.effect.do = "mint" /\ now.effect.scope = AdminScope => now.effect.to \in owners
       /\ now.effect.do = "revoke" => now.effect.key \in DOMAIN keys

AccessSound ==
  /\ TypeOKAccess
  /\ \A p \in People : wrole[p] = Owner => p \in owners
  /\ \A c \in ApiCallers : Stands(request[c])
  /\ KeysHold

-----------------------------------------------------------------------------
LEMMA AccessRequests ==
  /\ AccessRequest = {NotHere} \cup AtBoundary \cup AtHandler \cup AtCommit
  /\ AccessEffect = Granting \cup Admitting \cup Minting \cup Withdrawing
  /\ NotHere \in AccessRequest /\ NotHere.at = "idle"
  /\ \A now \in AccessRequest : /\ now.at = "boundary" => now \in AtBoundary
                                /\ now.at = "handler" => now \in AtHandler
                                /\ now.at = "commit" => now \in AtCommit
  /\ \A effect \in AccessEffect : /\ effect.do = "grant" => effect \in Granting
                                  /\ effect.do = "admit" => effect \in Admitting
                                  /\ effect.do = "mint" => effect \in Minting
                                  /\ effect.do = "revoke" => effect \in Withdrawing
BY DEF AccessRequest, NotHere, AtBoundary, AtHandler, AtCommit, AccessEffect, Granting,
       Admitting, Minting, Withdrawing

LEMMA AccessInitSound == AccessInit => AccessSound
<1> SUFFICES ASSUME AccessInit PROVE AccessSound
  OBVIOUS
<1>1. /\ wrole \in [People -> 0 .. 4] /\ prole = wrole /\ owners = {Creator}
      /\ \A p \in People : wrole[p] = Owner => p \in owners
  BY DEF AccessInit, Owner
<1>2. keys \in Seq(Key) /\ Len(keys) = 0 /\ DOMAIN keys = {}
  BY DEF AccessInit
<1>3. \A c \in ApiCallers : request[c] = NotHere
  BY DEF AccessInit
<1>4. TypeOKAccess
  BY <1>1, <1>2, AccessRequests, AccessAssumptions DEF AccessInit, TypeOKAccess
<1>5. KeysHold
  BY <1>1, <1>2 DEF AccessInit, KeysHold
<1> QED BY <1>1, <1>3, <1>4, <1>5, AccessRequests DEF AccessSound, Stands

(* A request moves on; the tables are as they were.                        *)
LEMMA AccessMoves ==
  ASSUME AccessSound, NEW c \in ApiCallers, NEW next \in AccessRequest, Moves(c, next),
         Stands(next), UNCHANGED <<wrole, prole, keys, owners, withdrawn, late>>
  PROVE  AccessSound'
<1>1. /\ request' \in [ApiCallers -> AccessRequest] /\ request'[c] = next
      /\ \A d \in ApiCallers \ {c} : request'[d] = request[d]
  BY DEF Moves, AccessSound, TypeOKAccess
<1>2. TypeOKAccess'
  BY <1>1 DEF AccessSound, TypeOKAccess
<1>3. \A d \in ApiCallers : Stands(request[d])'
  BY <1>1 DEF AccessSound, Stands
<1> QED BY <1>2, <1>3 DEF AccessSound, KeysHold

LEMMA BoundarySound ==
  ASSUME AccessSound, NEW c \in ApiCallers,
         \/ \E p \in People, op \in Ops : BoundarySession(c, p, op)
         \/ \E k \in 1 .. MaxKeys, op \in Ops : BoundaryKey(c, k, op)
         \/ CommitUse(c) \/ Fail(c)
  PROVE  AccessSound'
<1>1. ASSUME NEW op \in Ops, NEW p \in People, NEW scope \in 1 .. 3, NEW bot \in BOOLEAN
      PROVE  /\ Handler(op, p, scope, bot) \in AccessRequest
             /\ Stands(Handler(op, p, scope, bot))
  <2>1. [at |-> "handler", op |-> op, by |-> p, scope |-> scope, bot |-> bot] \in AtHandler
    BY DEF AtHandler
  <2>2. Handler(op, p, scope, bot) \in AccessRequest
    BY <2>1, AccessRequests DEF Handler
  <2>3. /\ Handler(op, p, scope, bot).at \in {"idle", "handler"}
        /\ Handler(op, p, scope, bot).at = "handler" =>
             Handler(op, p, scope, bot).op \notin {"view", "edit"}
    BY AccessRequests DEF Handler
  <2> QED BY <2>2, <2>3 DEF Stands
<1>2. ASSUME NEW p \in People, NEW op \in Ops, BoundarySession(c, p, op)
      PROVE  AccessSound'
  <2>1. AdminScope \in 1 .. 3 /\ FALSE \in BOOLEAN
    BY DEF AdminScope
  <2> QED BY <1>1, <1>2, <2>1, AccessMoves DEF BoundarySession
<1>3. ASSUME NEW k \in 1 .. MaxKeys, NEW op \in Ops, BoundaryKey(c, k, op)
      PROVE  AccessSound'
  <2> DEFINE next == [at |-> "boundary", op |-> op, by |-> keys[k].user, key |-> k,
                      scope |-> keys[k].scope]
  <2>1. k \in DOMAIN keys /\ ~keys[k].revoked /\ Moves(c, next)
        /\ UNCHANGED <<wrole, prole, keys, owners, withdrawn>>
    BY <1>3 DEF BoundaryKey
  <2>2. keys[k] \in Key
    BY <2>1 DEF AccessSound, TypeOKAccess
  <2>3. next \in AtBoundary
    BY <2>2 DEF AtBoundary, Key
  <2>4. PICK now \in AccessRequest : now = next
    BY <2>3, AccessRequests
  <2>5. now.at = "boundary" /\ now.key = k
    BY <2>4
  <2> HIDE DEF next
  <2>6. Stands(now)
    BY <2>1, <2>5 DEF Stands
  <2>7. late' = late
    BY <1>3, <2>1 DEF BoundaryKey, AccessSound, KeysHold
  <2> QED BY <2>1, <2>4, <2>6, <2>7, AccessMoves
<1>4. ASSUME CommitUse(c) PROVE AccessSound'
  <2> DEFINE now == request[c]
  <2>1. now \in AtBoundary /\ now.key \in DOMAIN keys
    BY <1>4, AccessRequests DEF CommitUse, AccessSound, TypeOKAccess, Stands
  <2>2. now.op \in Ops /\ now.by \in People /\ now.scope \in 1 .. 3 /\ TRUE \in BOOLEAN
    BY <2>1 DEF AtBoundary
  <2>3. /\ keys' = [keys EXCEPT ![now.key] = keys[now.key]]
        /\ Moves(c, Handler(now.op, now.by, now.scope, TRUE))
        /\ UNCHANGED <<wrole, prole, owners, withdrawn, late>>
    BY <1>4 DEF CommitUse, Used
  <2> HIDE DEF now
  <2>4. keys' = keys
    BY <2>1, <2>3 DEF AccessSound, TypeOKAccess
  <2> QED BY <1>1, <2>2, <2>3, <2>4, AccessMoves
<1>5. ASSUME Fail(c) PROVE AccessSound'
  <2>1. Stands(NotHere)
    BY AccessRequests DEF Stands
  <2> QED BY <1>5, <2>1, AccessRequests, AccessMoves DEF Fail
<1> QED BY <1>2, <1>3, <1>4, <1>5

(* The handler decides from the rows it reads now.                         *)
LEMMA HandlerSound ==
  ASSUME AccessSound, NEW c \in ApiCallers, HandlerDecides(c)
  PROVE  AccessSound'
<1> DEFINE now == request[c]
<1>1. now \in AtHandler
  BY AccessRequests DEF HandlerDecides, AccessSound, TypeOKAccess
<1>2. PICK effect \in Effects(now) : Moves(c, [at |-> "commit", effect |-> effect])
  BY DEF HandlerDecides
<1>3. now.by \in People /\ now.op \in {"grant", "admit", "mint", "revoke"}
  <2>1. Ops = {"view", "edit", "admit", "grant", "mint", "revoke"}
    BY DEF Ops, Need
  <2>2. now.op \notin {"view", "edit"}
    BY <1>1 DEF AccessSound, Stands, AtHandler
  <2> QED BY <1>1, <2>1, <2>2 DEF AtHandler
<1>4. /\ effect \in AccessEffect
      /\ effect.do = "admit" /\ effect.belongs => wrole[effect.to] > 0
      /\ effect.do = "mint" /\ effect.scope = AdminScope => effect.to \in owners
      /\ effect.do = "revoke" => effect.key \in DOMAIN keys
  <2> HIDE DEF now
  <2>1. CASE now.op = "grant"
    <3>1. effect \in Granting
      BY <1>2, <2>1 DEF Effects, Granting
    <3> QED BY <3>1, AccessRequests DEF Granting
  <2>2. CASE now.op = "admit"
    <3>1. PICK p \in People : effect = [do |-> "admit", to |-> p, belongs |-> wrole[p] > 0]
      BY <1>2, <2>2 DEF Effects
    <3>2. effect.do = "admit" /\ effect.to = p /\ effect.belongs = (wrole[p] > 0)
      BY <3>1
    <3>3. (wrole[p] > 0) \in BOOLEAN
      OBVIOUS
    <3>4. effect \in Admitting
      <4> DEFINE member == wrole[p] > 0
      <4> HIDE DEF member
      <4>1. [do |-> "admit", to |-> p, belongs |-> member] \in Admitting
        BY <3>3 DEF member, Admitting
      <4> QED BY <3>1, <4>1 DEF member
    <3> QED BY <3>2, <3>4, AccessRequests
  <2>3. CASE now.op = "mint"
    <3>1. PICK s \in 1 .. 3 : /\ effect = [do |-> "mint", to |-> now.by, scope |-> s]
                              /\ MayMint(now, s)
      BY <1>2, <2>3 DEF Effects
    <3>2. effect \in Minting /\ effect.do = "mint" /\ effect.to = now.by /\ effect.scope = s
      BY <1>3, <3>1 DEF Minting
    <3>3. s = AdminScope => wrole[now.by] = Owner
      <4>1. wrole[now.by] \in 0 .. 4
        BY <1>3 DEF AccessSound, TypeOKAccess
      <4> QED BY <3>1, <4>1 DEF MayMint, Owner
    <3> QED BY <1>3, <3>2, <3>3, AccessRequests DEF AccessSound
  <2>4. CASE now.op = "revoke"
    <3>1. PICK k \in DOMAIN keys : effect = [do |-> "revoke", key |-> k]
      BY <1>2, <2>4 DEF Effects
    <3>2. k \in 1 .. MaxKeys
      BY AccessAssumptions, LenProperties DEF AccessSound, TypeOKAccess
    <3>3. effect \in Withdrawing /\ effect.do = "revoke" /\ effect.key = k
      BY <3>1, <3>2 DEF Withdrawing
    <3> QED BY <3>3, AccessRequests
  <2> QED BY <1>3, <2>1, <2>2, <2>3, <2>4
<1> DEFINE next == [at |-> "commit", effect |-> effect]
<1>5. next \in AtCommit /\ next.at = "commit" /\ next.effect = effect
  BY <1>4 DEF AtCommit
<1>6. PICK going \in AccessRequest : going = next
  BY <1>5, AccessRequests
<1> HIDE DEF next
<1>7. Stands(going)
  BY <1>4, <1>5, <1>6 DEF Stands
<1>8. Moves(c, going)
  BY <1>2, <1>6 DEF next
<1> QED BY <1>6, <1>7, <1>8, AccessMoves DEF HandlerDecides

(* Whatever is committed, everybody keeps what they stand on.              *)
LEMMA StandsStill ==
  ASSUME AccessSound, NEW c \in ApiCallers, Moves(c, NotHere),
         wrole' \in [People -> 0 .. 4],
         \A p \in People : wrole[p] > 0 => wrole'[p] > 0,
         owners \subseteq owners', DOMAIN keys \subseteq DOMAIN keys'
  PROVE  /\ request' \in [ApiCallers -> AccessRequest]
         /\ \A d \in ApiCallers : Stands(request[d])'
<1>1. /\ request' \in [ApiCallers -> AccessRequest] /\ request'[c] = NotHere
      /\ \A d \in ApiCallers \ {c} : request'[d] = request[d]
  BY AccessRequests DEF Moves, AccessSound, TypeOKAccess
<1>2. \A d \in ApiCallers : Stands(request[d])'
  <2> TAKE d \in ApiCallers
  <2>1. CASE d = c
    BY <1>1, <2>1, AccessRequests DEF Stands
  <2>2. CASE d # c
    <3>1. request'[d] = request[d] /\ Stands(request[d]) /\ request[d] \in AccessRequest
      BY <1>1, <2>2 DEF AccessSound, TypeOKAccess
    <3>2. request[d].at = "commit" => request[d].effect \in AccessEffect
      BY <3>1, AccessRequests DEF AtCommit
    <3>3. request[d].at = "commit" /\ request[d].effect.do = "admit" =>
            request[d].effect.to \in People
      BY <3>2, AccessRequests DEF Admitting
    <3> QED BY <3>1, <3>3 DEF Stands
  <2> QED BY <2>1, <2>2
<1> QED BY <1>1, <1>2

LEMMA CommitAccessSound ==
  ASSUME AccessSound, NEW c \in ApiCallers, Commit(c)
  PROVE  AccessSound'
<1> DEFINE effect == request[c].effect
<1>1. /\ effect \in AccessEffect /\ Moves(c, NotHere) /\ UNCHANGED late
      /\ GiveRole(effect) \/ JoinProject(effect) \/ CreateKey(effect) \/ RevokeKey(effect)
      /\ Stands(request[c]) /\ request[c].at = "commit"
  BY AccessRequests DEF Commit, AtCommit, AccessSound, TypeOKAccess
<1>2. /\ effect.do = "admit" /\ effect.belongs => wrole[effect.to] > 0
      /\ effect.do = "mint" /\ effect.scope = AdminScope => effect.to \in owners
      /\ effect.do = "revoke" => effect.key \in DOMAIN keys
  BY <1>1 DEF Stands
<1>3. /\ wrole \in [People -> 0 .. 4] /\ prole \in [People -> 0 .. 4]
      /\ keys \in Seq(Key) /\ Len(keys) <= MaxKeys /\ owners \subseteq People
      /\ withdrawn \subseteq DOMAIN keys /\ late = {} /\ late \subseteq DOMAIN keys
      /\ \A k \in withdrawn : keys[k].revoked
      /\ \A k \in DOMAIN keys : keys[k].scope = AdminScope => keys[k].user \in owners
      /\ \A p \in People : prole[p] > 0 => wrole[p] > 0
      /\ \A p \in People : wrole[p] = Owner => p \in owners
  BY DEF AccessSound, TypeOKAccess, KeysHold
<1> SUFFICES
      /\ wrole' \in [People -> 0 .. 4] /\ prole' \in [People -> 0 .. 4]
      /\ keys' \in Seq(Key) /\ Len(keys') <= MaxKeys /\ owners' \subseteq People
      /\ withdrawn' \subseteq DOMAIN keys' /\ DOMAIN keys \subseteq DOMAIN keys'
      /\ owners \subseteq owners'
      /\ \A p \in People : wrole[p] > 0 => wrole'[p] > 0
      /\ \A k \in withdrawn' : keys'[k].revoked
      /\ \A k \in DOMAIN keys' : keys'[k].scope = AdminScope => keys'[k].user \in owners'
      /\ \A p \in People : prole'[p] > 0 => wrole'[p] > 0
      /\ \A p \in People : wrole'[p] = Owner => p \in owners'
  BY <1>1, <1>3, StandsStill DEF AccessSound, TypeOKAccess, KeysHold
<1> HIDE DEF effect
<1>4. CASE GiveRole(effect)
  <2>1. effect \in Granting
    BY <1>1, <1>4, AccessRequests DEF GiveRole
  <2>2. effect.to \in People /\ effect.rank \in 1 .. 4
    BY <2>1, AccessAssumptions DEF Granting
  <2>3. /\ wrole' = [wrole EXCEPT ![effect.to] = effect.rank]
        /\ owners' = owners \cup {p \in {effect.to} : effect.rank = Owner}
        /\ UNCHANGED <<prole, keys, withdrawn>>
    BY <1>4 DEF GiveRole
  <2>4. \A p \in People : wrole'[p] = IF p = effect.to THEN effect.rank ELSE wrole[p]
    BY <1>3, <2>2, <2>3
  <2>5. wrole' \in [People -> 0 .. 4]
    BY <1>3, <2>2, <2>3
  <2> QED BY <1>3, <2>2, <2>3, <2>4, <2>5
<1>5. CASE JoinProject(effect)
  <2>1. effect \in Admitting
    BY <1>1, <1>5, AccessRequests DEF JoinProject
  <2>2. effect.to \in People /\ effect.do = "admit" /\ effect.belongs \in BOOLEAN
    BY <2>1 DEF Admitting
  <2>3. /\ wrole' = IF effect.belongs THEN wrole ELSE [wrole EXCEPT ![effect.to] = Member]
        /\ prole' = [prole EXCEPT ![effect.to] = Coauthor]
        /\ UNCHANGED <<keys, owners, withdrawn>>
    BY <1>5 DEF JoinProject
  <2>4. /\ wrole' \in [People -> 0 .. 4] /\ wrole'[effect.to] > 0
        /\ \A p \in People \ {effect.to} : wrole'[p] = wrole[p]
        /\ wrole'[effect.to] = Owner => effect.to \in owners
    <3>1. CASE effect.belongs
      BY <1>2, <1>3, <2>2, <2>3, <3>1
    <3>2. CASE ~effect.belongs
      BY <1>3, <2>2, <2>3, <3>2 DEF Member, Owner
    <3> QED BY <2>2, <3>1, <3>2
  <2>5. /\ prole' \in [People -> 0 .. 4]
        /\ \A p \in People \ {effect.to} : prole'[p] = prole[p]
    BY <1>3, <2>2, <2>3 DEF Coauthor
  <2> QED BY <1>3, <2>2, <2>3, <2>4, <2>5
<1>6. CASE CreateKey(effect)
  <2>1. effect \in Minting
    BY <1>1, <1>6, AccessRequests DEF CreateKey
  <2> DEFINE key == [user |-> effect.to, scope |-> effect.scope, revoked |-> FALSE]
  <2>2. /\ keys' = Append(keys, key) /\ Len(keys) < MaxKeys /\ effect.do = "mint"
        /\ UNCHANGED <<wrole, prole, owners, withdrawn>>
    BY <1>6 DEF CreateKey
  <2>3. /\ key \in Key /\ key.scope = effect.scope /\ key.user = effect.to
        /\ key.scope = AdminScope => key.user \in owners
    BY <1>2, <2>1, <2>2 DEF Minting, Key
  <2> HIDE DEF key
  <2>4. /\ keys' \in Seq(Key) /\ Len(keys') = Len(keys) + 1 /\ Len(keys) \in Nat
        /\ DOMAIN keys' = DOMAIN keys \cup {Len(keys) + 1}
        /\ keys'[Len(keys) + 1] = key
        /\ \A k \in DOMAIN keys : keys'[k] = keys[k]
    BY <1>3, <2>2, <2>3, AppendProperties
  <2> QED BY <1>3, <2>2, <2>3, <2>4, AccessAssumptions
<1>7. CASE RevokeKey(effect)
  <2> DEFINE k == effect.key
  <2>1. /\ keys' = [keys EXCEPT ![k].revoked = TRUE] /\ withdrawn' = withdrawn \cup {k}
        /\ k \in DOMAIN keys /\ UNCHANGED <<wrole, prole, owners>>
    BY <1>2, <1>7 DEF RevokeKey
  <2>2. keys[k] \in Key
    BY <1>3, <2>1
  <2> DEFINE key == [keys[k] EXCEPT !.revoked = TRUE]
  <2>3. key \in Key /\ key.revoked /\ key.user = keys[k].user /\ key.scope = keys[k].scope
    BY <2>2 DEF Key
  <2>4. keys' = [keys EXCEPT ![k] = key]
    BY <2>1
  <2> HIDE DEF key, k
  <2>5. /\ keys' \in Seq(Key) /\ Len(keys') = Len(keys) /\ DOMAIN keys' = DOMAIN keys
        /\ keys'[k] = key /\ \A i \in DOMAIN keys \ {k} : keys'[i] = keys[i]
    <3>1. k \in 1 .. Len(keys) /\ DOMAIN keys = 1 .. Len(keys)
      BY <1>3, <2>1
    <3>2. /\ [keys EXCEPT ![k] = key] \in Seq(Key)
          /\ Len([keys EXCEPT ![k] = key]) = Len(keys)
          /\ \A i \in 1 .. Len(keys) :
               [keys EXCEPT ![k] = key][i] = IF i = k THEN key ELSE keys[i]
      BY <1>3, <2>3, <3>1, ExceptSeq
    <3> QED BY <2>4, <3>1, <3>2
  <2> QED BY <1>3, <2>1, <2>3, <2>5
<1> QED BY <1>1, <1>4, <1>5, <1>6, <1>7

LEMMA AccessNextSound == AccessSound /\ [AccessNext]_accessvars => AccessSound'
<1> SUFFICES ASSUME AccessSound, [AccessNext]_accessvars PROVE AccessSound'
  OBVIOUS
<1>1. CASE UNCHANGED accessvars
  BY <1>1 DEF accessvars, AccessSound, TypeOKAccess, Stands, KeysHold
<1> QED BY <1>1, BoundarySound, HandlerSound, CommitAccessSound DEF AccessNext

(* A key whose revocation was confirmed stays revoked and is not let in    *)
(* again, an admin key is an owner's, and whoever is in the project is in  *)
(* its workspace, whatever requests overlap (auth.py, api_credentials).    *)
THEOREM KeysHoldAlways == AccessSpec => []KeysHold
<1>1. AccessSound => KeysHold
  BY DEF AccessSound
<1> QED BY <1>1, AccessInitSound, AccessNextSound, PTL DEF AccessSpec

-----------------------------------------------------------------------------
(* The transfer of a project: ProjectTransfer.                             *)

ExportJob == [at : {"rest", "works", "links", "files", "zip", "closed", "done"}, bundle : Bundle]
ImportJob == [at : {"rest", "files", "flushed", "done"}, bundle : Bundle, due : SUBSET Files,
              writes : Files \cup {NoFile}]
Scratch == [open : SUBSET Exporters, holds : Bundle]

(* A bundle that verifies has every file with a checksum, as it was; no    *)
(* file that no row refers to; and unless it was torn every link in it     *)
(* refers to a work in it.                                                 *)
AsRead(bundle) ==
  /\ bundle.whole => \A f \in Referenced(bundle.works) \ BareFiles : bundle.files[f] = "whole"
  /\ \A f \in Files : bundle.files[f] # "absent" => f \in Referenced(bundle.works)
  /\ bundle.torn \/ \A w \in Works : bundle.links[w] # "none" => bundle.works[w] # NoFile

(* A file of the bundle that is no longer to put is on the shelf, unless   *)
(* another import has written over it.                                     *)
Shelved(bundle, due) ==
  \A f \in Files \ due :
    bundle.files[f] # "absent" => shelf[f] = bundle.files[f] \/ f \in replaced

BundlesSound ==
  /\ \A w \in Works : links[w] # "none" => works[w] # NoFile
  /\ AsRead(scratch.holds) /\ \A bundle \in bundles : AsRead(bundle)
  /\ \A e \in Exporters : AsRead(exporter[e].bundle)

(* What imports have put is what a bundle has; one wrote over another's    *)
(* file only if their bundles differ on it, and no checksum names it.      *)
Twofold(f) ==
  \E one, two \in bundles :
    one.files[f] # two.files[f] /\ "absent" \notin {one.files[f], two.files[f]}

ShelfSound ==
  \A f \in Files :
    /\ shelf[f] \notin {"absent", "other"} =>
         \E bundle \in bundles : bundle.whole /\ bundle.files[f] = shelf[f]
    /\ f \in replaced => f \in BareFiles /\ Twofold(f)

(* An import writes a file it saw absent, which only another import can    *)
(* have put since.                                                         *)
JobSound(i) ==
  LET job == importer[i] IN
  /\ job.at \in {"files", "flushed"} =>
       /\ job.bundle \in bundles /\ job.bundle.whole /\ Shelved(job.bundle, job.due)
       /\ \A f \in job.due : job.bundle.files[f] # "absent"
  /\ job.writes # NoFile => job.at = "files" /\ job.writes \in job.due /\ shelf[job.writes] # "other"
  /\ job.at = "flushed" => ~Exists /\ job.due = {} /\ ReferencesHold(job.bundle)

(* An import that has flushed the project's row is alone, and first.       *)
ImportsSound ==
  /\ \A i \in Importers : JobSound(i)
  /\ \A i, j \in Importers : importer[i].at = "flushed" /\ importer[j].at = "flushed" => i = j
  /\ imports = IF Exists THEN 1 ELSE 0
  /\ Exists => /\ restored.whole /\ AsRead(restored) /\ ReferencesHold(restored)
               /\ Shelved(restored, {})

TransferSound == TypeOKTransfer /\ BundlesSound /\ ShelfSound /\ ImportsSound

-----------------------------------------------------------------------------
LEMMA TransferTypes ==
  ASSUME TypeOKTransfer
  PROVE  /\ works \in WorkTable /\ links \in LinkTable /\ depot \in [Files -> Bytes]
         /\ changes \in 0 .. MaxTouches /\ exporter \in [Exporters -> ExportJob]
         /\ scratch \in Scratch /\ bundles \subseteq Bundle /\ importer \in [Importers -> ImportJob]
         /\ shelf \in [Files -> Bytes \cup {"other"}] /\ restored \in Bundle /\ imports \in Nat
         /\ replaced \subseteq Files
         /\ \A e \in Exporters : exporter[e] \in ExportJob /\ exporter[e].bundle \in Bundle
         /\ \A i \in Importers : /\ importer[i] \in ImportJob /\ importer[i].bundle \in Bundle
                                 /\ importer[i].due \in SUBSET Files
                                 /\ importer[i].writes \in Files \cup {NoFile}
         /\ scratch.holds \in Bundle /\ scratch.open \in SUBSET Exporters
<1>1. /\ works \in WorkTable /\ links \in LinkTable /\ depot \in [Files -> Bytes]
      /\ changes \in 0 .. MaxTouches /\ exporter \in [Exporters -> ExportJob]
      /\ scratch \in Scratch /\ bundles \subseteq Bundle /\ importer \in [Importers -> ImportJob]
      /\ shelf \in [Files -> Bytes \cup {"other"}] /\ restored \in Bundle /\ imports \in Nat
      /\ replaced \subseteq Files
  BY DEF TypeOKTransfer, ExportJob, ImportJob, Scratch
<1>2. \A e \in Exporters : exporter[e] \in ExportJob /\ exporter[e].bundle \in Bundle
  BY <1>1 DEF ExportJob
<1>3. \A i \in Importers : /\ importer[i] \in ImportJob /\ importer[i].bundle \in Bundle
                           /\ importer[i].due \in SUBSET Files
                           /\ importer[i].writes \in Files \cup {NoFile}
  BY <1>1 DEF ImportJob
<1>4. scratch.holds \in Bundle /\ scratch.open \in SUBSET Exporters
  BY <1>1 DEF Scratch
<1> QED BY <1>1, <1>2, <1>3, <1>4

LEMMA BundleTypes ==
  /\ NoRows \in WorkTable /\ NoCopy \in Bundle /\ ~NoCopy.whole /\ AsRead(NoCopy)
  /\ \A bundle \in Bundle :
       /\ bundle.works \in WorkTable /\ bundle.links \in LinkTable
       /\ bundle.files \in [Files -> Bytes] /\ bundle.whole \in BOOLEAN /\ bundle.torn \in BOOLEAN
       /\ Referenced(bundle.works) \subseteq Files
<1>1. NoRows \in WorkTable
  BY DEF NoRows, WorkTable
<1>2. NoCopy \in Bundle /\ ~NoCopy.whole /\ AsRead(NoCopy)
  BY <1>1 DEF NoCopy, NoLinks, LinkTable, Bundle, Bytes, AsRead
<1>3. \A bundle \in Bundle :
       /\ bundle.works \in WorkTable /\ bundle.links \in LinkTable
       /\ bundle.files \in [Files -> Bytes] /\ bundle.whole \in BOOLEAN /\ bundle.torn \in BOOLEAN
  BY DEF Bundle
<1>4. \A table \in WorkTable : Referenced(table) \subseteq Files
  BY DEF WorkTable, Referenced
<1> QED BY <1>1, <1>2, <1>3, <1>4

(* Types of the next state, one variable at a time.                        *)
LEMMA TransferTypesAfter ==
  ASSUME works' \in WorkTable, links' \in LinkTable, depot' \in [Files -> Bytes],
         changes' \in 0 .. MaxTouches, exporter' \in [Exporters -> ExportJob],
         scratch' \in Scratch, bundles' \subseteq Bundle, importer' \in [Importers -> ImportJob],
         shelf' \in [Files -> Bytes \cup {"other"}], restored' \in Bundle, imports' \in Nat,
         replaced' \subseteq Files
  PROVE  TypeOKTransfer'
BY DEF TypeOKTransfer, ExportJob, ImportJob, Scratch, WorkTable, LinkTable, Bundle, Bytes

LEMMA TransferInitSound == TransferInit => TransferSound
<1> SUFFICES ASSUME TransferInit PROVE TransferSound
  OBVIOUS
<1>1. works \in WorkTable /\ links \in LinkTable /\ depot \in [Files -> Bytes] /\ changes = 0
  BY DEF TransferInit, WorkTable, Bytes
<1>2. \A e \in Exporters : exporter[e] \in ExportJob /\ exporter[e].bundle = NoCopy
  BY BundleTypes DEF TransferInit, ExportAt, ExportJob
<1>3. \A i \in Importers : /\ importer[i] \in ImportJob /\ importer[i].at = "rest"
                           /\ importer[i].writes = NoFile
  BY BundleTypes DEF TransferInit, ImportAt, ImportJob
<1>4. exporter \in [Exporters -> ExportJob] /\ importer \in [Importers -> ImportJob]
  <2>1. exporter \in [Exporters -> {ExportAt("rest"), ExportAt("done")}]
        /\ importer = [i \in Importers |-> ImportAt("rest")]
    BY DEF TransferInit
  <2> QED BY <1>2, <1>3, <2>1
<1>5. scratch \in Scratch /\ scratch.holds = NoCopy /\ bundles = {}
  BY BundleTypes DEF TransferInit, Scratch
<1>6. shelf \in [Files -> Bytes \cup {"other"}] /\ restored = NoCopy /\ imports = 0 /\ replaced = {}
      /\ \A f \in Files : shelf[f] \in {"absent", "other"}
  BY DEF TransferInit, Bytes
<1>7. TypeOKTransfer
  BY <1>1, <1>4, <1>5, <1>6, BundleTypes, TransferAssumptions
  DEF TypeOKTransfer, ExportJob, ImportJob, Scratch
<1>8. BundlesSound
  BY <1>2, <1>5, BundleTypes DEF BundlesSound, TransferInit
<1>9. ShelfSound
  BY <1>6 DEF ShelfSound
<1>10. ImportsSound
  BY <1>3, <1>6 DEF ImportsSound, JobSound, Exists
<1> QED BY <1>7, <1>8, <1>9, <1>10 DEF TransferSound

-----------------------------------------------------------------------------
(* Work at the other server leaves the importer's as it was; bundles are   *)
(* only added.                                                             *)
LEMMA ImportsKept ==
  ASSUME ImportsSound, ShelfSound, UNCHANGED there, bundles \subseteq bundles'
  PROVE  ImportsSound' /\ ShelfSound'
<1>1. UNCHANGED <<importer, shelf, restored, imports, replaced>>
  BY DEF there
<1>2. ImportsSound'
  BY <1>1 DEF ImportsSound, JobSound, Exists, Shelved
<1>3. ShelfSound'
  BY <1>1 DEF ShelfSound, Twofold
<1> QED BY <1>2, <1>3

(* Work at the exporter's.                                                 *)
LEMMA WorkSound ==
  ASSUME TransferSound,
         \/ \E w \in Works :
              \/ \E by \in {"key", "id"} : AddLink(w, by)
              \/ \E f \in Files, by \in {"none", "key", "id"} : AddWork(w, f, by)
         \/ \E f \in Files, bytes \in {"absent", "damaged"} : FileSpoils(f, bytes)
  PROVE  TransferSound'
<1> USE DEF TransferSound
<1>1. /\ UNCHANGED <<exporter, scratch, bundles, there>> /\ changes' \in 0 .. MaxTouches
      /\ works' \in WorkTable /\ links' \in LinkTable /\ depot' \in [Files -> Bytes]
      /\ \A w \in Works : links'[w] # "none" => works'[w] # NoFile
  <2>1. works \in WorkTable /\ links \in LinkTable /\ depot \in [Files -> Bytes]
        /\ changes \in 0 .. MaxTouches
        /\ \A w \in Works : links[w] # "none" => works[w] # NoFile
    BY TransferTypes DEF BundlesSound
  <2>2. ASSUME Changes PROVE changes' \in 0 .. MaxTouches
    BY <2>1, <2>2, TransferAssumptions DEF Changes
  <2>3. ASSUME NEW w \in Works, NEW by \in {"key", "id"}, AddLink(w, by) PROVE <1>1!:
    <3>1. links' = [links EXCEPT ![w] = by] /\ works[w] # NoFile /\ Changes
          /\ UNCHANGED <<works, depot, exporter, scratch, bundles, there>>
      BY <2>3 DEF AddLink
    <3>2. links' \in LinkTable
      BY <2>1, <3>1 DEF LinkTable
    <3>3. \A v \in Works : links'[v] # "none" => works'[v] # NoFile
      BY <2>1, <3>1 DEF LinkTable
    <3> QED BY <2>1, <2>2, <3>1, <3>2, <3>3
  <2>4. ASSUME NEW w \in Works, NEW f \in Files, NEW by \in {"none", "key", "id"}, AddWork(w, f, by)
        PROVE <1>1!:
    <3>1. /\ works' = [works EXCEPT ![w] = f] /\ links' = [links EXCEPT ![w] = by] /\ Changes
          /\ depot' = PutIn(depot, f, "whole") /\ UNCHANGED <<exporter, scratch, bundles, there>>
      BY <2>4 DEF AddWork
    <3>2. works' \in WorkTable /\ links' \in LinkTable
      BY <2>1, <3>1 DEF WorkTable, LinkTable
    <3>3. depot' \in [Files -> Bytes]
      BY <2>1, <3>1 DEF PutIn, Bytes
    <3>4. \A v \in Works : links'[v] # "none" => works'[v] # NoFile
      BY <2>1, <3>1, TransferAssumptions DEF WorkTable, LinkTable
    <3> QED BY <2>2, <3>1, <3>2, <3>3, <3>4
  <2>5. ASSUME NEW f \in Files, NEW bytes \in {"absent", "damaged"}, FileSpoils(f, bytes)
        PROVE <1>1!:
    BY <2>1, <2>2, <2>5 DEF FileSpoils, Bytes
  <2> QED BY <2>3, <2>4, <2>5
<1>2. TypeOKTransfer'
  BY <1>1, TransferTypes, TransferTypesAfter DEF there
<1>3. BundlesSound'
  BY <1>1 DEF BundlesSound
<1> QED BY <1>1, <1>2, <1>3, ImportsKept

LEMMA ExportSound ==
  ASSUME TransferSound, NEW e \in Exporters,
         \/ ReadWorks(e) \/ ReadLinks(e) \/ ReadFiles(e) \/ OpenZip(e) \/ CloseZip(e)
         \/ StoreBundle(e) \/ ExportFails(e)
  PROVE  TransferSound'
<1> USE DEF TransferSound
<1>0. /\ works \in WorkTable /\ links \in LinkTable /\ depot \in [Files -> Bytes]
      /\ exporter \in [Exporters -> ExportJob] /\ scratch \in Scratch /\ bundles \subseteq Bundle
      /\ exporter[e].bundle \in Bundle /\ scratch.holds \in Bundle /\ scratch.open \in SUBSET Exporters
      /\ AsRead(exporter[e].bundle) /\ AsRead(scratch.holds) /\ AsRead(NoCopy)
  BY TransferTypes, BundleTypes DEF BundlesSound
<1>1. PICK job \in ExportJob : AsRead(job.bundle) /\ exporter' = [exporter EXCEPT ![e] = job]
  <2>1. ASSUME NEW from, NEW to \in {"works", "links", "files", "zip", "closed", "done"},
               NEW bundle \in Bundle, AsRead(bundle), Reads(e, from, to, bundle)
        PROVE  \E job \in ExportJob : AsRead(job.bundle) /\ exporter' = [exporter EXCEPT ![e] = job]
    <3>1. [at |-> to, bundle |-> bundle] \in ExportJob
      BY DEF ExportJob
    <3> QED BY <2>1, <3>1 DEF Reads
  <2>2. CASE ReadWorks(e)
    <3>1. PICK bundle : bundle = [NoCopy EXCEPT !.works = works]
      OBVIOUS
    <3>2. /\ bundle \in Bundle /\ ~bundle.whole
          /\ bundle.links = NoLinks /\ bundle.files = [f \in Files |-> "absent"]
      BY <1>0, <3>1, BundleTypes DEF Bundle, NoCopy
    <3>3. AsRead(bundle)
      BY <3>2 DEF AsRead, NoLinks
    <3> QED BY <2>1, <2>2, <3>1, <3>2, <3>3 DEF ReadWorks
  <2>3. CASE ReadLinks(e)
    <3>1. PICK torn \in BOOLEAN : torn = (works # exporter[e].bundle.works)
      OBVIOUS
    <3>2. PICK bundle : bundle = [exporter[e].bundle EXCEPT !.links = links, !.torn = torn]
      OBVIOUS
    <3>3. /\ bundle \in Bundle /\ bundle.works = exporter[e].bundle.works
          /\ bundle.files = exporter[e].bundle.files /\ bundle.whole = exporter[e].bundle.whole
          /\ bundle.links = links /\ bundle.torn = torn
      BY <1>0, <3>2 DEF Bundle
    <3>4. AsRead(bundle)
      BY <1>0, <3>1, <3>3 DEF AsRead, BundlesSound
    <3>5. Reads(e, "works", "links", bundle)
      BY <2>3, <3>1, <3>2 DEF ReadLinks
    <3> QED BY <2>1, <3>3, <3>4, <3>5
  <2>4. CASE ReadFiles(e)
    <3>1. PICK files \in [Files -> Bytes] :
            files = [f \in Files |-> IF f \in Referenced(exporter[e].bundle.works)
                                     THEN depot[f] ELSE "absent"]
      BY <1>0 DEF Bytes
    <3>2. PICK bundle : bundle = [exporter[e].bundle EXCEPT !.whole = TRUE, !.files = files]
      OBVIOUS
    <3>3. /\ bundle \in Bundle /\ bundle.works = exporter[e].bundle.works /\ bundle.files = files
          /\ bundle.links = exporter[e].bundle.links /\ bundle.torn = exporter[e].bundle.torn
      BY <1>0, <3>2 DEF Bundle
    <3>4. \A f \in Referenced(exporter[e].bundle.works) \ BareFiles : f \in Files /\ depot[f] = "whole"
      BY <1>0, <2>4, BundleTypes DEF ReadFiles
    <3>5. AsRead(bundle)
      BY <1>0, <3>1, <3>3, <3>4 DEF AsRead
    <3>6. Reads(e, "links", "files", bundle)
      BY <2>4, <3>1, <3>2 DEF ReadFiles
    <3> QED BY <2>1, <3>5, <3>6, <3>3
  <2>5. CASE OpenZip(e)
    BY <1>0, <2>1, <2>5 DEF OpenZip
  <2>6. CASE CloseZip(e)
    BY <1>0, <2>1, <2>6 DEF CloseZip
  <2>7. CASE StoreBundle(e)
    BY <1>0, <2>1, <2>7, BundleTypes DEF StoreBundle
  <2>8. CASE ExportFails(e)
    <3>1. ExportAt("done") \in ExportJob /\ ExportAt("done").bundle = NoCopy
      BY BundleTypes DEF ExportAt, ExportJob
    <3> QED BY <1>0, <2>8, <3>1 DEF ExportFails
  <2> QED BY <2>2, <2>3, <2>4, <2>5, <2>6, <2>7, <2>8
<1>2. UNCHANGED <<works, links, depot, changes, there>>
  BY DEF ReadWorks, ReadLinks, ReadFiles, OpenZip, CloseZip, StoreBundle, ExportFails, here
<1>3. /\ exporter' \in [Exporters -> ExportJob]
      /\ \A x \in Exporters : AsRead(exporter'[x].bundle)
  <2>1. exporter' \in [Exporters -> ExportJob] /\ exporter'[e] = job
        /\ \A x \in Exporters \ {e} : exporter'[x] = exporter[x]
    BY <1>0, <1>1
  <2> QED BY <1>1, <2>1 DEF BundlesSound
<1>4. scratch' \in Scratch /\ AsRead(scratch'.holds)
  <2>1. CASE scratch' = scratch
    BY <1>0, <2>1
  <2>2. CASE OpenZip(e)
    BY <1>0, <2>2, BundleTypes DEF OpenZip, Scratch
  <2>3. CASE CloseZip(e)
    <3>1. CASE scratch.open = {e}
      <4>1. scratch' = [open |-> {}, holds |-> exporter[e].bundle]
        BY <2>3, <3>1 DEF CloseZip
      <4> QED BY <1>0, <4>1 DEF Scratch
    <3>2. CASE scratch.open # {e}
      <4>1. scratch' = [open |-> scratch.open, holds |-> NoCopy]
        BY <2>3, <3>2 DEF CloseZip
      <4> QED BY <1>0, <4>1, BundleTypes DEF Scratch
    <3> QED BY <3>1, <3>2
  <2> QED BY <2>1, <2>2, <2>3 DEF ReadWorks, ReadLinks, ReadFiles, StoreBundle, ExportFails
<1>5. /\ bundles' \subseteq Bundle /\ bundles \subseteq bundles'
      /\ \A bundle \in bundles' : AsRead(bundle)
  <2>1. bundles' = bundles \/ bundles' = bundles \cup {scratch.holds}
    BY DEF ReadWorks, ReadLinks, ReadFiles, OpenZip, CloseZip, StoreBundle, ExportFails
  <2> QED BY <1>0, <2>1 DEF BundlesSound
<1>6. TypeOKTransfer'
  BY <1>2, <1>3, <1>4, <1>5, TransferTypes, TransferTypesAfter DEF there
<1>7. BundlesSound'
  BY <1>2, <1>3, <1>4, <1>5 DEF BundlesSound
<1> QED BY <1>2, <1>5, <1>6, <1>7, ImportsKept

-----------------------------------------------------------------------------
(* What is on the shelf stays there or is recorded as replaced.            *)
ShelfStep ==
  /\ replaced \subseteq replaced'
  /\ \A f \in Files : /\ shelf[f] # "absent" => shelf'[f] = shelf[f] \/ f \in replaced'
                      /\ shelf'[f] = "other" => shelf[f] = "other"

LEMMA ShelvedKept ==
  ASSUME NEW bundle, NEW due, Shelved(bundle, due), ShelfStep
  PROVE  Shelved(bundle, due)'
BY DEF Shelved, ShelfStep

(* os.replace puts the file of a bundle where a file of another may have   *)
(* come.                                                                   *)
LEMMA ReplaceSound ==
  ASSUME TransferSound, NEW i \in Importers, NEW f, f = importer[i].writes, f # NoFile,
         Replace(f, importer[i].bundle.files[f]), UNCHANGED bundles
  PROVE  /\ f \in Files /\ shelf' \in [Files -> Bytes \cup {"other"}] /\ replaced' \subseteq Files
         /\ shelf'[f] = importer[i].bundle.files[f] /\ ShelfStep /\ ShelfSound'
<1> DEFINE bundle == importer[i].bundle
           bytes == importer[i].bundle.files[f]
<1>1. /\ f \in Files /\ bundle \in bundles /\ bundle.whole /\ bytes # "absent"
      /\ shelf[f] # "other" /\ bytes \in Bytes /\ AsRead(bundle)
  <2>1. importer[i].at = "files" /\ f \in importer[i].due /\ shelf[f] # "other"
    BY DEF TransferSound, ImportsSound, JobSound
  <2>2. f \in Files /\ bundle \in Bundle
    BY <2>1, TransferTypes DEF TransferSound
  <2> QED BY <2>1, <2>2, BundleTypes DEF TransferSound, ImportsSound, JobSound, BundlesSound
<1>2. shelf \in [Files -> Bytes \cup {"other"}] /\ replaced \subseteq Files
  BY TransferTypes DEF TransferSound
<1>3. shelf' = [shelf EXCEPT ![f] = bytes]
      /\ replaced' = IF shelf[f] \in {"absent", bytes} THEN replaced ELSE replaced \cup {f}
  BY DEF Replace
<1>4. shelf' \in [Files -> Bytes \cup {"other"}] /\ shelf'[f] = bytes /\ replaced' \subseteq Files
      /\ \A g \in Files \ {f} : shelf'[g] = shelf[g]
  BY <1>1, <1>2, <1>3
<1>5. ShelfStep
  BY <1>1, <1>3, <1>4 DEF ShelfStep, Bytes
<1>6. ASSUME shelf[f] \notin {"absent", bytes} PROVE f \in BareFiles /\ Twofold(f)
  <2>1. PICK one \in bundles : one.whole /\ one.files[f] = shelf[f]
    BY <1>1, <1>6 DEF TransferSound, ShelfSound
  <2>2. Twofold(f)
    BY <1>1, <1>6, <2>1 DEF Twofold
  <2>3. f \in BareFiles
    <3>1. SUFFICES ASSUME f \notin BareFiles PROVE FALSE
      OBVIOUS
    <3>2. bytes = "whole"
      BY <1>1, <3>1 DEF AsRead
    <3>3. AsRead(one)
      BY <2>1 DEF TransferSound, BundlesSound
    <3>4. one.files[f] = "whole"
      BY <1>1, <1>6, <2>1, <3>1, <3>3 DEF AsRead
    <3> QED BY <1>6, <2>1, <3>2, <3>4
  <2> QED BY <2>2, <2>3
<1>7. ShelfSound'
  <2>1. ASSUME NEW g \in Files
        PROVE  /\ shelf'[g] \notin {"absent", "other"} =>
                    \E b \in bundles : b.whole /\ b.files[g] = shelf'[g]
               /\ g \in replaced' => g \in BareFiles /\ Twofold(g)
    <3>1. CASE g = f
      BY <1>1, <1>3, <1>4, <1>6, <3>1 DEF TransferSound, ShelfSound
    <3>2. CASE g # f
      BY <1>3, <1>4, <3>2 DEF TransferSound, ShelfSound
    <3> QED BY <3>1, <3>2
  <2> QED BY <2>1 DEF ShelfSound, Twofold
<1> QED BY <1>1, <1>4, <1>5, <1>7

(* What a step of one import leaves of the others, and of the restored     *)
(* project.                                                                *)
LEMMA OthersSound ==
  ASSUME TransferSound, NEW i \in Importers, ShelfStep, UNCHANGED <<bundles, restored>>,
         \A j \in Importers \ {i} : importer'[j] = importer[j]
  PROVE  /\ \A j \in Importers \ {i} : JobSound(j)'
         /\ Exists' = Exists /\ (Exists => Shelved(restored, {})')
<1>1. ASSUME NEW j \in Importers \ {i} PROVE JobSound(j)'
  <2>1. JobSound(j) /\ importer'[j] = importer[j]
    BY DEF TransferSound, ImportsSound
  <2>2. importer[j].at \in {"files", "flushed"} => Shelved(importer[j].bundle, importer[j].due)'
    <3> SUFFICES ASSUME importer[j].at \in {"files", "flushed"}
                 PROVE  Shelved(importer[j].bundle, importer[j].due)'
      OBVIOUS
    <3>1. Shelved(importer[j].bundle, importer[j].due)
      BY <2>1 DEF JobSound
    <3>2. \A f \in Files \ importer[j].due : importer[j].bundle.files[f] # "absent" =>
            shelf'[f] = importer[j].bundle.files[f] \/ f \in replaced'
      BY <3>1 DEF Shelved, ShelfStep
    <3> QED BY <2>1, <3>2 DEF Shelved
  <2>3. importer[j].writes # NoFile => shelf'[importer[j].writes] # "other"
    <3>1. importer[j].due \subseteq Files
      BY TransferTypes DEF TransferSound
    <3> QED BY <2>1, <3>1 DEF JobSound, ShelfStep
  <2>4. /\ importer'[j].at \in {"files", "flushed"} =>
             /\ importer'[j].bundle \in bundles' /\ importer'[j].bundle.whole
             /\ \A f \in importer'[j].due : importer'[j].bundle.files[f] # "absent"
        /\ importer'[j].writes # NoFile =>
             importer'[j].at = "files" /\ importer'[j].writes \in importer'[j].due
        /\ importer'[j].at = "flushed" =>
             ~Exists' /\ importer'[j].due = {} /\ ReferencesHold(importer'[j].bundle)
    BY <2>1 DEF JobSound, Exists
  <2> QED BY <2>1, <2>2, <2>3, <2>4 DEF JobSound
<1>2. Exists' = Exists
  BY DEF Exists
<1>3. Exists => Shelved(restored, {})'
  <2>1. Exists => Shelved(restored, {})
    BY DEF TransferSound, ImportsSound
  <2> QED BY <2>1, ShelvedKept DEF Shelved
<1> QED BY <1>1, <1>2, <1>3

LEMMA ImportSound ==
  ASSUME TransferSound, NEW i \in Importers,
         \/ \E bundle \in bundles : BeginImport(i, bundle)
         \/ \E f \in Files : LookForFile(i, f)
         \/ PutFile(i) \/ FlushRows(i) \/ CommitImport(i) \/ ImportFails(i)
  PROVE  TransferSound'
<1> USE DEF TransferSound
<1>0. /\ importer \in [Importers -> ImportJob] /\ importer[i] \in ImportJob
      /\ importer[i].bundle \in Bundle /\ importer[i].due \in SUBSET Files
      /\ importer[i].writes \in Files \cup {NoFile}
      /\ bundles \subseteq Bundle /\ shelf \in [Files -> Bytes \cup {"other"}]
      /\ restored \in Bundle /\ imports \in Nat /\ replaced \subseteq Files /\ JobSound(i)
  BY TransferTypes DEF ImportsSound
<1>1. UNCHANGED <<works, links, depot, changes, exporter, scratch, bundles>>
  BY DEF BeginImport, LookForFile, PutFile, FlushRows, CommitImport, ImportFails, here
<1>2. BundlesSound'
  BY <1>1 DEF BundlesSound
<1>3. ASSUME NEW job \in ImportJob, importer' = [importer EXCEPT ![i] = job],
             shelf' \in [Files -> Bytes \cup {"other"}], restored' \in Bundle, imports' \in Nat,
             replaced' \subseteq Files
      PROVE  /\ TypeOKTransfer' /\ importer'[i] = job
             /\ \A j \in Importers \ {i} : importer'[j] = importer[j]
  <2>1. /\ importer' \in [Importers -> ImportJob] /\ importer'[i] = job
        /\ \A j \in Importers \ {i} : importer'[j] = importer[j]
    BY <1>0, <1>3
  <2> QED BY <1>1, <1>3, <2>1, TransferTypes, TransferTypesAfter
<1>4. UNCHANGED <<shelf, replaced>> => ShelfStep /\ ShelfSound'
  BY <1>1 DEF ShelfStep, ShelfSound, Twofold
(* A step that leaves the project as it is and flushes nothing keeps the   *)
(* imports sound if its own stays so.                                      *)
<1>5. ASSUME ShelfStep, UNCHANGED <<restored, imports>>, JobSound(i)', importer'[i].at # "flushed",
             \A j \in Importers \ {i} : importer'[j] = importer[j]
      PROVE  ImportsSound'
  BY <1>1, <1>5, OthersSound DEF ImportsSound
<1>6. CASE \E bundle \in bundles : BeginImport(i, bundle)
  <2>1. PICK bundle \in bundles : BeginImport(i, bundle)
    BY <1>6
  <2>2. bundle \in Bundle /\ bundle.whole
    BY <1>0, <2>1 DEF BeginImport, Verified
  <2>3. PICK due \in SUBSET Files : due = {f \in Files : bundle.files[f] # "absent"}
    OBVIOUS
  <2>4. PICK job \in ImportJob :
          job = [at |-> "files", bundle |-> bundle, due |-> due, writes |-> NoFile]
    BY <2>2 DEF ImportJob
  <2>5. importer' = [importer EXCEPT ![i] = job] /\ UNCHANGED <<shelf, restored, imports, replaced>>
    BY <2>1, <2>3, <2>4 DEF BeginImport
  <2>6. /\ TypeOKTransfer' /\ importer'[i] = job
        /\ \A j \in Importers \ {i} : importer'[j] = importer[j]
    BY <1>0, <1>3, <2>5
  <2>7. Shelved(importer[i].bundle, importer[i].due)'
    BY <2>3, <2>4, <2>6 DEF Shelved
  <2>8. JobSound(i)'
    BY <1>1, <2>2, <2>3, <2>4, <2>6, <2>7 DEF JobSound, Shelved
  <2>9. importer'[i].at # "flushed"
    BY <2>4, <2>6
  <2> QED BY <1>2, <1>4, <1>5, <2>5, <2>6, <2>8, <2>9
<1>7. CASE \E f \in Files : LookForFile(i, f)
  <2>1. PICK f \in Files : LookForFile(i, f)
    BY <1>7
  <2>2. /\ importer[i].at = "files" /\ importer[i].writes = NoFile /\ f \in importer[i].due
        /\ shelf[f] \in {"absent", importer[i].bundle.files[f]}
        /\ UNCHANGED <<shelf, restored, imports, replaced>>
    BY <2>1 DEF LookForFile, CanPut
  <2>3. CASE shelf[f] = "absent"
    <3>1. PICK job : job = [importer[i] EXCEPT !.writes = f]
      OBVIOUS
    <3>2. /\ job \in ImportJob /\ job.at = "files" /\ job.bundle = importer[i].bundle
          /\ job.due = importer[i].due /\ job.writes = f
      BY <1>0, <2>2, <3>1 DEF ImportJob
    <3>3. importer' = [importer EXCEPT ![i] = job]
      BY <1>0, <2>1, <2>3, <3>1 DEF LookForFile
    <3>4. /\ TypeOKTransfer' /\ importer'[i] = job
          /\ \A j \in Importers \ {i} : importer'[j] = importer[j]
      BY <1>0, <1>3, <2>2, <3>2, <3>3
    <3>5. JobSound(i)'
      BY <1>0, <1>1, <2>2, <2>3, <3>2, <3>4 DEF JobSound, Shelved
    <3> QED BY <1>2, <1>4, <1>5, <2>2, <3>2, <3>4, <3>5
  <2>4. CASE shelf[f] # "absent"
    <3>1. PICK job : job = [importer[i] EXCEPT !.due = @ \ {f}]
      OBVIOUS
    <3>2. /\ job \in ImportJob /\ job.at = "files" /\ job.bundle = importer[i].bundle
          /\ job.due = importer[i].due \ {f} /\ job.writes = NoFile
      BY <1>0, <2>2, <3>1 DEF ImportJob
    <3>3. importer' = [importer EXCEPT ![i] = job]
      BY <1>0, <2>1, <2>4, <3>1 DEF LookForFile
    <3>4. /\ TypeOKTransfer' /\ importer'[i] = job
          /\ \A j \in Importers \ {i} : importer'[j] = importer[j]
      BY <1>0, <1>3, <2>2, <3>2, <3>3
    <3>5. JobSound(i)'
      <4>1. Shelved(importer[i].bundle, importer[i].due)
        BY <1>0, <2>2 DEF JobSound
      <4>2. Shelved(importer[i].bundle, importer[i].due)'
        BY <2>2, <2>4, <3>2, <3>4, <4>1 DEF Shelved
      <4> QED BY <1>0, <1>1, <2>2, <3>2, <3>4, <4>2 DEF JobSound, Shelved
    <3> QED BY <1>2, <1>4, <1>5, <2>2, <3>2, <3>4, <3>5
  <2> QED BY <2>3, <2>4
<1>8. CASE PutFile(i)
  <2>1. PICK f : f = importer[i].writes
    OBVIOUS
  <2>2. f # NoFile /\ Replace(f, importer[i].bundle.files[f]) /\ UNCHANGED <<restored, imports>>
    BY <1>8, <2>1 DEF PutFile
  <2>3. /\ f \in Files /\ shelf' \in [Files -> Bytes \cup {"other"}] /\ replaced' \subseteq Files
        /\ shelf'[f] = importer[i].bundle.files[f] /\ ShelfStep /\ ShelfSound'
    BY <1>1, <2>1, <2>2, ReplaceSound
  <2>4. PICK job : job = [importer[i] EXCEPT !.due = @ \ {f}, !.writes = NoFile]
    OBVIOUS
  <2>5. importer[i].at = "files"
    BY <1>0, <2>1, <2>2 DEF JobSound
  <2>6. /\ job \in ImportJob /\ job.at = "files" /\ job.bundle = importer[i].bundle
        /\ job.due = importer[i].due \ {f} /\ job.writes = NoFile
    BY <1>0, <2>4, <2>5 DEF ImportJob
  <2>7. importer' = [importer EXCEPT ![i] = job]
    BY <1>0, <1>8, <2>1, <2>4 DEF PutFile
  <2>8. /\ TypeOKTransfer' /\ importer'[i] = job
        /\ \A j \in Importers \ {i} : importer'[j] = importer[j]
    BY <1>0, <1>3, <2>2, <2>3, <2>6, <2>7
  <2>9. JobSound(i)'
    <3>1. Shelved(importer[i].bundle, importer[i].due)
      BY <1>0, <2>5 DEF JobSound
    <3>2. Shelved(importer[i].bundle, importer[i].due)'
      BY <2>3, <2>6, <2>8, <3>1 DEF Shelved, ShelfStep
    <3> QED BY <1>0, <1>1, <2>5, <2>6, <2>8, <3>2 DEF JobSound, Shelved
  <2> QED BY <1>2, <1>5, <2>2, <2>3, <2>6, <2>8, <2>9
<1>9. CASE FlushRows(i)
  <2>1. /\ importer[i].at = "files" /\ importer[i].due = {} /\ ~Exists
        /\ ReferencesHold(importer[i].bundle) /\ UNCHANGED <<shelf, restored, imports, replaced>>
        /\ \A j \in Importers : importer[j].at # "flushed"
    BY <1>9 DEF FlushRows
  <2>2. PICK job : job = [importer[i] EXCEPT !.at = "flushed"]
    OBVIOUS
  <2>3. /\ importer' = [importer EXCEPT ![i] = job] /\ job \in ImportJob
        /\ job.at = "flushed" /\ job.bundle = importer[i].bundle /\ job.due = importer[i].due
        /\ job.writes = importer[i].writes
    <3>1. importer' = [importer EXCEPT ![i] = job]
      BY <1>0, <1>9, <2>2 DEF FlushRows
    <3>2. job \in ImportJob /\ job.at = "flushed" /\ job.bundle = importer[i].bundle
          /\ job.due = importer[i].due /\ job.writes = importer[i].writes
      BY <1>0, <2>2 DEF ImportJob
    <3> QED BY <3>1, <3>2
  <2>4. /\ TypeOKTransfer' /\ importer'[i] = job
        /\ \A j \in Importers \ {i} : importer'[j] = importer[j]
    BY <1>0, <1>3, <2>1, <2>3
  <2>5. importer[i].writes = NoFile
    BY <1>0, <2>1 DEF JobSound
  <2>6. JobSound(i)'
    BY <1>0, <1>1, <2>1, <2>3, <2>4, <2>5 DEF JobSound, Shelved, Exists
  <2>7. (\A j \in Importers \ {i} : JobSound(j)') /\ Exists' = Exists
        /\ (Exists => Shelved(restored, {})')
    BY <1>1, <1>4, <2>1, <2>4, OthersSound
  <2>8. ImportsSound'
    BY <2>1, <2>4, <2>6, <2>7 DEF ImportsSound
  <2> QED BY <1>2, <1>4, <2>1, <2>4, <2>8
<1>10. CASE CommitImport(i)
  <2>1. /\ importer[i].at = "flushed" /\ restored' = importer[i].bundle /\ imports' = imports + 1
        /\ importer' = [importer EXCEPT ![i] = ImportAt("done")] /\ UNCHANGED <<shelf, replaced>>
    BY <1>10 DEF CommitImport
  <2>2. ImportAt("done") \in ImportJob /\ ImportAt("done").at = "done"
        /\ ImportAt("done").writes = NoFile
    BY BundleTypes DEF ImportAt, ImportJob
  <2>3. /\ TypeOKTransfer' /\ importer'[i] = ImportAt("done")
        /\ \A j \in Importers \ {i} : importer'[j] = importer[j]
    <3>1. imports' \in Nat
      BY <1>0, <2>1
    <3> QED BY <1>0, <1>3, <2>1, <2>2, <3>1
  <2>4. /\ importer[i].bundle.whole /\ AsRead(importer[i].bundle) /\ ~Exists /\ imports = 0
        /\ ReferencesHold(importer[i].bundle) /\ Shelved(importer[i].bundle, {})
        /\ \A j \in Importers \ {i} : importer[j].at # "flushed"
    BY <1>0, <2>1 DEF ImportsSound, JobSound, BundlesSound
  <2>5. Exists'
    BY <2>1, <2>4, BundleTypes DEF Exists
  <2>6. \A j \in Importers : JobSound(j)'
    <3>1. JobSound(i)'
      BY <2>2, <2>3 DEF JobSound
    <3>2. ASSUME NEW j \in Importers \ {i} PROVE JobSound(j)'
      BY <1>1, <2>1, <2>3, <2>4 DEF ImportsSound, JobSound, Shelved
    <3> QED BY <3>1, <3>2
  <2>7. ImportsSound'
    BY <2>1, <2>2, <2>3, <2>4, <2>5, <2>6 DEF ImportsSound, Shelved
  <2> QED BY <1>2, <1>4, <2>1, <2>3, <2>7
<1>11. CASE ImportFails(i)
  <2>1. importer' = [importer EXCEPT ![i] = ImportAt("done")] /\ UNCHANGED <<restored, imports>>
    BY <1>11 DEF ImportFails
  <2>2. ImportAt("done") \in ImportJob /\ ImportAt("done").at = "done"
        /\ ImportAt("done").writes = NoFile
    BY BundleTypes DEF ImportAt, ImportJob
  <2>3. /\ shelf' \in [Files -> Bytes \cup {"other"}] /\ replaced' \subseteq Files
        /\ ShelfStep /\ ShelfSound'
    <3>1. CASE UNCHANGED <<shelf, replaced>>
      BY <1>0, <1>4, <3>1
    <3>2. CASE importer[i].writes # NoFile
               /\ Replace(importer[i].writes, importer[i].bundle.files[importer[i].writes])
      BY <1>1, <3>2, ReplaceSound
    <3> QED BY <1>11, <3>1, <3>2 DEF ImportFails
  <2>4. /\ TypeOKTransfer' /\ importer'[i] = ImportAt("done")
        /\ \A j \in Importers \ {i} : importer'[j] = importer[j]
    BY <1>0, <1>3, <2>1, <2>2, <2>3
  <2>5. JobSound(i)'
    BY <2>2, <2>4 DEF JobSound
  <2> QED BY <1>2, <1>5, <2>1, <2>2, <2>3, <2>4, <2>5
<1> QED BY <1>6, <1>7, <1>8, <1>9, <1>10, <1>11

LEMMA TransferNextSound == TransferSound /\ [TransferNext]_transfervars => TransferSound'
<1> SUFFICES ASSUME TransferSound, [TransferNext]_transfervars PROVE TransferSound'
  OBVIOUS
<1>1. CASE \/ \E w \in Works :
                \/ \E by \in {"key", "id"} : AddLink(w, by)
                \/ \E f \in Files, by \in {"none", "key", "id"} : AddWork(w, f, by)
           \/ \E f \in Files, bytes \in {"absent", "damaged"} : FileSpoils(f, bytes)
  BY <1>1, WorkSound
<1>2. ASSUME NEW e \in Exporters,
             \/ ReadWorks(e) \/ ReadLinks(e) \/ ReadFiles(e) \/ OpenZip(e) \/ CloseZip(e)
             \/ StoreBundle(e) \/ ExportFails(e)
      PROVE  TransferSound'
  BY <1>2, ExportSound
<1>3. ASSUME NEW i \in Importers,
             \/ \E bundle \in bundles : BeginImport(i, bundle)
             \/ \E f \in Files : LookForFile(i, f)
             \/ PutFile(i) \/ FlushRows(i) \/ CommitImport(i) \/ ImportFails(i)
      PROVE  TransferSound'
  BY <1>3, ImportSound
<1>4. CASE UNCHANGED transfervars
  <2>1. UNCHANGED <<works, links, depot, changes, exporter, scratch, bundles, there>>
        /\ UNCHANGED <<importer, shelf, restored, imports, replaced>>
    BY <1>4 DEF transfervars, there
  <2>2. TypeOKTransfer'
    BY <2>1, TransferTypes, TransferTypesAfter DEF TransferSound
  <2>3. BundlesSound'
    BY <2>1 DEF TransferSound, BundlesSound
  <2> QED BY <2>1, <2>2, <2>3, ImportsKept DEF TransferSound
<1> QED BY <1>1, <1>2, <1>3, <1>4 DEF TransferNext

(* What imports have put stays on the shelf until a rename of another,     *)
(* which found the file absent too, replaces a bare one; and bundles are   *)
(* as their export read them (transfer.py, storage.py).                    *)
THEOREM TransfersHold == TransferSpec => []TransferSound
<1> QED BY TransferInitSound, TransferNextSound, PTL DEF TransferSpec

(* What was restored is a project that an export saw, whole, and once;     *)
(* ids without a key may dangle after a torn read only, and bare files be  *)
(* another bundle's (import_project).                                      *)
THEOREM RestoredWholeHolds == TransferSpec => []RestoredWhole
<1>1. TransferSound => RestoredWhole
  <2> SUFFICES ASSUME TransferSound PROVE RestoredWhole
    OBVIOUS
  <2>1. imports <= 1
    BY DEF TransferSound, ImportsSound
  <2>2. ASSUME Exists, NEW f \in Referenced(restored.works)
        PROVE  /\ f \notin BareFiles => shelf[f] = "whole"
               /\ restored.files[f] # "absent" => shelf[f] = restored.files[f] \/ f \in replaced
    <3>1. f \in Files
      BY TransferTypes, BundleTypes DEF TransferSound
    <3>2. f \in replaced => f \in BareFiles
      BY <3>1 DEF TransferSound, ShelfSound
    <3>3. restored.files[f] # "absent" => shelf[f] = restored.files[f] \/ f \in replaced
      BY <2>2, <3>1 DEF TransferSound, ImportsSound, Shelved
    <3> QED BY <2>2, <3>1, <3>2, <3>3 DEF TransferSound, ImportsSound, AsRead
  <2>3. Exists =>
          /\ restored.whole /\ ReferencesHold(restored)
          /\ restored.torn \/ \A w \in Works : restored.links[w] # "none" => restored.works[w] # NoFile
    BY DEF TransferSound, ImportsSound, AsRead
  <2>4. \A f \in replaced : f \in BareFiles
          /\ \E one, two \in bundles :
               one.files[f] # two.files[f] /\ "absent" \notin {one.files[f], two.files[f]}
    BY TransferTypes DEF TransferSound, ShelfSound, Twofold
  <2> QED BY <2>1, <2>2, <2>3, <2>4 DEF RestoredWhole
<1> QED BY <1>1, TransfersHold, PTL

-----------------------------------------------------------------------------
(* The desktop pilot: DesktopPilot.                                        *)

Directory == [made : BOOLEAN, packet : [StageId -> Result], dispatched : BOOLEAN,
              identity : BOOLEAN, submission : Result, raw : Result,
              accepted : Result, receipt : Result]
CallSteps == {"rest", "gone", "prepare", "dispatch", "spawn", "attach", "accept", "capture",
          "promote", "seal", "told", "stop", "done"}
CallState == [at : CallSteps, tip : Nat, index : Nat, raw : Result]

PilotShape ==
  /\ stage \in [StageId -> Directory] /\ coordinator \in [Coordinators -> CallState]
  /\ anchor \in Nat /\ spawned \in [StageId -> Nat]

Busy(c) == coordinator[c].at \notin {"rest", "gone"}

(* A call holds the lock and is about the stage after its tip; what it is  *)
(* about to hand out was never handed out, and what it is about to seal    *)
(* has no receipt.                                                         *)
CallHeld(c) ==
  LET now == coordinator[c]  i == coordinator[c].index IN
  /\ Busy(c) => lockfile = c /\ i = now.tip + 1
  /\ now.at \in {"dispatch", "spawn"} =>
       /\ i \in StageId /\ stage[i].made /\ spawned[i] = 0
       /\ \A j \in 1 .. (i - 1) : Receipted(j)
  /\ now.at \in {"capture", "seal"} => i \in StageId /\ ~Receipted(i)
  /\ now.at = "seal" => now.raw \in Good

(* A stage was handed out from its directory, once and after all before it *)
(* were sealed; packets hold what has a receipt.                           *)
StageHeld(i) ==
  /\ spawned[i] <= 1
  /\ spawned[i] > 0 => stage[i].made /\ \A j \in 1 .. (i - 1) : Receipted(j)
  /\ Receipted(i) => /\ stage[i].receipt \in Good
                     /\ stage[i].raw = stage[i].receipt /\ stage[i].accepted = stage[i].receipt
  /\ \A j \in StageId :
       stage[j].packet[i] # Nothing => Receipted(i) /\ stage[j].packet[i] = stage[i].receipt

PilotSound ==
  /\ PilotShape
  /\ \A c \in Coordinators : CallHeld(c)
  /\ \A i \in StageId : StageHeld(i)

LEMMA LastStageNat == LastStage \in Nat
BY PilotAssumptions DEF LastStage

LEMMA PilotInitSound == PilotInit => PilotSound
<1> SUFFICES ASSUME PilotInit PROVE PilotSound
  OBVIOUS
<1>1. NoStage \in Directory /\ Resting \in CallState
  BY DEF NoStage, Directory, Resting, CallState, CallSteps, Result
<1>2. PilotShape
  BY <1>1 DEF PilotInit, PilotShape
<1>3. \A c \in Coordinators : CallHeld(c)
  BY DEF PilotInit, CallHeld, Busy, Resting
<1>4. \A i \in StageId : StageHeld(i)
  BY DEF PilotInit, StageHeld, NoStage, Receipted
<1> QED BY <1>2, <1>3, <1>4 DEF PilotSound

(* The lock: the others are not in a call.                                 *)
LEMMA Alone ==
  ASSUME PilotSound, NEW c \in Coordinators, Busy(c), NEW d \in Coordinators \ {c}
  PROVE  ~Busy(d) /\ lockfile = c
BY DEF PilotSound, CallHeld

(* A call goes on without touching a file.                                 *)
LEMMA MovesOn ==
  ASSUME PilotSound, NEW c \in Coordinators, NEW now \in CallState,
         coordinator' = [coordinator EXCEPT ![c] = now],
         now.at \notin {"dispatch", "spawn", "capture", "seal"},
         now.at \notin {"rest", "gone"} => lockfile' = c /\ now.index = now.tip + 1,
         lockfile' = lockfile \/ Busy(c) \/ \A d \in Coordinators \ {c} : ~Busy(d),
         anchor' \in Nat, UNCHANGED stage,
         \/ UNCHANGED spawned
         \/ /\ coordinator[c].at = "spawn"
            /\ spawned' = [spawned EXCEPT ![coordinator[c].index] = spawned[coordinator[c].index] + 1]
  PROVE  PilotSound'
<1>1. coordinator'[c] = now /\ \A d \in Coordinators \ {c} : coordinator'[d] = coordinator[d]
  BY DEF PilotSound, PilotShape
<1>2. PilotShape'
  <2>1. spawned' \in [StageId -> Nat]
    BY DEF PilotSound, PilotShape
  <2> QED BY <2>1 DEF PilotSound, PilotShape
<1>3. CallHeld(c)'
  BY <1>1 DEF CallHeld, Busy
<1>4. \A d \in Coordinators \ {c} : lockfile' = lockfile \/ ~Busy(d)
  BY Alone
<1>5. ASSUME NEW d \in Coordinators \ {c} PROVE CallHeld(d)'
  <2>1. CASE ~Busy(d)
    BY <1>1, <2>1 DEF CallHeld, Busy
  <2>2. CASE Busy(d)
    <3>1. ~Busy(c) /\ UNCHANGED <<lockfile, spawned>>
      BY <1>4, <2>2, Alone DEF Busy
    <3> QED BY <1>1, <3>1 DEF PilotSound, CallHeld, Busy, Receipted
  <2> QED BY <2>1, <2>2
<1>6. ASSUME NEW i \in StageId PROVE StageHeld(i)'
  <2>1. UNCHANGED <<stage>> /\ StageHeld(i)
    BY DEF PilotSound
  <2>2. spawned'[i] = spawned[i] \/ /\ coordinator[c].at = "spawn" /\ i = coordinator[c].index
                                    /\ spawned'[i] = spawned[i] + 1
    BY DEF PilotSound, PilotShape, CallHeld
  <2>3. spawned'[i] <= 1 /\ (spawned'[i] > 0 => stage[i].made /\ \A j \in 1 .. (i - 1) : Receipted(j))
    <3>1. CASE spawned'[i] = spawned[i]
      BY <2>1, <3>1 DEF StageHeld
    <3>2. CASE coordinator[c].at = "spawn" /\ i = coordinator[c].index /\ spawned'[i] = spawned[i] + 1
      BY <3>2 DEF PilotSound, CallHeld
    <3> QED BY <2>2, <3>1, <3>2
  <2> QED BY <2>1, <2>3 DEF StageHeld, Receipted
<1> QED BY <1>2, <1>3, <1>5, <1>6 DEF PilotSound

(* A call writes the directory of its stage, and receipts stay.            *)
LEMMA Writes ==
  ASSUME PilotSound, NEW c \in Coordinators, Busy(c), NEW now \in CallState,
         coordinator' = [coordinator EXCEPT ![c] = now],
         now.at \notin {"rest", "gone"}, now.index = coordinator[c].index, now.tip = coordinator[c].tip,
         NEW i \in StageId, i = now.index, NEW files \in Directory,
         stage' = [stage EXCEPT ![i] = files],
         UNCHANGED <<lockfile, anchor, spawned>>, CallHeld(c)',
         stage[i].made => files.made,
         Receipted(i) => files.receipt = stage[i].receipt,
         files.receipt # Nothing => /\ files.receipt \in Good /\ files.raw = files.receipt
                                    /\ files.accepted = files.receipt,
         \A j \in StageId : files.packet[j] # Nothing =>
           stage[j].receipt # Nothing /\ files.packet[j] = stage[j].receipt
  PROVE  PilotSound'
<1>1. \A d \in Coordinators \ {c} : coordinator'[d] = coordinator[d] /\ ~Busy(d)
  BY Alone DEF PilotSound, PilotShape
<1>2. /\ stage'[i] = files /\ \A j \in StageId \ {i} : stage'[j] = stage[j]
      /\ stage' \in [StageId -> Directory]
  BY DEF PilotSound, PilotShape
<1>3. PilotShape'
  BY <1>2 DEF PilotSound, PilotShape
<1>4. \A d \in Coordinators \ {c} : CallHeld(d)'
  BY <1>1 DEF CallHeld, Busy
<1>5. \A j \in StageId : Receipted(j) => stage'[j].receipt = stage[j].receipt
  BY <1>2
<1>6. ASSUME NEW j \in StageId PROVE StageHeld(j)'
  <2>1. StageHeld(j) /\ StageHeld(i)
    BY DEF PilotSound
  <2>2. spawned'[j] > 0 => stage'[j].made /\ \A k \in 1 .. (j - 1) : Receipted(k)'
    <3>1. \A k \in 1 .. (j - 1) : k \in StageId
      BY LastStageNat DEF StageId
    <3> QED BY <1>2, <1>5, <2>1, <3>1 DEF StageHeld, Receipted
  <2>3. Receipted(j)' => /\ stage'[j].receipt \in Good
                         /\ stage'[j].raw = stage'[j].receipt /\ stage'[j].accepted = stage'[j].receipt
    BY <1>2, <2>1 DEF StageHeld, Receipted
  <2>4. ASSUME NEW k \in StageId, stage'[k].packet[j] # Nothing
        PROVE  Receipted(j)' /\ stage'[k].packet[j] = stage'[j].receipt
    <3>1. Receipted(j) /\ stage'[k].packet[j] = stage[j].receipt
      BY <1>2, <2>1, <2>4 DEF StageHeld, Receipted
    <3> QED BY <1>5, <3>1 DEF Receipted
  <2> QED BY <2>1, <2>2, <2>3, <2>4 DEF StageHeld
<1> QED BY <1>3, <1>4, <1>6 DEF PilotSound

-----------------------------------------------------------------------------
(* The state of a call after its place changed.                            *)
LEMMA Going ==
  ASSUME PilotSound, NEW c \in Coordinators, NEW to \in CallSteps, Goes(c, to)
  PROVE  \E now \in CallState :
           /\ coordinator' = [coordinator EXCEPT ![c] = now] /\ now.at = to
           /\ now.index = coordinator[c].index /\ now.tip = coordinator[c].tip
           /\ now.raw = coordinator[c].raw
<1> DEFINE now == [coordinator[c] EXCEPT !.at = to]
<1>1. coordinator[c] \in CallState
  BY DEF PilotSound, PilotShape
<1>2. /\ now \in CallState /\ now.at = to /\ now.index = coordinator[c].index
      /\ now.tip = coordinator[c].tip /\ now.raw = coordinator[c].raw
  BY <1>1 DEF CallState
<1>3. coordinator' = [coordinator EXCEPT ![c] = now]
  BY DEF Goes
<1> HIDE DEF now
<1> QED BY <1>2, <1>3

LEMMA CallTypes ==
  ASSUME PilotSound, NEW c \in Coordinators
  PROVE  /\ coordinator[c] \in CallState /\ coordinator[c].index \in Nat
         /\ coordinator[c].tip \in Nat /\ coordinator[c].raw \in Result
BY DEF PilotSound, PilotShape, CallState

LEMMA CallStep ==
  ASSUME PilotSound, NEW c \in Coordinators, NEW op \in {"prepare", "attach", "accept"}, Call(c, op)
  PROVE  PilotSound'
<1> DEFINE now == [coordinator[c] EXCEPT !.at = op, !.index = coordinator[c].tip + 1]
<1>1. now \in CallState /\ now.at = op /\ now.index = now.tip + 1
  <2>1. coordinator[c] \in CallState /\ coordinator[c].tip + 1 \in Nat /\ op \in CallSteps
    BY CallTypes DEF CallSteps
  <2> QED BY <2>1 DEF CallState
<1>2. coordinator' = [coordinator EXCEPT ![c] = now]
  BY DEF Call
<1>3. \A d \in Coordinators : ~Busy(d)
  BY PilotAssumptions DEF Call, PilotSound, CallHeld
<1> HIDE DEF now
<1>4. now.at \in {"prepare", "attach", "accept"}
  BY <1>1
<1> QED BY <1>1, <1>2, <1>3, <1>4, MovesOn DEF Call, PilotSound, PilotShape

LEMMA MakeStageStep ==
  ASSUME PilotSound, NEW c \in Coordinators, MakeStage(c)
  PROVE  PilotSound'
<1> DEFINE i == coordinator[c].index  files == [stage[i] EXCEPT !.made = TRUE]
<1>1. /\ Busy(c) /\ i \in StageId /\ i = coordinator[c].tip + 1 /\ ~stage[i].made
      /\ stage[i] \in Directory /\ StageHeld(i) /\ spawned[i] \in Nat
  <2>1. Busy(c) /\ i = coordinator[c].tip + 1 /\ ~stage[i].made /\ i <= LastStage
    BY DEF MakeStage, NotBegun, Busy, PilotSound, CallHeld
  <2>2. i \in StageId
    BY <2>1, CallTypes, LastStageNat DEF StageId
  <2> QED BY <2>1, <2>2 DEF PilotSound, PilotShape
<1>2. /\ files \in Directory /\ files.made /\ files.receipt = stage[i].receipt
      /\ files.raw = stage[i].raw /\ files.accepted = stage[i].accepted
      /\ files.packet = stage[i].packet
  BY <1>1 DEF Directory
<1>3. stage' = [stage EXCEPT ![i] = files]
  BY DEF MakeStage
<1>4. PICK now \in CallState :
        /\ coordinator' = [coordinator EXCEPT ![c] = now] /\ now.at = "dispatch"
        /\ now.index = i /\ now.tip = coordinator[c].tip
  BY Going DEF MakeStage, CallSteps
<1>5. \A j \in 1 .. (i - 1) : Receipted(j) /\ j \in StageId
  <2>1. \A j \in StageId : j <= coordinator[c].tip => Receipted(j)
    BY DEF MakeStage, Intact
  <2>2. \A j \in 1 .. (i - 1) : j \in StageId /\ j <= coordinator[c].tip
    BY <1>1, CallTypes, LastStageNat DEF StageId
  <2> QED BY <2>1, <2>2
<1>6. spawned[i] = 0
  BY <1>1 DEF StageHeld
<1> HIDE DEF files
<1>7. coordinator'[c] = now /\ stage'[i] = files /\ \A j \in StageId \ {i} : stage'[j] = stage[j]
  BY <1>1, <1>3, <1>4 DEF PilotSound, PilotShape
<1>8. \A j \in 1 .. (i - 1) : Receipted(j)'
  BY <1>2, <1>5, <1>7 DEF Receipted
<1>9. CallHeld(c)'
  <2>1. lockfile' = c
    BY <1>1, Alone DEF MakeStage, PilotSound, CallHeld
  <2> QED BY <1>1, <1>2, <1>4, <1>6, <1>7, <1>8, <2>1 DEF CallHeld, Busy, MakeStage
<1>10. /\ files.receipt # Nothing => /\ files.receipt \in Good /\ files.raw = files.receipt
                                     /\ files.accepted = files.receipt
       /\ \A j \in StageId : files.packet[j] # Nothing =>
            stage[j].receipt # Nothing /\ files.packet[j] = stage[j].receipt
  BY <1>1, <1>2 DEF PilotSound, StageHeld, Receipted
<1> QED BY <1>1, <1>2, <1>3, <1>4, <1>9, <1>10, Writes DEF MakeStage

(* The stage of a call that has begun it, and its files as they are.       *)
LEMMA OwnStage ==
  ASSUME PilotSound, NEW c \in Coordinators, Busy(c), coordinator[c].index <= LastStage
  PROVE  /\ coordinator[c].index \in StageId /\ stage[coordinator[c].index] \in Directory
         /\ StageHeld(coordinator[c].index) /\ lockfile = c
         /\ coordinator[c].index = coordinator[c].tip + 1
<1>1. coordinator[c].index = coordinator[c].tip + 1 /\ lockfile = c
  BY DEF PilotSound, CallHeld
<1>2. coordinator[c].index \in StageId
  BY <1>1, CallTypes, LastStageNat DEF StageId
<1> QED BY <1>1, <1>2 DEF PilotSound, PilotShape

LEMMA DispatchStep ==
  ASSUME PilotSound, NEW c \in Coordinators, Dispatch(c)
  PROVE  PilotSound'
<1> DEFINE i == coordinator[c].index
           files == [stage[i] EXCEPT !.packet = Packet(i), !.dispatched = TRUE]
<1>1. /\ Busy(c) /\ i \in StageId /\ stage[i] \in Directory /\ StageHeld(i) /\ stage[i].made
      /\ spawned[i] = 0 /\ lockfile = c /\ i = coordinator[c].tip + 1
      /\ \A j \in 1 .. (i - 1) : Receipted(j)
  BY DEF Dispatch, Busy, PilotSound, PilotShape, CallHeld
<1>2. Packet(i) \in [StageId -> Result]
  <2>1. \A j \in StageId : stage[j].accepted \in Result
    BY DEF PilotSound, PilotShape, Directory
  <2> QED BY <2>1 DEF Packet, Result
<1>3. /\ files \in Directory /\ files.made /\ files.receipt = stage[i].receipt
      /\ files.raw = stage[i].raw /\ files.accepted = stage[i].accepted
      /\ files.packet = Packet(i)
  BY <1>1, <1>2 DEF Directory
<1>4. stage' = [stage EXCEPT ![i] = files]
  BY DEF Dispatch
<1>5. PICK now \in CallState :
        /\ coordinator' = [coordinator EXCEPT ![c] = now] /\ now.at = "spawn"
        /\ now.index = i /\ now.tip = coordinator[c].tip
  BY Going DEF Dispatch, CallSteps
<1>6. ASSUME NEW j \in StageId, Packet(i)[j] # Nothing
      PROVE  stage[j].receipt # Nothing /\ Packet(i)[j] = stage[j].receipt
  <2>1. j < i /\ Packet(i)[j] = stage[j].accepted
    BY <1>6 DEF Packet
  <2>2. Receipted(j)
    BY <1>1, <2>1, LastStageNat DEF StageId
  <2> QED BY <2>1, <2>2 DEF PilotSound, StageHeld, Receipted
<1> HIDE DEF files
<1>7. coordinator'[c] = now /\ stage'[i] = files /\ \A j \in StageId \ {i} : stage'[j] = stage[j]
  BY <1>1, <1>4, <1>5 DEF PilotSound, PilotShape
<1>8. \A j \in 1 .. (i - 1) : Receipted(j)'
  <2>1. \A j \in 1 .. (i - 1) : j \in StageId
    BY <1>1, LastStageNat DEF StageId
  <2> QED BY <1>1, <1>3, <1>7, <2>1 DEF Receipted
<1>9. CallHeld(c)'
  BY <1>1, <1>3, <1>5, <1>7, <1>8 DEF CallHeld, Busy, Dispatch
<1>10. files.receipt # Nothing => /\ files.receipt \in Good /\ files.raw = files.receipt
                                  /\ files.accepted = files.receipt
  BY <1>1, <1>3 DEF StageHeld, Receipted
<1>11. \A j \in StageId : files.packet[j] # Nothing =>
         stage[j].receipt # Nothing /\ files.packet[j] = stage[j].receipt
  BY <1>3, <1>6
<1>12. /\ now.at \notin {"rest", "gone"} /\ UNCHANGED <<lockfile, anchor, spawned>>
       /\ (stage[i].made => files.made)
       /\ (Receipted(i) => files.receipt = stage[i].receipt)
  BY <1>3, <1>5 DEF Dispatch
<1> QED BY <1>1, <1>3, <1>4, <1>5, <1>9, <1>10, <1>11, <1>12, Writes

(* A call after it has written one of its files, if it hands nothing out   *)
(* and seals only what is good.                                            *)
LEMMA WritesOwn ==
  ASSUME PilotSound, NEW c \in Coordinators, Busy(c), NEW now \in CallState,
         coordinator' = [coordinator EXCEPT ![c] = now],
         now.at \notin {"rest", "gone", "dispatch", "spawn"},
         now.index = coordinator[c].index, now.tip = coordinator[c].tip,
         coordinator[c].index \in StageId,
         NEW files \in Directory, stage' = [stage EXCEPT ![coordinator[c].index] = files],
         UNCHANGED <<lockfile, anchor, spawned>>,
         stage[coordinator[c].index].made => files.made,
         files.packet = stage[coordinator[c].index].packet,
         Receipted(coordinator[c].index) => files.receipt = stage[coordinator[c].index].receipt,
         files.receipt # Nothing => /\ files.receipt \in Good /\ files.raw = files.receipt
                                    /\ files.accepted = files.receipt,
         now.at \in {"capture", "seal"} => files.receipt = Nothing,
         now.at = "seal" => now.raw \in Good
  PROVE  PilotSound'
<1> DEFINE i == coordinator[c].index
<1>1. coordinator'[c] = now /\ stage'[i] = files /\ lockfile = c /\ i = coordinator[c].tip + 1
  BY DEF PilotSound, PilotShape, CallHeld
<1>2. CallHeld(c)'
  BY <1>1 DEF CallHeld, Busy, Receipted
<1>3. \A j \in StageId : files.packet[j] # Nothing =>
        stage[j].receipt # Nothing /\ files.packet[j] = stage[j].receipt
  BY DEF PilotSound, StageHeld, Receipted
<1> QED BY <1>2, <1>3, Writes

LEMMA AttachStep ==
  ASSUME PilotSound, NEW c \in Coordinators, Attach(c)
  PROVE  PilotSound'
<1> DEFINE i == coordinator[c].index  files == [stage[i] EXCEPT !.identity = TRUE]
<1>1. Busy(c) /\ i \in StageId /\ stage[i] \in Directory /\ StageHeld(i)
  BY OwnStage DEF Attach, Busy
<1>2. /\ files \in Directory /\ files.made = stage[i].made /\ files.receipt = stage[i].receipt
      /\ files.raw = stage[i].raw /\ files.accepted = stage[i].accepted
      /\ files.packet = stage[i].packet
  BY <1>1 DEF Directory
<1>3. stage' = [stage EXCEPT ![i] = files]
  BY DEF Attach
<1>4. PICK now \in CallState :
        /\ coordinator' = [coordinator EXCEPT ![c] = now] /\ now.at = "done"
        /\ now.index = i /\ now.tip = coordinator[c].tip
  BY Going DEF Attach, CallSteps
<1> HIDE DEF files
<1>5. files.receipt # Nothing => /\ files.receipt \in Good /\ files.raw = files.receipt
                                 /\ files.accepted = files.receipt
  BY <1>1, <1>2 DEF StageHeld, Receipted
<1> QED BY <1>1, <1>2, <1>3, <1>4, <1>5, WritesOwn DEF Attach

LEMMA CaptureStep ==
  ASSUME PilotSound, NEW c \in Coordinators, Capture(c)
  PROVE  PilotSound'
<1> DEFINE i == coordinator[c].index
           files == [stage[i] EXCEPT !.raw = stage[i].submission]
           now == [coordinator[c] EXCEPT !.at = "capture", !.raw = stage[i].submission]
<1>1. /\ Busy(c) /\ i \in StageId /\ stage[i] \in Directory /\ StageHeld(i)
      /\ stage[i].raw = Nothing /\ coordinator[c] \in CallState
  BY OwnStage, CallTypes DEF Capture, Busy
<1>2. ~Receipted(i)
  BY <1>1, PilotAssumptions DEF StageHeld, Receipted, Submission
<1>3. stage[i].submission \in Result
  BY <1>1 DEF Directory
<1>4. /\ files \in Directory /\ files.made = stage[i].made /\ files.receipt = stage[i].receipt
      /\ files.packet = stage[i].packet
  BY <1>1, <1>3 DEF Directory
<1>5. /\ now \in CallState /\ now.at = "capture" /\ now.index = i
      /\ now.tip = coordinator[c].tip
  BY <1>1, <1>3 DEF CallState, CallSteps
<1>6. stage' = [stage EXCEPT ![i] = files] /\ coordinator' = [coordinator EXCEPT ![c] = now]
  BY DEF Capture
<1> HIDE DEF files, now
<1>7. files.receipt = Nothing
  BY <1>2, <1>4 DEF Receipted
<1>8. /\ now.at \notin {"rest", "gone", "dispatch", "spawn"} /\ now.at # "seal"
      /\ UNCHANGED <<lockfile, anchor, spawned>>
  BY <1>5 DEF Capture
<1> QED BY <1>1, <1>2, <1>4, <1>5, <1>6, <1>7, <1>8, WritesOwn

LEMMA AcceptTextStep ==
  ASSUME PilotSound, NEW c \in Coordinators, AcceptText(c)
  PROVE  PilotSound'
<1> DEFINE i == coordinator[c].index
           files == [stage[i] EXCEPT !.accepted = coordinator[c].raw]
<1>1. /\ Busy(c) /\ i \in StageId /\ stage[i] \in Directory /\ ~Receipted(i)
      /\ coordinator[c].raw \in Result /\ i = coordinator[c].tip + 1 /\ lockfile = c
  BY CallTypes DEF AcceptText, Busy, PilotSound, PilotShape, CallHeld
<1>2. CASE Fits(c) /\ stage' = [stage EXCEPT ![i] = files] /\ Goes(c, "seal")
  <2>1. /\ files \in Directory /\ files.made = stage[i].made /\ files.receipt = stage[i].receipt
        /\ files.packet = stage[i].packet
    BY <1>1 DEF Directory
  <2>2. PICK now \in CallState :
          /\ coordinator' = [coordinator EXCEPT ![c] = now] /\ now.at = "seal"
          /\ now.index = i /\ now.tip = coordinator[c].tip /\ now.raw = coordinator[c].raw
    BY <1>2, Going DEF CallSteps
  <2> HIDE DEF files
  <2>3. files.receipt = Nothing /\ now.raw \in Good
    BY <1>1, <1>2, <2>1, <2>2 DEF Receipted, Fits
  <2> QED BY <1>1, <1>2, <2>1, <2>2, <2>3, WritesOwn DEF AcceptText
<1>3. CASE Goes(c, "stop") /\ UNCHANGED stage
  <2>1. PICK now \in CallState :
          /\ coordinator' = [coordinator EXCEPT ![c] = now] /\ now.at = "stop"
          /\ now.index = i /\ now.tip = coordinator[c].tip
    BY <1>3, Going DEF CallSteps
  <2> QED BY <1>1, <1>3, <2>1, MovesOn DEF AcceptText, PilotSound, PilotShape
<1> QED BY <1>2, <1>3 DEF AcceptText

LEMMA SealStep ==
  ASSUME PilotSound, NEW c \in Coordinators, Seal(c)
  PROVE  PilotSound'
<1> DEFINE i == coordinator[c].index
           files == [stage[i] EXCEPT !.receipt = stage[i].submission]
<1>1. /\ Busy(c) /\ i \in StageId /\ stage[i] \in Directory /\ ~Receipted(i)
      /\ coordinator[c].raw \in Good /\ i = coordinator[c].tip + 1 /\ lockfile = c
  BY DEF Seal, Busy, PilotSound, PilotShape, CallHeld
<1>2. CASE Sealed(c) /\ stage' = [stage EXCEPT ![i] = files] /\ Goes(c, "told")
  <2>1. /\ stage[i].submission = coordinator[c].raw /\ stage[i].raw = coordinator[c].raw
        /\ stage[i].accepted = coordinator[c].raw /\ stage[i].submission \in Result
    BY <1>1, <1>2 DEF Sealed, Unmoved, Directory
  <2>2. /\ files \in Directory /\ files.made = stage[i].made
        /\ files.receipt = stage[i].submission /\ files.raw = stage[i].raw
        /\ files.accepted = stage[i].accepted /\ files.packet = stage[i].packet
    BY <1>1, <2>1 DEF Directory
  <2>3. PICK now \in CallState :
          /\ coordinator' = [coordinator EXCEPT ![c] = now] /\ now.at = "told"
          /\ now.index = i /\ now.tip = coordinator[c].tip
    BY <1>2, Going DEF CallSteps
  <2> HIDE DEF files
  <2>4. /\ now.at \notin {"rest", "gone", "dispatch", "spawn", "capture", "seal"}
        /\ UNCHANGED <<lockfile, anchor, spawned>>
    BY <2>3 DEF Seal
  <2>5. files.receipt \in Good /\ files.raw = files.receipt /\ files.accepted = files.receipt
    BY <1>1, <2>1, <2>2
  <2> QED BY <1>1, <1>2, <2>2, <2>3, <2>4, <2>5, WritesOwn
<1>3. CASE Goes(c, "stop") /\ UNCHANGED stage
  <2>1. PICK now \in CallState :
          /\ coordinator' = [coordinator EXCEPT ![c] = now] /\ now.at = "stop"
          /\ now.index = i /\ now.tip = coordinator[c].tip
    BY <1>3, Going DEF CallSteps
  <2> QED BY <1>1, <1>3, <2>1, MovesOn DEF Seal, PilotSound, PilotShape
<1> QED BY <1>2, <1>3 DEF Seal

(* The steps that touch no file of a stage.                                *)
LEMMA SpawnStep ==
  ASSUME PilotSound, NEW c \in Coordinators, Spawn(c)
  PROVE  PilotSound'
<1>1. PICK now \in CallState :
        /\ coordinator' = [coordinator EXCEPT ![c] = now] /\ now.at = "rest"
  BY Going DEF Spawn, CallSteps
<1>2. Busy(c) /\ coordinator[c].at = "spawn" /\ anchor' \in Nat
  BY DEF Spawn, Busy, PilotSound, PilotShape
<1> QED BY <1>1, <1>2, MovesOn DEF Spawn

LEMMA ReturnStep ==
  ASSUME PilotSound, NEW c \in Coordinators,
         Tell(c) \/ Raise(c) \/ Stop(c) \/ Unlock(c) \/ Kill(c) \/ Reopen(c)
  PROVE  PilotSound'
<1>1. Resting \in CallState /\ Resting.at = "rest"
  BY DEF Resting, CallState, CallSteps, Result
<1>2. anchor \in Nat /\ coordinator[c] \in CallState
  BY DEF PilotSound, PilotShape
<1>3. CASE Tell(c)
  <2> DEFINE now == [Resting EXCEPT !.tip = coordinator[c].index]
  <2>1. now \in CallState /\ now.at = "rest"
    BY <1>1, CallTypes DEF CallState
  <2>2. coordinator' = [coordinator EXCEPT ![c] = now] /\ anchor' \in Nat
    BY <1>3, CallTypes DEF Tell
  <2>3. Busy(c)
    BY <1>3 DEF Tell, Busy
  <2> HIDE DEF now
  <2> QED BY <1>3, <2>1, <2>2, <2>3, MovesOn DEF Tell
<1>4. CASE Raise(c) \/ Stop(c)
  <2>1. PICK to \in {"stop", "done"} : Goes(c, to) /\ UNCHANGED <<lockfile, stage, anchor, spawned>>
    BY <1>4 DEF Raise, Stop
  <2>2. PICK now \in CallState :
          /\ coordinator' = [coordinator EXCEPT ![c] = now] /\ now.at = to
          /\ now.index = coordinator[c].index /\ now.tip = coordinator[c].tip
    BY <2>1, Going DEF CallSteps
  <2>3. Busy(c)
    BY <1>4 DEF Raise, Stop, Busy
  <2>4. lockfile = c /\ coordinator[c].index = coordinator[c].tip + 1
    BY <2>3 DEF PilotSound, CallHeld
  <2> QED BY <1>2, <2>1, <2>2, <2>3, <2>4, MovesOn
<1>5. CASE Unlock(c)
  <2> DEFINE now == [Resting EXCEPT !.tip = coordinator[c].tip]
  <2>1. now \in CallState /\ now.at = "rest"
    BY <1>1, CallTypes DEF CallState
  <2>2. coordinator' = [coordinator EXCEPT ![c] = now] /\ Busy(c)
    BY <1>5 DEF Unlock, Busy
  <2> HIDE DEF now
  <2> QED BY <1>2, <1>5, <2>1, <2>2, MovesOn DEF Unlock
<1>6. CASE Kill(c)
  <2> DEFINE now == [Resting EXCEPT !.at = "gone"]
  <2>1. now \in CallState /\ now.at = "gone"
    BY <1>1 DEF CallState, CallSteps
  <2>2. coordinator' = [coordinator EXCEPT ![c] = now]
    BY <1>6 DEF Kill
  <2> HIDE DEF now
  <2> QED BY <1>2, <1>6, <2>1, <2>2, MovesOn DEF Kill
<1>7. CASE Reopen(c)
  <2> DEFINE now == [Resting EXCEPT !.tip = anchor]
  <2>1. now \in CallState /\ now.at = "rest"
    BY <1>1, <1>2 DEF CallState
  <2>2. coordinator' = [coordinator EXCEPT ![c] = now]
    BY <1>7 DEF Reopen
  <2> HIDE DEF now
  <2> QED BY <1>2, <1>7, <2>1, <2>2, MovesOn DEF Reopen
<1> QED BY <1>3, <1>4, <1>5, <1>6, <1>7

LEMMA SubmitStep ==
  ASSUME PilotSound, NEW i \in StageId, NEW text \in Submission, Submit(i, text)
  PROVE  PilotSound'
<1> DEFINE files == [stage[i] EXCEPT !.submission = text]
<1>1. /\ files \in Directory /\ files.made = stage[i].made /\ files.receipt = stage[i].receipt
      /\ files.raw = stage[i].raw /\ files.accepted = stage[i].accepted
      /\ files.packet = stage[i].packet
  BY DEF PilotSound, PilotShape, Directory, Result
<1>2. stage' = [stage EXCEPT ![i] = files] /\ UNCHANGED <<lockfile, coordinator, anchor, spawned>>
  BY DEF Submit
<1> HIDE DEF files
<1>3. \A j \in StageId :
        /\ stage'[j].made = stage[j].made /\ stage'[j].receipt = stage[j].receipt
        /\ stage'[j].raw = stage[j].raw /\ stage'[j].accepted = stage[j].accepted
        /\ stage'[j].packet = stage[j].packet
  BY <1>1, <1>2 DEF PilotSound, PilotShape
<1>4. PilotShape'
  BY <1>1, <1>2 DEF PilotSound, PilotShape
<1>5. \A j \in StageId : \A k \in 1 .. (j - 1) : k \in StageId
  BY LastStageNat DEF StageId
<1>6. \A c \in Coordinators : CallHeld(c)'
  BY <1>2, <1>3, <1>5 DEF PilotSound, CallHeld, Busy, Receipted
<1>7. \A j \in StageId : StageHeld(j)'
  BY <1>2, <1>3, <1>5 DEF PilotSound, StageHeld, Receipted
<1> QED BY <1>4, <1>6, <1>7 DEF PilotSound

LEMMA PilotNextSound ==
  ASSUME PilotSound, [PilotNext]_deskvars
  PROVE  PilotSound'
<1>1. CASE UNCHANGED deskvars
  BY <1>1 DEF deskvars, PilotSound, PilotShape, CallHeld, StageHeld, Busy, Receipted
<1>2. ASSUME NEW c \in Coordinators, NEW op \in {"prepare", "attach", "accept"}, Call(c, op)
      PROVE  PilotSound'
  BY <1>2, CallStep
<1>3. ASSUME NEW c \in Coordinators,
             \/ MakeStage(c) \/ Dispatch(c) \/ Attach(c) \/ Capture(c) \/ AcceptText(c) \/ Seal(c)
      PROVE  PilotSound'
  BY <1>3, MakeStageStep, DispatchStep, AttachStep, CaptureStep, AcceptTextStep, SealStep
<1>4. ASSUME NEW c \in Coordinators,
             \/ Spawn(c) \/ Tell(c) \/ Raise(c) \/ Stop(c) \/ Unlock(c) \/ Kill(c) \/ Reopen(c)
      PROVE  PilotSound'
  BY <1>4, SpawnStep, ReturnStep
<1>5. ASSUME NEW i \in StageId, NEW text \in Submission, Submit(i, text)
      PROVE  PilotSound'
  BY <1>5, SubmitStep
<1>6. CASE RemoveLock
  <2>1. \A c \in Coordinators : ~Busy(c)
    BY <1>6 DEF RemoveLock, PilotSound, CallHeld, Busy
  <2> QED BY <1>6, <2>1 DEF RemoveLock, PilotSound, PilotShape, CallHeld, StageHeld, Busy, Receipted
<1> QED BY <1>1, <1>2, <1>3, <1>4, <1>5, <1>6 DEF PilotNext

-----------------------------------------------------------------------------
(* What a call holds while it writes, and what the files of a stage vouch  *)
(* for (desktop_workflow.py, locked, prepare, attach, accept).             *)
THEOREM PilotHolds == PilotSpec => []PilotSound
<1>1. PilotSound /\ [PilotNext]_deskvars => PilotSound'
  BY PilotNextSound
<1> QED BY <1>1, PilotInitSound, PTL DEF PilotSpec

(* No stage is handed out for spawning twice, and none before every        *)
(* earlier one has its receipt (desktop_workflow.py, prepare), for any     *)
(* number of coordinators and stages and wherever calls fail.              *)
THEOREM SpawnedOnceHolds == PilotSpec => []SpawnedOnce
<1>1. PilotSound => SpawnedOnce
  BY DEF PilotSound, StageHeld, SpawnedOnce
<1> QED BY <1>1, PilotHolds, PTL

(* What was retained, checked and shown to later stages is the text a      *)
(* receipt names (desktop_workflow.py, accept and history), however often  *)
(* agents rewrite their files.                                             *)
THEOREM ReceiptsAgreeHolds == PilotSpec => []ReceiptsAgree
<1>1. PilotSound => ReceiptsAgree
  BY DEF PilotSound, StageHeld, ReceiptsAgree
<1> QED BY <1>1, PilotHolds, PTL

(* A tip is a stage's, or none: the stage a call was told to have sealed.  *)
TipHeld(c) ==
  LET now == coordinator[c] IN
  /\ now.tip \in 0 .. LastStage /\ now.index \in 0 .. (LastStage + 1)
  /\ now.at = "told" => now.index \in StageId

PilotTyped ==
  /\ lockfile \in Coordinators \cup {NoOwner} /\ stopped \in BOOLEAN /\ anchor \in 0 .. LastStage
  /\ \A c \in Coordinators : TipHeld(c)

LEMMA PilotTypes == PilotSound /\ PilotTyped => TypeOKPilot
<1> SUFFICES ASSUME PilotSound, PilotTyped PROVE TypeOKPilot
  OBVIOUS
<1>1. /\ stage \in [StageId -> Directory] /\ spawned \in [StageId -> Nat]
      /\ coordinator \in [Coordinators -> CallState]
  BY DEF PilotSound, PilotShape
<1>2. coordinator \in [Coordinators -> [at : CallSteps, tip : 0 .. LastStage,
                                        index : 0 .. (LastStage + 1), raw : Result]]
  <2>1. \A c \in Coordinators : coordinator[c] \in [at : CallSteps, tip : 0 .. LastStage,
                                                    index : 0 .. (LastStage + 1), raw : Result]
    BY <1>1 DEF PilotTyped, TipHeld, CallState
  <2> QED BY <1>1, <2>1
<1> QED BY <1>1, <1>2 DEF PilotTyped, TypeOKPilot, Directory, CallSteps

LEMMA PilotTypedNext ==
  ASSUME PilotSound, PilotTyped, [PilotNext]_deskvars
  PROVE  PilotTyped'
<1>1. LastStage \in Nat /\ StageId = 1 .. LastStage
  BY LastStageNat DEF StageId
<1>2. coordinator \in [Coordinators -> CallState]
  BY DEF PilotSound, PilotShape
<1>3. Resting \in CallState /\ Resting.tip = 0 /\ Resting.index = 0 /\ Resting.at = "rest"
  BY DEF Resting, CallState, CallSteps, Result
<1>4. ASSUME NEW c \in Coordinators, NEW to \in CallSteps, to = "told" => coordinator[c].index \in StageId,
             Goes(c, to)
      PROVE  \A d \in Coordinators : TipHeld(d)'
  BY <1>2, <1>4 DEF Goes, PilotTyped, TipHeld, CallState
<1>5. CASE UNCHANGED deskvars
  BY <1>5 DEF deskvars, PilotTyped, TipHeld
<1>6. ASSUME NEW c \in Coordinators, NEW op \in {"prepare", "attach", "accept"}, Call(c, op)
      PROVE  PilotTyped'
  BY <1>1, <1>2, <1>6 DEF Call, PilotTyped, TipHeld, CallState
<1>7. ASSUME NEW c \in Coordinators,
             MakeStage(c) \/ Dispatch(c) \/ Spawn(c) \/ Attach(c) \/ AcceptText(c) \/ Raise(c) \/ Stop(c)
      PROVE  PilotTyped'
  <2>1. \E to \in CallSteps : to # "told" /\ Goes(c, to)
    BY <1>7 DEF MakeStage, Dispatch, Spawn, Attach, AcceptText, Raise, Stop, CallSteps
  <2>2. /\ lockfile' \in Coordinators \cup {NoOwner} /\ stopped' \in BOOLEAN
        /\ anchor' \in 0 .. LastStage
    BY <1>7 DEF MakeStage, Dispatch, Spawn, Attach, AcceptText, Raise, Stop, PilotTyped
  <2> QED BY <1>4, <2>1, <2>2 DEF PilotTyped
<1>8. ASSUME NEW c \in Coordinators, Seal(c) PROVE PilotTyped'
  <2>1. coordinator[c].index \in StageId
    BY <1>8 DEF Seal, PilotSound, CallHeld
  <2>2. \E to \in CallSteps : Goes(c, to)
    BY <1>8 DEF Seal, CallSteps
  <2> QED BY <1>4, <1>8, <2>1, <2>2 DEF Seal, PilotTyped
<1>9. ASSUME NEW c \in Coordinators, Capture(c) PROVE PilotTyped'
  BY <1>2, <1>9 DEF Capture, PilotTyped, TipHeld, CallState
<1>10. ASSUME NEW c \in Coordinators, Tell(c) PROVE PilotTyped'
  <2>1. coordinator[c].index \in StageId
    BY <1>10 DEF Tell, PilotTyped, TipHeld
  <2> QED BY <1>1, <1>2, <1>3, <1>10, <2>1 DEF Tell, PilotTyped, TipHeld, CallState
<1>11. ASSUME NEW c \in Coordinators, Unlock(c) \/ Kill(c) \/ Reopen(c) PROVE PilotTyped'
  <2>1. coordinator[c].tip \in 0 .. LastStage /\ anchor \in 0 .. LastStage
    BY DEF PilotTyped, TipHeld
  <2>2. /\ coordinator'[c].tip \in 0 .. LastStage /\ coordinator'[c].index = 0
        /\ coordinator'[c].at # "told"
        /\ \A d \in Coordinators : d # c => coordinator'[d] = coordinator[d]
    <3>1. CASE Unlock(c)
      BY <1>1, <1>2, <2>1, <3>1 DEF Unlock, Resting
    <3>2. CASE Kill(c)
      BY <1>1, <1>2, <2>1, <3>2 DEF Kill, Resting
    <3>3. CASE Reopen(c)
      BY <1>1, <1>2, <2>1, <3>3 DEF Reopen, Resting
    <3> QED BY <1>11, <3>1, <3>2, <3>3
  <2>3. \A d \in Coordinators : TipHeld(d)'
    BY <1>1, <1>2, <2>2 DEF PilotTyped, TipHeld
  <2> QED BY <1>11, <2>3 DEF Unlock, Kill, Reopen, PilotTyped
<1>12. CASE RemoveLock \/ \E i \in StageId, text \in Submission : Submit(i, text)
  BY <1>12 DEF RemoveLock, Submit, PilotTyped, TipHeld
<1> QED BY <1>5, <1>6, <1>7, <1>8, <1>9, <1>10, <1>11, <1>12 DEF PilotNext

LEMMA PilotTypesHold == PilotSpec => []TypeOKPilot
<1>1. PilotInit => PilotTyped
  <2>1. 0 \in 0 .. LastStage /\ 0 \in 0 .. (LastStage + 1)
    BY LastStageNat
  <2>2. Resting.tip = 0 /\ Resting.index = 0 /\ Resting.at = "rest"
    BY DEF Resting
  <2> QED BY <2>1, <2>2 DEF PilotInit, PilotTyped, TipHeld
<1>2. PilotSound /\ PilotTyped /\ [PilotNext]_deskvars => PilotTyped'
  BY PilotTypedNext
<1> QED BY <1>1, <1>2, PilotHolds, PilotTypes, PTL DEF PilotSpec

-----------------------------------------------------------------------------
(* The stages of an evaluation arm: EvaluationRoles.                       *)

(* The paper a stage begins with is the last an author left: a review      *)
(* changes none, so a revision begins with the paper its reviewer saw, and *)
(* has answered every issue of the review before it.                       *)
Continued(s) ==
  /\ s \in {2, 4} /\ s <= Len(prior) => prior[s].paper = prior[s - 1].paper
  /\ s \in {3, 5} /\ s <= Len(prior) =>
       /\ prior[s].before = prior[s - 2].paper
       /\ \A issue \in prior[s - 1].issues : \E row \in prior[s].rows : row.issue = issue

RolesSound ==
  /\ TypeOKRoles
  /\ mechanism = "B0" => \A s \in DOMAIN prior : prior[s].issues = {}
  /\ \A s \in 2 .. 5 : Continued(s)
  /\ FollowedUp

-----------------------------------------------------------------------------
(* Which author's paper a stage works on.                                  *)
LEMMA PaperBefore ==
  /\ Before(1) = Original
  /\ Before(2) = prior[1].paper /\ Before(3) = prior[1].paper
  /\ Before(4) = prior[3].paper /\ Before(5) = prior[3].paper
  /\ Before(6) = prior[5].paper
<1>1. ASSUME NEW s \in 2 .. 6, NEW j \in 1 .. 5, j < s, Author(j),
             \A k \in 1 .. (s - 1) : Author(k) => k <= j
      PROVE  Before(s) = prior[j].paper
  <2> DEFINE those == {k \in 1 .. (s - 1) : Author(k)}
  <2>1. j \in those /\ \A k \in those : k <= j
    BY <1>1
  <2>2. \A k \in those : (\A i \in those : i <= k) => k = j
    BY <2>1
  <2>3. (CHOOSE k \in those : \A i \in those : i <= k) = j
    BY <2>1, <2>2
  <2> QED BY <2>1, <2>3 DEF Before
<1>2. Before(1) = Original
  BY DEF Before
<1>3. Author(1) /\ Author(3) /\ Author(5) /\ ~Author(2) /\ ~Author(4)
  BY DEF Author
<1>4. Before(2) = prior[1].paper
  BY <1>1, <1>3
<1>5. Before(3) = prior[1].paper
  BY <1>1, <1>3
<1>6. Before(4) = prior[3].paper
  BY <1>1, <1>3
<1>7. Before(5) = prior[3].paper
  BY <1>1, <1>3
<1>8. Before(6) = prior[5].paper
  BY <1>1, <1>3
<1> QED BY <1>2, <1>4, <1>5, <1>6, <1>7, <1>8

(* What a role may return is well typed, and arm B0 has no records.        *)
LEMMA TextTypes ==
  ASSUME NEW s \in 1 .. Final, NEW text \in RoleTexts(s)
  PROVE  /\ text.paper \in Papers \cup {Original} /\ text.issues \in SUBSET Issues
         /\ text.rows \in SUBSET Verdict /\ text.vague \in BOOLEAN
         /\ \A row \in text.corrections : row.of \in 1 .. 5
         /\ ~Structured => text.issues = {}
<1>1. \A corrections \in Corrections : \A row \in corrections : row.of \in 1 .. 5
  <2> DEFINE C == [of : {1, 3, 5}, report : {1, 2}, available : BOOLEAN]
  <2> TAKE corrections \in Corrections
  <2> TAKE row \in corrections
  <2>1. CASE corrections = {}
    BY <2>1
  <2>2. ASSUME NEW listed \in [1 .. MaxCorrections -> C],
               corrections = {listed[i] : i \in 1 .. MaxCorrections}
        PROVE  row.of \in 1 .. 5
    <3>1. row \in C
      BY <2>2
    <3> QED BY <3>1
  <2> QED BY <2>1, <2>2 DEF Corrections
<1>2. CASE Author(s)
  <2>1. text \in [paper : Papers, cites : {Original}, issues : {{}},
                  rows : IF Structured THEN Handled ELSE {{}}, vague : BOOLEAN,
                  corrections : Corrections]
    <3>1. ~Reviewing(s)
      BY <1>2 DEF Author, Reviewing
    <3> QED BY <1>2, <3>1 DEF RoleTexts
  <2> QED BY <1>1, <2>1 DEF Handled, Answers
<1>3. CASE ~Author(s) /\ Reviewing(s)
  <2>1. text \in [paper : {Original}, cites : {Original, Before(s)} \cup Papers,
                  issues : IF Structured THEN SUBSET Issues ELSE {{}}, rows : {{}},
                  vague : {FALSE}, corrections : Corrections]
    BY <1>3 DEF RoleTexts
  <2> QED BY <1>1, <2>1
<1>4. CASE ~Author(s) /\ ~Reviewing(s)
  <2>1. text \in [paper : {Original}, cites : {Original}, issues : {{}},
                  rows : IF Structured THEN Answers ELSE {{}}, vague : BOOLEAN,
                  corrections : Corrections]
    BY <1>4 DEF RoleTexts
  <2> QED BY <1>1, <2>1 DEF Answers
<1> QED BY <1>2, <1>3, <1>4

LEMMA CallHeldStep ==
  ASSUME RolesSound, Len(prior) < Final, NEW cue \in BOOLEAN,
         NEW text \in RoleTexts(Len(prior) + 1), Accept(text, cue)
  PROVE  RolesSound'
<1> DEFINE s == Len(prior) + 1
           new == [paper |-> Paper(s, text), before |-> Before(s), issues |-> text.issues,
                   rows |-> text.rows, vague |-> text.vague, corrected |-> Corrected(s, text),
                   eligible |-> Eligible(s, text, cue)]
<1>1. /\ prior \in Seq(RoleResult) /\ s \in 1 .. Final /\ Len(prior) \in Nat
      /\ prior' = Append(prior, new) /\ Fitting(s, text) /\ UNCHANGED <<mechanism, abandoned>>
      /\ mechanism \in {"B0", "B1"} /\ abandoned \in BOOLEAN
  BY LenProperties DEF RolesSound, TypeOKRoles, Accept, Final
<1>2. /\ text.paper \in Papers \cup {Original} /\ text.issues \in SUBSET Issues
      /\ text.rows \in SUBSET Verdict /\ text.vague \in BOOLEAN
      /\ \A row \in text.corrections : row.of \in 1 .. 5
      /\ ~Structured => text.issues = {}
  BY <1>1, TextTypes
<1>3. Before(s) \in Papers \cup {Original}
  <2>1. \A j \in 1 .. Len(prior) : prior[j].paper \in Papers \cup {Original}
    <3> TAKE j \in 1 .. Len(prior)
    <3>1. prior[j] \in RoleResult
      BY <1>1, ElementOfSeq
    <3> QED BY <3>1 DEF RoleResult
  <2> QED BY <1>1, <2>1, PaperBefore DEF Final
<1>4. new \in RoleResult
  <2>1. Paper(s, text) \in Papers \cup {Original}
    BY <1>2, <1>3 DEF Paper
  <2>2. Corrected(s, text) \in SUBSET (1 .. 5)
    BY <1>2 DEF Corrected
  <2>3. Eligible(s, text, cue) \in BOOLEAN
    BY DEF Eligible
  <2> HIDE DEF s
  <2> QED BY <1>2, <1>3, <2>1, <2>2, <2>3 DEF RoleResult
<1>5. /\ new.paper = Paper(s, text) /\ new.before = Before(s) /\ new.issues = text.issues
      /\ new.rows = text.rows /\ new.vague = text.vague /\ new.corrected = Corrected(s, text)
      /\ new.eligible = Eligible(s, text, cue)
  OBVIOUS
<1> HIDE DEF new
<1>6. /\ prior' \in Seq(RoleResult) /\ Len(prior') = s /\ prior'[s] = new
      /\ \A j \in 1 .. (s - 1) : prior'[j] = prior[j]
      /\ DOMAIN prior' = 1 .. s /\ DOMAIN prior = 1 .. (s - 1)
  BY <1>1, <1>4, AppendProperties
<1>7. TypeOKRoles'
  BY <1>1, <1>6 DEF TypeOKRoles
<1>8. mechanism' = "B0" => \A j \in DOMAIN prior' : prior'[j].issues = {}
  BY <1>1, <1>2, <1>5, <1>6 DEF RolesSound, Structured
<1> HIDE DEF s
<1>9. \A j \in 2 .. 5 : Continued(j)'
  <2> TAKE j \in 2 .. 5
  <2>1. CASE j < s
    <3>1. /\ prior'[j] = prior[j] /\ prior'[j - 1] = prior[j - 1]
          /\ j > 2 => prior'[j - 2] = prior[j - 2]
      BY <1>1, <1>6, <2>1
    <3>2. Continued(j) /\ (j <= Len(prior') <=> j <= Len(prior))
      BY <1>1, <1>6, <2>1 DEF RolesSound, s
    <3> QED BY <3>1, <3>2 DEF Continued
  <2>2. CASE j = s
    <3>1. /\ prior'[j] = new /\ prior'[j - 1] = prior[j - 1]
          /\ j > 2 => prior'[j - 2] = prior[j - 2]
      BY <1>1, <1>6, <2>2
    <3>2. j \in {2, 4} => new.paper = prior[j - 1].paper
      BY <1>5, <2>2, PaperBefore DEF Paper, Author
    <3>3. j \in {3, 5} => new.before = prior[j - 2].paper
      BY <1>5, <2>2, PaperBefore
    <3>4. j \in {3, 5} => \A issue \in prior[j - 1].issues : \E row \in new.rows : row.issue = issue
      <4> SUFFICES ASSUME j \in {3, 5}, NEW issue \in prior[j - 1].issues
                   PROVE  \E row \in new.rows : row.issue = issue
        OBVIOUS
      <4>1. Structured
        BY <1>1, <1>6, <2>2 DEF RolesSound, Structured
      <4>2. RowsFit(s, text)
        BY <1>1, <2>2, <4>1 DEF Fitting, Reviewing
      <4>3. Due(s) = Raised({j - 1})
        BY <2>2 DEF Due, Final
      <4>4. issue \in Raised({j - 1})
        BY DEF Raised
      <4> QED BY <1>5, <4>2, <4>3, <4>4 DEF RowsFit
    <3> QED BY <3>1, <3>2, <3>3, <3>4 DEF Continued
  <2>3. CASE j > s
    BY <1>1, <1>6, <2>3 DEF Continued
  <2> QED BY <1>1, <2>1, <2>2, <2>3
<1>10. FollowedUp'
  <2> SUFFICES ASSUME s = Final, new.eligible
               PROVE  /\ prior'[5].paper \notin Marked
                      /\ \A r \in {2, 4} : \A issue \in prior'[r].issues :
                           /\ \E row \in prior'[r + 1].rows : row.issue = issue
                           /\ prior'[r + 1].before = prior'[r].paper
                           /\ [issue |-> issue, settled |-> TRUE] \in prior'[Final].rows
                      /\ \A r \in {1, 3, 5} : prior'[r].vague => r \in prior'[Final].corrected
    BY <1>1, <1>6 DEF FollowedUp
  <2>1. \A j \in 1 .. 5 : prior'[j] = prior[j]
    BY <1>6 DEF Final
  <2>2. /\ Paper(s, text) \notin Marked /\ ~Flags(s, text, cue)
        /\ \A row \in text.rows : row.settled
    <3>1. Eligible(s, text, cue)
      BY <1>5
    <3>2. ~Reviewing(s)
      BY DEF Reviewing, Final
    <3> QED BY <3>1, <3>2 DEF Eligible
  <2>3. prior'[5].paper \notin Marked
    BY <2>1, <2>2, PaperBefore DEF Paper, Author, Final
  <2>4. ASSUME NEW r \in {2, 4}, NEW issue \in prior'[r].issues
        PROVE  /\ \E row \in prior'[r + 1].rows : row.issue = issue
               /\ prior'[r + 1].before = prior'[r].paper
               /\ [issue |-> issue, settled |-> TRUE] \in prior'[Final].rows
    <3>1. Continued(r) /\ Continued(r + 1) /\ r + 1 <= Len(prior)
      BY <1>1 DEF RolesSound, Final, s
    <3>2. /\ \E row \in prior'[r + 1].rows : row.issue = issue
          /\ prior'[r + 1].before = prior'[r].paper
      BY <1>1, <2>1, <2>4, <3>1 DEF Continued
    <3>3. Structured
      BY <1>1, <1>6, <2>1, <2>4 DEF RolesSound, Structured, Final
    <3>4. RowsFit(s, text)
      BY <1>1, <3>3 DEF Fitting, Reviewing, Final
    <3>5. Due(s) = Raised(1 .. 5)
      BY DEF Due, Final
    <3>6. issue \in Raised(1 .. 5)
      <4>1. prior[r].issues \in {prior[j].issues : j \in 1 .. 5}
        OBVIOUS
      <4>2. issue \in prior[r].issues
        BY <2>1, <2>4
      <4> QED BY <4>1, <4>2 DEF Raised
    <3>7. PICK row \in text.rows : row.issue = issue
      BY <3>4, <3>5, <3>6 DEF RowsFit
    <3>8. row \in Verdict /\ row.settled = TRUE
      BY <1>2, <2>2 DEF Verdict
    <3>9. row = [issue |-> issue, settled |-> TRUE]
      BY <3>7, <3>8 DEF Verdict
    <3> QED BY <1>5, <1>6, <3>2, <3>9
  <2>5. ASSUME NEW r \in {1, 3, 5}, prior'[r].vague
        PROVE  r \in prior'[Final].corrected
    <3>1. r \in 1 .. (s - 1) /\ Author(r) /\ prior[r].vague
      BY <2>1, <2>5 DEF Author, Final
    <3>2. r \in {row.of : row \in text.corrections}
      BY <2>2, <3>1 DEF Flags
    <3> QED BY <1>5, <1>6, <3>2 DEF Corrected
  <2> QED BY <2>3, <2>4, <2>5
<1> QED BY <1>7, <1>8, <1>9, <1>10 DEF RolesSound

LEMMA RolesNextSound == RolesSound /\ [RolesNext]_rolevars => RolesSound'
<1> SUFFICES ASSUME RolesSound, [RolesNext]_rolevars PROVE RolesSound'
  OBVIOUS
<1>1. ASSUME Len(prior) < Final, NEW text \in RoleTexts(Len(prior) + 1), NEW cue,
             cue \in IF text.vague THEN BOOLEAN ELSE {FALSE}, Accept(text, cue)
      PROVE  RolesSound'
  <2>1. cue \in BOOLEAN
    BY <1>1
  <2> QED BY <1>1, <2>1, CallHeldStep
<1>2. CASE Deny
  BY <1>2 DEF Deny, RolesSound, TypeOKRoles, Continued, FollowedUp
<1>3. CASE UNCHANGED rolevars
  BY <1>3 DEF rolevars, RolesSound, TypeOKRoles, Continued, FollowedUp
<1> QED BY <1>1, <1>2, <1>3 DEF RolesNext

LEMMA RolesHold == RolesSpec => []RolesSound
<1>1. RolesInit => RolesSound
  <2> SUFFICES ASSUME RolesInit PROVE RolesSound
    OBVIOUS
  <2>1. prior = <<>> /\ Len(prior) = 0 /\ DOMAIN prior = {} /\ prior \in Seq(RoleResult)
    BY DEF RolesInit
  <2>2. \A s \in 2 .. 5 : Continued(s)
    BY <2>1 DEF Continued
  <2>3. TypeOKRoles
    <3>1. mechanism \in {"B0", "B1"} /\ abandoned \in BOOLEAN
      BY DEF RolesInit
    <3> QED BY <2>1, <3>1 DEF TypeOKRoles, Final
  <2>4. FollowedUp
    BY <2>1 DEF FollowedUp, Final
  <2> QED BY <2>1, <2>2, <2>3, <2>4 DEF RolesSound
<1> QED BY <1>1, RolesNextSound, PTL DEF RolesSpec

(* An arm whose final result is eligible for release left nothing open:    *)
(* issues, unfinished references, doubtful words about the evidence.       *)
THEOREM FollowedUpHolds == RolesSpec => []FollowedUp
<1>1. RolesSound => FollowedUp
  BY DEF RolesSound
<1> QED BY <1>1, RolesHold, PTL
=============================================================================
