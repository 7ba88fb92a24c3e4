------------------------------ MODULE Accounts ------------------------------
(***************************************************************************)
(* Accounts, sign-in, sessions and sudo (internal/auth, internal/store/    *)
(* users.go and sessions.go, internal/api/accounts.go, sudo.go and me.go), *)
(* with the operator's reset commands in a second process (cmd/headboard/  *)
(* reset.go).  A request decides on the account and the grant read when it *)
(* arrived; its checks and its writes are separate statements.             *)
(***************************************************************************)
EXTENDS Naturals, FiniteSets

CONSTANTS
  Account,    \* identities that may sign in
  Local,      \* those that sign in with a password
  Token,      \* session tokens
  Worker,     \* requests being served at once
  NoSession,  \* no row for this token
  NoOne,      \* nobody, or no token
  MaxPin,     \* wrong PINs that lock an account: 5
  MaxLogin    \* failed sign-ins that block: 5

ASSUME LocalAccounts == Local \subseteq Account

ASSUME Limits == MaxLogin \in Nat \ {0} /\ IsFiniteSet(Worker)

ASSUME NobodyIsNoOne == NoOne \notin Account \union Token \union Worker

VARIABLES
  users,      \* the users table
  sessions,   \* the sessions table
  issued,     \* tokens handed out so far
  grants,     \* sudo_grants that have not expired
  pinLock,    \* accountLocks: who checks a secret of this account
  attempts,   \* Auth.logins: recent failures of this account from one address
  req         \* requests being served

vars == <<users, sessions, issued, grants, pinLock, attempts, req>>

-----------------------------------------------------------------------------
Role == {"owner", "admin", "network-admin", "auditor", "member"}
Admission == {"absent", "pending", "active", "rejected"}

\* A row of users, with a version for each secret.  A pin of 0 is no PIN;
\* since is the password the operator set last.
User == [role : Role, admission : Admission, password : Nat, since : Nat, pin : Nat,
         failures : Nat, locked : BOOLEAN, cred : Nat]

\* What a session holds; proof is the password it was opened with.
Session == [user : Account, cred : Nat, proof : Nat]

ASSUME SessionsExist == NoSession \notin Session

\* The account and the session as the request read them.
Request == [pc : {"idle", "login", "signed", "look", "count", "role", "admit", "password",
                  "check", "read", "compare", "pin", "grant", "reauth"},
            op : {"none", "sudo", "pin"},
            token : Token \union {NoOne}, who : Account \union {NoOne},
            row : User, data : Session \union {NoSession},
            target : Account \union {NoOne}, to : Role \union Admission]

(* Rows, sessions and requests stay well formed: a role is never written    *)
(* where a decision belongs, and counters and versions only count (SetRole, *)
(* SetAdmission, RecordPinFailure).                                         *)
TypeOK ==
  /\ users \in [Account -> User]
  /\ sessions \in [Token -> Session \union {NoSession}]
  /\ issued \subseteq Token
  /\ grants \in [Token -> Account \union {NoOne}]
  /\ pinLock \in [Account -> Worker \union {NoOne}]
  /\ attempts \in [Account -> Nat]
  /\ req \in [Worker -> Request]

-----------------------------------------------------------------------------
Unborn == [role |-> "member", admission |-> "absent", password |-> 0, since |-> 0, pin |-> 0,
           failures |-> 0, locked |-> FALSE, cred |-> 0]

Idle == [pc |-> "idle", op |-> "none", token |-> NoOne, who |-> NoOne, row |-> Unborn,
         data |-> NoSession, target |-> NoOne, to |-> "member"]

\* bootstrapOwner: a local owner, whose password is printed once.
Init ==
  /\ \E a \in Local :
       users = [b \in Account |->
                  IF b = a THEN [Unborn EXCEPT !.role = "owner", !.admission = "active", !.password = 1]
                  ELSE Unborn]
  /\ sessions = [s \in Token |-> NoSession]
  /\ issued = {}
  /\ grants = [s \in Token |-> NoOne]
  /\ pinLock = [a \in Account |-> NoOne]
  /\ attempts = [a \in Account |-> 0]
  /\ req = [w \in Worker |-> Idle]

Exists(a) == users[a].admission # "absent"

Owners == {a \in Account : Exists(a) /\ users[a].role = "owner"}

ManagesUsers(role) == role \in {"owner", "admin"}
NeedsPin(role) == role \in {"owner", "admin", "network-admin"}

\* CurrentUser: the session is there and is of the current credential.
Usable(s) == sessions[s] # NoSession /\ users[sessions[s].user].cred = sessions[s].cred

Step(w, new) == req' = [req EXCEPT ![w] = new]

-----------------------------------------------------------------------------
(* Signing in, from a browser that may hold a token already. *)

LoginAsk_AtMost(w, a, s) ==
  /\ req[w] = Idle
  /\ a \in Local /\ Exists(a)
  /\ attempts[a] <= MaxLogin
  /\ Step(w, [Idle EXCEPT !.pc = "login", !.who = a, !.token = s])
  /\ UNCHANGED <<users, sessions, issued, grants, pinLock, attempts>>

LoginAsk(w, a, s) ==
  /\ req[w] = Idle
  /\ a \in Local /\ Exists(a)
  /\ attempts[a] < MaxLogin
  /\ Step(w, [Idle EXCEPT !.pc = "login", !.who = a, !.token = s])
  /\ UNCHANGED <<users, sessions, issued, grants, pinLock, attempts>>

LoginFail(w) ==
  /\ req[w].pc = "login"
  /\ attempts' = [attempts EXCEPT ![req[w].who] = @ + 1]
  /\ Step(w, Idle)
  /\ UNCHANGED <<users, sessions, issued, grants, pinLock>>

\* The right password: the session will carry what this read returned.
LoginCheck(w) ==
  /\ req[w].pc = "login"
  /\ attempts' = [attempts EXCEPT ![req[w].who] = 0]
  /\ Step(w, [req[w] EXCEPT !.pc = "signed", !.row = users[req[w].who]])
  /\ UNCHANGED <<users, sessions, issued, grants, pinLock>>

\* UpsertLogin: the first account ever is an owner, any other waits.
Arriving(a) ==
  IF Exists(a) THEN users[a]
  ELSE IF \E b \in Account : Exists(b) THEN [Unborn EXCEPT !.admission = "pending"]
  ELSE [Unborn EXCEPT !.role = "owner", !.admission = "active"]

Callback(w, a, s) ==
  /\ req[w] = Idle
  /\ a \notin Local
  /\ users' = [users EXCEPT ![a] = Arriving(a)]
  /\ Step(w, [Idle EXCEPT !.pc = "signed", !.who = a, !.token = s, !.row = Arriving(a)])
  /\ UNCHANGED <<sessions, issued, grants, pinLock, attempts>>

Opened_Reread(w) ==
  [user |-> req[w].who, cred |-> users[req[w].who].cred, proof |-> req[w].row.password]

Opened(w) == [user |-> req[w].who, cred |-> req[w].row.cred, proof |-> req[w].row.password]

\* RenewToken, and the session written when the response goes out.
LoginCommit(w, new) ==
  /\ req[w].pc = "signed"
  /\ new \notin issued
  /\ issued' = issued \union {new}
  /\ sessions' = [s \in Token |-> IF s = new THEN Opened(w)
                                  ELSE IF s = req[w].token THEN NoSession ELSE sessions[s]]
  /\ Step(w, Idle)
  /\ UNCHANGED <<users, grants, pinLock, attempts>>

-----------------------------------------------------------------------------
(* A signed-in request: Middleware reads the session, the account and the  *)
(* grant, and everything up to the first write is decided on them.         *)

Caller(s) == users[sessions[s].user]
Sudo(s) == ~NeedsPin(Caller(s).role) \/ grants[s] = sessions[s].user
Ready(s) ==
  /\ Caller(s).admission = "active"
  /\ NeedsPin(Caller(s).role) => Caller(s).pin # 0

Arrived(s, pc) ==
  [Idle EXCEPT !.pc = pc, !.token = s, !.who = sessions[s].user, !.row = Caller(s),
               !.data = sessions[s]]

Enter(w, s, new) ==
  /\ req[w] = Idle
  /\ Usable(s)
  /\ Step(w, new)
  /\ UNCHANGED <<users, sessions, issued, grants, pinLock, attempts>>

EnterRole(w, s, a, r) ==
  /\ Enter(w, s, [Arrived(s, "look") EXCEPT !.target = a, !.to = r])
  /\ Ready(s) /\ Sudo(s) /\ ManagesUsers(Caller(s).role)

EnterAdmission(w, s, a, to) ==
  /\ Enter(w, s, [Arrived(s, "admit") EXCEPT !.target = a, !.to = to])
  /\ Ready(s) /\ Sudo(s) /\ ManagesUsers(Caller(s).role)
  /\ Exists(a)

EnterPassword(w, s) ==
  /\ Enter(w, s, Arrived(s, "password"))
  /\ Ready(s) /\ Sudo(s)
  /\ sessions[s].user \in Local

\* The first PIN needs the password, or a fresh sign-in at the provider.
EnterPin(w, s) ==
  /\ Enter(w, s, [Arrived(s, IF Caller(s).pin = 0 /\ sessions[s].user \in Local
                             THEN "check" ELSE "pin") EXCEPT !.op = "pin"])
  /\ Caller(s).admission = "active" /\ NeedsPin(Caller(s).role)
  /\ Caller(s).pin # 0 => Sudo(s)

EnterSudo(w, s) ==
  /\ Enter(w, s, [Arrived(s, "check") EXCEPT !.op = "sudo"])
  /\ Caller(s).admission = "active" /\ Caller(s).pin # 0

\* Going back to the provider: the session is written at the end.
EnterReauth(w, s) == Enter(w, s, Arrived(s, "reauth"))

-----------------------------------------------------------------------------
(* Roles and admission. *)

OwnerRule(w) ==
  "owner" \in {req[w].to, users[req[w].target].role} => req[w].row.role = "owner"

Demotes(w) == users[req[w].target].role = "owner" /\ req[w].to # "owner"

RoleLook(w) ==
  /\ req[w].pc = "look"
  /\ Step(w, IF Exists(req[w].target) /\ OwnerRule(w)
             THEN [req[w] EXCEPT !.pc = IF Demotes(w) THEN "count" ELSE "role"]
             ELSE Idle)
  /\ UNCHANGED <<users, sessions, issued, grants, pinLock, attempts>>

CountOwners(w) ==
  /\ req[w].pc = "count"
  /\ Step(w, IF Cardinality(Owners) > 1 THEN [req[w] EXCEPT !.pc = "role"] ELSE Idle)
  /\ UNCHANGED <<users, sessions, issued, grants, pinLock, attempts>>

SetRole(w) ==
  /\ req[w].pc = "role"
  /\ users' = [users EXCEPT ![req[w].target].role = req[w].to]
  /\ Step(w, Idle)
  /\ UNCHANGED <<sessions, issued, grants, pinLock, attempts>>

SetAdmission_Swapped(w) ==
  /\ req[w].pc = "admit"
  /\ users' = [users EXCEPT ![req[w].target].role = req[w].to]
  /\ Step(w, Idle)
  /\ UNCHANGED <<sessions, issued, grants, pinLock, attempts>>

SetAdmission(w) ==
  /\ req[w].pc = "admit"
  /\ users' = [users EXCEPT ![req[w].target].admission = req[w].to]
  /\ Step(w, Idle)
  /\ UNCHANGED <<sessions, issued, grants, pinLock, attempts>>

-----------------------------------------------------------------------------
(* Secrets. *)

\* The current password was compared with the one read on arrival.
ChangePassword(w) ==
  /\ req[w].pc = "password"
  /\ users' = [users EXCEPT ![req[w].who].password = @ + 1]
  /\ Step(w, Idle)
  /\ UNCHANGED <<sessions, issued, grants, pinLock, attempts>>

CheckLock_Shared(w) ==
  /\ req[w].pc = "check"
  /\ pinLock' = [pinLock EXCEPT ![req[w].who] = w]
  /\ Step(w, [req[w] EXCEPT !.pc = "read"])
  /\ UNCHANGED <<users, sessions, issued, grants, attempts>>

\* One check at a time for each account.
CheckLock(w) ==
  /\ req[w].pc = "check"
  /\ pinLock[req[w].who] = NoOne
  /\ pinLock' = [pinLock EXCEPT ![req[w].who] = w]
  /\ Step(w, [req[w] EXCEPT !.pc = "read"])
  /\ UNCHANGED <<users, sessions, issued, grants, attempts>>

Unlock(w) == pinLock' = [pinLock EXCEPT ![req[w].who] = NoOne]

\* The account as it is now: a lock set a moment ago applies.
CheckRead(w) ==
  /\ req[w].pc = "read"
  /\ IF users[req[w].who].locked
     THEN Step(w, Idle) /\ Unlock(w)
     ELSE Step(w, [req[w] EXCEPT !.pc = "compare", !.row = users[req[w].who]])
          /\ UNCHANGED pinLock
  /\ UNCHANGED <<users, sessions, issued, grants, attempts>>

\* RecordPinFailure: the count and the lock in one statement.
CheckWrong(w) ==
  /\ req[w].pc = "compare"
  /\ LET u == users[req[w].who] IN
       users' = [users EXCEPT ![req[w].who] =
                   [u EXCEPT !.failures = u.failures + 1,
                             !.locked = u.locked \/ u.failures + 1 >= MaxPin]]
  /\ Step(w, Idle) /\ Unlock(w)
  /\ UNCHANGED <<sessions, issued, grants, attempts>>

Forgiven(u) == [u EXCEPT !.failures = 0, !.locked = FALSE]

CheckRight(w) ==
  /\ req[w].pc = "compare"
  /\ req[w].op = "sudo" => req[w].row.pin # 0
  /\ users' = [users EXCEPT ![req[w].who] = Forgiven(@)]
  /\ Step(w, [req[w] EXCEPT !.pc = IF req[w].op = "sudo" THEN "grant" ELSE "pin"])
  /\ Unlock(w)
  /\ UNCHANGED <<sessions, issued, grants, attempts>>

WithPin(u) == [Forgiven(u) EXCEPT !.pin = @ + 1]

SetPin(w) ==
  /\ req[w].pc = "pin"
  /\ users' = [users EXCEPT ![req[w].who] = WithPin(@)]
  /\ Step(w, [req[w] EXCEPT !.pc = "grant"])
  /\ UNCHANGED <<sessions, issued, grants, pinLock, attempts>>

\* Too easy to guess.
PinRefused(w) ==
  /\ req[w].pc = "pin"
  /\ Step(w, Idle)
  /\ UNCHANGED <<users, sessions, issued, grants, pinLock, attempts>>

GrantSudo_InSession(w) ==
  /\ req[w].pc = "grant"
  /\ grants' = [grants EXCEPT ![req[w].token] = req[w].who]
  /\ sessions' = [sessions EXCEPT ![req[w].token] = req[w].data]
  /\ Step(w, Idle)
  /\ UNCHANGED <<users, issued, pinLock, attempts>>

\* In a table of its own: the session is not written.
GrantSudo(w) ==
  /\ req[w].pc = "grant"
  /\ grants' = [grants EXCEPT ![req[w].token] = req[w].who]
  /\ Step(w, Idle)
  /\ UNCHANGED <<users, sessions, issued, pinLock, attempts>>

EndSudo(s) ==
  /\ Usable(s)
  /\ grants[s] # NoOne
  /\ grants' = [grants EXCEPT ![s] = NoOne]
  /\ UNCHANGED <<users, sessions, issued, pinLock, attempts, req>>

-----------------------------------------------------------------------------
(* Sessions. *)

\* The middleware commits a modified session as the request loaded it.
CommitSession(w) ==
  /\ req[w].pc = "reauth"
  /\ sessions' = [sessions EXCEPT ![req[w].token] = req[w].data]
  /\ Step(w, Idle)
  /\ UNCHANGED <<users, issued, grants, pinLock, attempts>>

\* Destroy deletes the row at once; Cleanup deletes what has expired.
Logout(s) ==
  /\ sessions[s] # NoSession
  /\ sessions' = [sessions EXCEPT ![s] = NoSession]
  /\ UNCHANGED <<users, issued, grants, pinLock, attempts, req>>

-----------------------------------------------------------------------------
(* Time, the operator and the process. *)

LockExpires(a) ==
  /\ users[a].locked
  /\ users' = [users EXCEPT ![a].locked = FALSE]
  /\ UNCHANGED <<sessions, issued, grants, pinLock, attempts, req>>

AttemptsExpire(a) ==
  /\ attempts[a] # 0
  /\ attempts' = [attempts EXCEPT ![a] = 0]
  /\ UNCHANGED <<users, sessions, issued, grants, pinLock, req>>

GrantExpires(s) ==
  /\ grants[s] # NoOne
  /\ grants' = [grants EXCEPT ![s] = NoOne]
  /\ UNCHANGED <<users, sessions, issued, pinLock, attempts, req>>

ResetPassword(a) ==
  /\ a \in Local /\ Exists(a)
  /\ LET u == users[a] IN
       users' = [users EXCEPT ![a] = [u EXCEPT !.password = u.password + 1,
                                               !.since = u.password + 1, !.cred = u.cred + 1]]
  /\ UNCHANGED <<sessions, issued, grants, pinLock, attempts, req>>

WithoutPin(u) == [Forgiven(u) EXCEPT !.pin = 0, !.cred = u.cred + 1]

ResetPin(a) ==
  /\ Exists(a)
  /\ users' = [users EXCEPT ![a] = WithoutPin(@)]
  /\ UNCHANGED <<sessions, issued, grants, pinLock, attempts, req>>

\* HEADBOARD_ADMIN_RESET replaces a password and signs nobody out.
Restart(reset) ==
  /\ reset \in SUBSET {a \in Local : Exists(a)} /\ Cardinality(reset) <= 1
  /\ users' = [a \in Account |-> IF a \in reset THEN [users[a] EXCEPT !.password = @ + 1] ELSE users[a]]
  /\ pinLock' = [a \in Account |-> NoOne]
  /\ attempts' = [a \in Account |-> 0]
  /\ req' = [w \in Worker |-> Idle]
  /\ UNCHANGED <<sessions, issued, grants>>

-----------------------------------------------------------------------------
\* A request arrives, an operator acts or the process is replaced.
Arrival ==
  \/ \E w \in Worker, s \in Token \union {NoOne}, a \in Account :
       LoginAsk(w, a, s) \/ Callback(w, a, s)
  \/ \E w \in Worker, s \in Token :
       \/ \E a \in Account, r \in Role : EnterRole(w, s, a, r)
       \/ \E a \in Account, to \in {"active", "rejected"} : EnterAdmission(w, s, a, to)
       \/ EnterPassword(w, s) \/ EnterPin(w, s) \/ EnterSudo(w, s) \/ EnterReauth(w, s)
  \/ \E s \in Token : EndSudo(s) \/ Logout(s)

Operation ==
  \/ \E a \in Account : ResetPassword(a) \/ ResetPin(a)
  \/ \E reset \in SUBSET Local : Restart(reset)

\* What a request under way does next.
Serve(w) ==
  \/ LoginFail(w) \/ LoginCheck(w) \/ \E new \in Token : LoginCommit(w, new)
  \/ RoleLook(w) \/ CountOwners(w) \/ SetRole(w) \/ SetAdmission(w) \/ ChangePassword(w)
  \/ CheckLock(w) \/ CheckRead(w) \/ CheckWrong(w) \/ CheckRight(w)
  \/ SetPin(w) \/ PinRefused(w) \/ GrantSudo(w) \/ CommitSession(w)

Tick ==
  \/ \E a \in Account : LockExpires(a) \/ AttemptsExpire(a)
  \/ \E s \in Token : GrantExpires(s)

Next == Arrival \/ Operation \/ Tick \/ \E w \in Worker : Serve(w)

Spec == Init /\ [][Next]_vars

-----------------------------------------------------------------------------
(* "Every session this account had is signed out" (resetPassword): no       *)
(* session that works was opened with a password older than the one the     *)
(* operator set last, not even one whose sign-in was under way when the     *)
(* reset committed (LoginWithPassword, login, CurrentUser).                 *)
ResetEndsSessions ==
  \A s \in Token : Usable(s) => sessions[s].proof >= users[sessions[s].user].since

(* "guesses sent at once are counted one after another and the five-try     *)
(* lock holds" (accountLocks): while an account is locked no guess counts,  *)
(* wrong or right; only a new PIN or the operator changes the count.        *)
LockHolds ==
  [][\A a \in Account : users[a].locked =>
       \/ users'[a].failures = users[a].failures
       \/ users'[a].pin # users[a].pin
       \/ users'[a].cred # users[a].cred]_vars

(* The limiter is asked before the password is compared and told after      *)
(* (LoginWithPassword): attempts that pass it together are at most as many  *)
(* as are served at once, so the count stays that close to its limit.       *)
SignInsAreLimited ==
  \A a \in Account : attempts[a] < MaxLogin + Cardinality(Worker)

(* "if a logout deleted the session meanwhile, that commit would bring it   *)
(* back" (GrantSudo): nothing a request with a PIN does brings a session    *)
(* back; only a trip to the provider that was under way can.                *)
OnlySignInRevives ==
  [][\A s \in issued : ~Usable(s) /\ Usable(s)' =>
       \E w \in Worker : req[w].pc = "reauth" /\ req[w].token = s]_vars

(* "The last owner cannot be demoted.  Losing every owner means nobody can  *)
(* ever grant the role back" (setAccountRole): violated, because two        *)
(* demotions may both count before either writes.                           *)
AnOwnerRemains == Owners # {}

(* "Clear it from inside the container, and the person sets a new one at    *)
(* their next sign-in" (reset-pin): violated.  setPin asks whether there is *)
(* a PIN of the account it read on arrival, and a request of a session that *)
(* the reset has ended stores one afterwards.                               *)
NewPinsNeedSignIn ==
  [][\A w \in Worker : LET a == req[w].who IN
       req[w].pc = "pin" /\ users[a].pin = 0 /\ users'[a].pin # 0 =>
         req[w].data.cred = users[a].cred]_vars
=============================================================================
