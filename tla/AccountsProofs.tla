--------------------------- MODULE AccountsProofs ---------------------------
(***************************************************************************)
(* Proofs about Accounts, for any number of accounts, tokens and requests. *)
(***************************************************************************)
EXTENDS Accounts, FiniteSetTheorems, TLAPS

\* A request under way knows its account, and its target when it has one.
Fit(r) ==
  /\ r.pc # "idle" => r.who \in Account
  /\ r.pc \in {"look", "count", "role", "admit"} => r.target \in Account
  /\ r.pc \in {"look", "count", "role"} => r.to \in Role
  /\ r.pc = "admit" => r.to \in {"active", "rejected"}

Shape == \A w \in Worker : Fit(req[w])

-----------------------------------------------------------------------------
(* A step of one request leaves the others as they are (Step).             *)
LEMMA Stepped ==
  ASSUME TypeOK, Shape, NEW w \in Worker, NEW new \in Request, Fit(new), Step(w, new)
  PROVE  /\ req' \in [Worker -> Request]
         /\ \A v \in Worker : req'[v] = IF v = w THEN new ELSE req[v]
         /\ Shape'
<1>1. req' = [req EXCEPT ![w] = new] /\ req \in [Worker -> Request]
  BY DEF Step, TypeOK
<1>2. \A v \in Worker : req'[v] = IF v = w THEN new ELSE req[v]
  BY <1>1
<1>3. \A v \in Worker : Fit(req'[v])
  BY <1>2 DEF Shape
<1>4. req' \in [Worker -> Request]
  BY <1>1
<1> QED BY <1>2, <1>3, <1>4 DEF Shape

(* A request that arrives writes no account and no session, unless it is a *)
(* sign-in at the provider or a logout (Middleware only reads).            *)
LEMMA ArrivalsRead ==
  ASSUME Arrival
  PROVE  \/ UNCHANGED <<users, sessions>>
         \/ \E w \in Worker, a \in Account, s \in Token \union {NoOne} : Callback(w, a, s)
         \/ \E s \in Token : Logout(s) /\ UNCHANGED users
<1> DEFINE Quiet == UNCHANGED <<users, sessions>>
<1>1. ASSUME NEW w \in Worker, NEW s \in Token, NEW new, Enter(w, s, new) PROVE Quiet
  BY <1>1 DEF Enter
<1>2. ASSUME NEW w \in Worker, NEW s \in Token, NEW a \in Account, NEW to,
             EnterRole(w, s, a, to) \/ EnterAdmission(w, s, a, to)
      PROVE  Quiet
  BY <1>1, <1>2 DEF EnterRole, EnterAdmission
<1>3. ASSUME NEW w \in Worker, NEW s \in Token,
             EnterPassword(w, s) \/ EnterPin(w, s) \/ EnterSudo(w, s) \/ EnterReauth(w, s)
      PROVE  Quiet
  BY <1>1, <1>3 DEF EnterPassword, EnterPin, EnterSudo, EnterReauth
<1>4. ASSUME NEW w, NEW a, NEW s, LoginAsk(w, a, s) PROVE Quiet
  BY <1>4 DEF LoginAsk
<1>5. ASSUME NEW s \in Token, EndSudo(s) PROVE Quiet
  BY <1>5 DEF EndSudo
<1>6. ASSUME NEW s \in Token, Logout(s) PROVE UNCHANGED users
  BY <1>6 DEF Logout
<1> HIDE DEF Quiet
<1>7. \/ Quiet
      \/ \E w \in Worker, a \in Account, s \in Token \union {NoOne} : Callback(w, a, s)
      \/ \E s \in Token : Logout(s)
  BY <1>2, <1>3, <1>4, <1>5 DEF Arrival
<1> QED BY <1>6, <1>7 DEF Quiet

(* The request that is left when one is answered is well formed (Idle).    *)
LEMMA IdleFits == Idle \in Request /\ Fit(Idle) /\ Unborn \in User
  BY DEF Idle, Request, Fit, Unborn, User, Role, Admission

(* The row that a sign-in at the provider writes is a row (UpsertLogin).   *)
LEMMA ArrivingIsUser == ASSUME TypeOK, NEW a \in Account PROVE Arriving(a) \in User
  BY DEF TypeOK, Arriving, Unborn, User, Role, Admission

(* What a request reads on arrival is well formed (Middleware).            *)
LEMMA ArrivedFits ==
  ASSUME TypeOK, NEW s \in Token, Usable(s),
         NEW pc \in {"password", "check", "pin", "reauth"}, NEW op \in {"none", "sudo", "pin"}
  PROVE  [Arrived(s, pc) EXCEPT !.op = op] \in Request /\ Fit([Arrived(s, pc) EXCEPT !.op = op])
<1>1. sessions[s] \in Session /\ sessions[s].user \in Account /\ users[sessions[s].user] \in User
  BY DEF TypeOK, Usable, Session
<1> QED BY <1>1 DEF Arrived, Caller, Idle, Request, Fit, Role, Admission

(* The same for a request about another account (setAccountRole).          *)
LEMMA TargetFits ==
  ASSUME TypeOK, NEW s \in Token, Usable(s), NEW a \in Account,
         NEW pc \in {"look", "admit"}, NEW to,
         pc = "look" => to \in Role, pc = "admit" => to \in {"active", "rejected"}
  PROVE  /\ [Arrived(s, pc) EXCEPT !.target = a, !.to = to] \in Request
         /\ Fit([Arrived(s, pc) EXCEPT !.target = a, !.to = to])
<1>1. sessions[s] \in Session /\ sessions[s].user \in Account /\ users[sessions[s].user] \in User
  BY DEF TypeOK, Usable, Session
<1> QED BY <1>1 DEF Arrived, Caller, Idle, Request, Fit, Role, Admission

(* An action that only moves a request on keeps every table (RoleLook,     *)
(* CountOwners, LoginAsk).                                                  *)
LEMMA MovedOn ==
  ASSUME TypeOK, Shape, NEW w \in Worker, NEW new \in Request, Fit(new), Step(w, new),
         users' \in [Account -> User], sessions' \in [Token -> Session \union {NoSession}],
         issued' \subseteq Token, grants' \in [Token -> Account \union {NoOne}],
         pinLock' \in [Account -> Worker \union {NoOne}], attempts' \in [Account -> Nat]
  PROVE  TypeOK' /\ Shape'
  BY Stepped DEF TypeOK

(* A new row for one account leaves the table well formed (SetRole).       *)
LEMMA Written ==
  ASSUME TypeOK, NEW a, a \in Account, NEW u \in User, users' = [users EXCEPT ![a] = u]
  PROVE  users' \in [Account -> User]
  BY DEF TypeOK

(* A request that signs somebody in is well formed (login).                *)
LEMMA SigningFits ==
  ASSUME NEW r \in Request, NEW a \in Account, NEW s \in Token \union {NoOne}, NEW u \in User
  PROVE  /\ [r EXCEPT !.pc = "login", !.who = a, !.token = s] \in Request
         /\ Fit([r EXCEPT !.pc = "login", !.who = a, !.token = s])
         /\ [r EXCEPT !.pc = "signed", !.who = a, !.token = s, !.row = u] \in Request
         /\ Fit([r EXCEPT !.pc = "signed", !.who = a, !.token = s, !.row = u])
<1>1. /\ [r EXCEPT !.pc = "login", !.who = a, !.token = s] \in Request
      /\ [r EXCEPT !.pc = "signed", !.who = a, !.token = s, !.row = u] \in Request
  BY DEF Request
<1>2. Fit([r EXCEPT !.pc = "login", !.who = a, !.token = s])
  BY DEF Request, Fit
<1>3. Fit([r EXCEPT !.pc = "signed", !.who = a, !.token = s, !.row = u])
  BY DEF Request, Fit
<1> QED BY <1>1, <1>2, <1>3

(* Serving a sign-in keeps the tables and the requests well formed         *)
(* (LoginWithPassword, Callback, login).                                    *)
LEMMA SignInTyped ==
  ASSUME TypeOK, Shape,
         \E w \in Worker :
           \/ \E s \in Token \union {NoOne}, a \in Account : LoginAsk(w, a, s) \/ Callback(w, a, s)
           \/ LoginFail(w) \/ LoginCheck(w) \/ \E new \in Token : LoginCommit(w, new)
  PROVE  TypeOK' /\ Shape'
<1> PICK w \in Worker :
           \/ \E s \in Token \union {NoOne}, a \in Account : LoginAsk(w, a, s) \/ Callback(w, a, s)
           \/ LoginFail(w) \/ LoginCheck(w) \/ \E new \in Token : LoginCommit(w, new)
  OBVIOUS
<1> req[w] \in Request /\ Fit(req[w])
  BY DEF TypeOK, Shape
<1>1. ASSUME NEW s \in Token \union {NoOne}, NEW a \in Account, LoginAsk(w, a, s)
      PROVE  TypeOK' /\ Shape'
  <2> DEFINE new == [Idle EXCEPT !.pc = "login", !.who = a, !.token = s]
  <2>1. new \in Request /\ Fit(new)
    BY IdleFits, SigningFits
  <2>2. Step(w, new)
    BY <1>1 DEF LoginAsk
  <2> QED BY <1>1, <2>1, <2>2, MovedOn DEF LoginAsk, TypeOK
<1>2. ASSUME NEW s \in Token \union {NoOne}, NEW a \in Account, Callback(w, a, s)
      PROVE  TypeOK' /\ Shape'
  <2> DEFINE new == [Idle EXCEPT !.pc = "signed", !.who = a, !.token = s, !.row = Arriving(a)]
  <2>1. Arriving(a) \in User
    BY ArrivingIsUser
  <2>2. new \in Request /\ Fit(new)
    BY <2>1, IdleFits, SigningFits
  <2>3. Step(w, new) /\ users' = [users EXCEPT ![a] = Arriving(a)]
    BY <1>2 DEF Callback
  <2>4. users' \in [Account -> User]
    BY <2>1, <2>3, Written
  <2> QED BY <1>2, <2>2, <2>3, <2>4, MovedOn DEF Callback, TypeOK
<1>3. CASE LoginFail(w)
  <2>1. req[w].who \in Account /\ Step(w, Idle)
    BY <1>3 DEF LoginFail, Fit
  <2>2. attempts' \in [Account -> Nat]
    BY <1>3, <2>1 DEF LoginFail, TypeOK
  <2> QED BY <1>3, <2>1, <2>2, IdleFits, MovedOn DEF LoginFail, TypeOK
<1>4. CASE LoginCheck(w)
  <2> DEFINE new == [req[w] EXCEPT !.pc = "signed", !.row = users[req[w].who]]
  <2>1. req[w].who \in Account /\ Step(w, new)
    BY <1>4 DEF LoginCheck, Fit
  <2>2. users[req[w].who] \in User
    BY <2>1 DEF TypeOK
  <2>3. new \in Request /\ Fit(new)
    BY <2>1, <2>2 DEF Request, Fit
  <2>4. attempts' \in [Account -> Nat]
    BY <1>4, <2>1 DEF LoginCheck, TypeOK
  <2> QED BY <1>4, <2>1, <2>3, <2>4, MovedOn DEF LoginCheck, TypeOK
<1>5. ASSUME NEW s \in Token, LoginCommit(w, s)
      PROVE  TypeOK' /\ Shape'
  <2>1. req[w].who \in Account /\ Step(w, Idle)
    BY <1>5 DEF LoginCommit, Fit
  <2>2. Opened(w) \in Session
    BY <2>1 DEF Opened, Session, Request, User
  <2>3. sessions' \in [Token -> Session \union {NoSession}] /\ issued' \subseteq Token
    BY <1>5, <2>2 DEF LoginCommit, TypeOK
  <2> QED BY <1>5, <2>1, <2>3, IdleFits, MovedOn DEF LoginCommit, TypeOK
<1> QED BY <1>1, <1>2, <1>3, <1>4, <1>5

(* So does the arrival of a signed-in request (Middleware, requireSudo).   *)
LEMMA EntryTyped ==
  ASSUME TypeOK, Shape, NEW w \in Worker, NEW s \in Token,
         \/ \E a \in Account, r \in Role : EnterRole(w, s, a, r)
         \/ \E a \in Account, to \in {"active", "rejected"} : EnterAdmission(w, s, a, to)
         \/ EnterPassword(w, s) \/ EnterPin(w, s) \/ EnterSudo(w, s) \/ EnterReauth(w, s)
  PROVE  TypeOK' /\ Shape'
<1>0. ASSUME NEW new \in Request, Fit(new), Enter(w, s, new) PROVE TypeOK' /\ Shape'
  BY <1>0, MovedOn DEF Enter, TypeOK
<1>1. ASSUME NEW a \in Account, NEW r \in Role, EnterRole(w, s, a, r) PROVE TypeOK' /\ Shape'
  BY <1>0, <1>1, TargetFits DEF EnterRole, Enter
<1>2. ASSUME NEW a \in Account, NEW to \in {"active", "rejected"}, EnterAdmission(w, s, a, to)
      PROVE  TypeOK' /\ Shape'
  BY <1>0, <1>2, TargetFits DEF EnterAdmission, Enter
<1>3. ASSUME NEW pc \in {"password", "check", "pin", "reauth"}, Usable(s)
      PROVE  Arrived(s, pc) \in Request /\ Fit(Arrived(s, pc))
  <2>1. sessions[s] \in Session /\ sessions[s].user \in Account /\ users[sessions[s].user] \in User
    BY <1>3 DEF TypeOK, Usable, Session
  <2> QED BY <2>1 DEF Arrived, Caller, Idle, Request, Fit, Role, Admission
<1>4. CASE EnterPassword(w, s)
  BY <1>0, <1>3, <1>4 DEF EnterPassword, Enter
<1>5. CASE EnterPin(w, s)
  <2>1. PICK pc \in {"check", "pin"} : Enter(w, s, [Arrived(s, pc) EXCEPT !.op = "pin"])
    BY <1>5 DEF EnterPin
  <2>2. Usable(s)
    BY <2>1 DEF Enter
  <2> QED BY <1>0, <2>1, <2>2, ArrivedFits
<1>6. CASE EnterSudo(w, s)
  BY <1>0, <1>6, ArrivedFits DEF EnterSudo, Enter
<1>7. CASE EnterReauth(w, s)
  BY <1>0, <1>3, <1>7 DEF EnterReauth, Enter
<1> QED BY <1>1, <1>2, <1>4, <1>5, <1>6, <1>7

(* A row stays a row when the count is forgiven, a PIN is set or the       *)
(* operator resets a secret (ResetPinFailures, SetPin, resetCredential).    *)
LEMMA RowKept ==
  ASSUME NEW u \in User
  PROVE  /\ Forgiven(u) \in User
         /\ [u EXCEPT !.password = @ + 1] \in User
         /\ WithPin(u) \in User
         /\ WithoutPin(u) \in User
         /\ [u EXCEPT !.password = u.password + 1, !.since = u.password + 1, !.cred = u.cred + 1] \in User
         /\ [u EXCEPT !.locked = FALSE] \in User
<1>1. Forgiven(u) \in User
  BY DEF User, Forgiven
<1>0. u.password + 1 \in Nat /\ u.cred + 1 \in Nat /\ 0 \in Nat
  BY DEF User
<1>2. [u EXCEPT !.password = @ + 1] \in User
  BY DEF User
<1>3. WithPin(u) \in User /\ WithoutPin(u) \in User
  <2>1. ASSUME NEW v \in User, NEW n \in Nat, NEW m \in Nat
        PROVE  [v EXCEPT !.pin = n] \in User /\ [v EXCEPT !.pin = n, !.cred = m] \in User
    BY DEF User
  <2>2. Forgiven(u).pin + 1 \in Nat
    BY <1>1 DEF User
  <2>3. WithPin(u) \in User
    BY <1>1, <2>1, <2>2 DEF WithPin
  <2>4. WithoutPin(u) \in User
    BY <1>0, <1>1, <2>1 DEF WithoutPin
  <2> QED BY <2>3, <2>4
<1>4. [u EXCEPT !.password = u.password + 1, !.since = u.password + 1, !.cred = u.cred + 1] \in User
  <2>1. ASSUME NEW n \in Nat, NEW m \in Nat
        PROVE  [u EXCEPT !.password = n, !.since = n, !.cred = m] \in User
    BY DEF User
  <2> QED BY <1>0, <2>1
<1>5. [u EXCEPT !.locked = FALSE] \in User
  BY DEF User
<1> QED BY <1>1, <1>2, <1>3, <1>4, <1>5

LEMMA UserWith ==
  ASSUME NEW u \in User
  PROVE  /\ \A r \in Role : [u EXCEPT !.role = r] \in User
         /\ \A a \in Admission : [u EXCEPT !.admission = a] \in User
BY DEF User

(* So does everything that changes roles and admission (setAccountRole).   *)
LEMMA RolesTyped ==
  ASSUME TypeOK, Shape, NEW w \in Worker,
         RoleLook(w) \/ CountOwners(w) \/ SetRole(w) \/ SetAdmission(w) \/ ChangePassword(w)
  PROVE  TypeOK' /\ Shape'
<1> req[w] \in Request /\ Fit(req[w])
  BY DEF TypeOK, Shape
<1>1. CASE RoleLook(w)
  <2>1. \A pc \in {"count", "role"} : [req[w] EXCEPT !.pc = pc] \in Request
    BY DEF Request
  <2>2. \A pc \in {"count", "role"} : Fit([req[w] EXCEPT !.pc = pc])
    BY <1>1 DEF RoleLook, Fit, Request
  <2>3. PICK new \in Request : Fit(new) /\ Step(w, new)
    BY <1>1, <2>1, <2>2, IdleFits DEF RoleLook
  <2> QED BY <1>1, <2>3, MovedOn DEF RoleLook, TypeOK
<1>2. CASE CountOwners(w)
  <2>1. [req[w] EXCEPT !.pc = "role"] \in Request
    BY DEF Request
  <2>2. Fit([req[w] EXCEPT !.pc = "role"])
    BY <1>2 DEF CountOwners, Fit, Request
  <2>3. PICK new \in Request : Fit(new) /\ Step(w, new)
    BY <1>2, <2>1, <2>2, IdleFits DEF CountOwners
  <2> QED BY <1>2, <2>3, MovedOn DEF CountOwners, TypeOK
<1>3. CASE SetRole(w)
  <2>1. req[w].target \in Account /\ req[w].to \in Role /\ Step(w, Idle)
    BY <1>3 DEF SetRole, Fit
  <2>2. users' = [users EXCEPT ![req[w].target] = [users[req[w].target] EXCEPT !.role = req[w].to]]
    BY <1>3 DEF SetRole
  <2>3. [users[req[w].target] EXCEPT !.role = req[w].to] \in User
    <3>1. users[req[w].target] \in User
      BY <2>1 DEF TypeOK
    <3> QED  BY <2>1, <3>1, UserWith, Zenon
  <2>4. users' \in [Account -> User]
    BY <2>1, <2>2, <2>3, Written
  <2> QED BY <1>3, <2>1, <2>4, IdleFits, MovedOn DEF SetRole, TypeOK
<1>4. CASE SetAdmission(w)
  <2>1. req[w].target \in Account /\ req[w].to \in Admission /\ Step(w, Idle)
    BY <1>4 DEF SetAdmission, Fit, Admission
  <2>2. users' = [users EXCEPT ![req[w].target] = [users[req[w].target] EXCEPT !.admission = req[w].to]]
    BY <1>4 DEF SetAdmission
  <2>3. [users[req[w].target] EXCEPT !.admission = req[w].to] \in User
    <3>1. users[req[w].target] \in User
      BY <2>1 DEF TypeOK
    <3> QED  BY <2>1, <3>1, UserWith, Zenon
  <2>4. users' \in [Account -> User]
    BY <2>1, <2>2, <2>3, Written
  <2> QED BY <1>4, <2>1, <2>4, IdleFits, MovedOn DEF SetAdmission, TypeOK
<1>5. CASE ChangePassword(w)
  <2>1. req[w].who \in Account /\ Step(w, Idle)
    BY <1>5 DEF ChangePassword, Fit
  <2>2. users' = [users EXCEPT ![req[w].who] = [users[req[w].who] EXCEPT !.password = @ + 1]]
    BY <1>5 DEF ChangePassword
  <2>3. [users[req[w].who] EXCEPT !.password = @ + 1] \in User
    BY <2>1 DEF TypeOK, User
  <2>4. users' \in [Account -> User]
    BY <2>1, <2>2, <2>3, Written
  <2> QED BY <1>5, <2>1, <2>4, IdleFits, MovedOn DEF ChangePassword, TypeOK
<1> QED BY <1>1, <1>2, <1>3, <1>4, <1>5

(* ... and every check of a secret (check, setPin, grant).                 *)
LEMMA SecretsTyped ==
  ASSUME TypeOK, Shape, NEW w \in Worker,
         \/ CheckLock(w) \/ CheckRead(w) \/ CheckWrong(w) \/ CheckRight(w)
         \/ SetPin(w) \/ PinRefused(w) \/ GrantSudo(w) \/ CommitSession(w)
  PROVE  TypeOK' /\ Shape'
<1> req[w] \in Request /\ Fit(req[w])
  BY DEF TypeOK, Shape
<1>0. req[w].who \in Account /\ users[req[w].who] \in User /\ req[w].pc \in
        {"check", "read", "compare", "pin", "grant", "reauth"}
  <2>1. req[w].who \in Account
    BY DEF Fit, CheckLock, CheckRead, CheckWrong, CheckRight, SetPin, PinRefused, GrantSudo, CommitSession
  <2> QED BY <2>1 DEF TypeOK, CheckLock, CheckRead, CheckWrong, CheckRight, SetPin, PinRefused, GrantSudo, CommitSession
<1>1. \A pc \in {"read", "compare", "pin", "grant"}, u \in User :
        /\ [req[w] EXCEPT !.pc = pc] \in Request /\ Fit([req[w] EXCEPT !.pc = pc])
        /\ [req[w] EXCEPT !.pc = pc, !.row = u] \in Request /\ Fit([req[w] EXCEPT !.pc = pc, !.row = u])
  <2> TAKE pc \in {"read", "compare", "pin", "grant"}, u \in User
  <2>1. [req[w] EXCEPT !.pc = pc] \in Request
    BY DEF Request
  <2>4. \A r \in Request : [r EXCEPT !.row = u] \in Request
    BY DEF Request
  <2>5. [req[w] EXCEPT !.pc = pc, !.row = u] = [[req[w] EXCEPT !.pc = pc] EXCEPT !.row = u]
    BY DEF Request
  <2>2. Fit([req[w] EXCEPT !.pc = pc])
    BY <1>0 DEF Request, Fit
  <2>3. Fit([req[w] EXCEPT !.pc = pc, !.row = u])
    BY <1>0 DEF Request, Fit
  <2> QED BY <2>1, <2>2, <2>3, <2>4, <2>5
<1>2. /\ [pinLock EXCEPT ![req[w].who] = w] \in [Account -> Worker \union {NoOne}]
      /\ [pinLock EXCEPT ![req[w].who] = NoOne] \in [Account -> Worker \union {NoOne}]
  BY DEF TypeOK
<1>3. CASE CheckLock(w)
  BY <1>0, <1>1, <1>2, <1>3, MovedOn DEF CheckLock, TypeOK
<1>4. CASE CheckRead(w)
  <2>1. PICK new \in Request : Fit(new) /\ Step(w, new)
    BY <1>0, <1>1, <1>4, IdleFits DEF CheckRead
  <2>2. pinLock' \in [Account -> Worker \union {NoOne}]
    BY <1>2, <1>4 DEF CheckRead, Unlock, TypeOK
  <2> QED BY <1>4, <2>1, <2>2, MovedOn DEF CheckRead, TypeOK
<1>5. CASE CheckWrong(w)
  <2> DEFINE u == users[req[w].who]
  <2>1. u.failures + 1 \in Nat /\ (u.locked \/ u.failures + 1 >= MaxPin) \in BOOLEAN
    BY <1>0 DEF User
  <2>2. [u EXCEPT !.failures = u.failures + 1, !.locked = u.locked \/ u.failures + 1 >= MaxPin] \in User
    BY <1>0, <2>1 DEF User
  <2>3. users' \in [Account -> User]
    BY <1>0, <1>5, <2>2, Written DEF CheckWrong
  <2> QED BY <1>2, <1>5, <2>3, IdleFits, MovedOn DEF CheckWrong, Unlock, TypeOK
<1>6. CASE CheckRight(w)
  <2>1. PICK new \in Request : Fit(new) /\ Step(w, new)
    BY <1>0, <1>1, <1>6 DEF CheckRight
  <2>2. Forgiven(users[req[w].who]) \in User
    BY <1>0 DEF Forgiven, User
  <2>3. users' \in [Account -> User]
    BY <1>0, <1>6, <2>2, Written DEF CheckRight
  <2> QED BY <1>2, <1>6, <2>1, <2>3, MovedOn DEF CheckRight, Unlock, TypeOK
<1>7. CASE SetPin(w)
  <2>1. WithPin(users[req[w].who]) \in User
    BY <1>0, RowKept
  <2>2. users' = [users EXCEPT ![req[w].who] = WithPin(users[req[w].who])]
    BY <1>7 DEF SetPin
  <2>3. users' \in [Account -> User]
    BY <1>0, <2>1, <2>2, Written
  <2> QED BY <1>0, <1>1, <1>7, <2>3, MovedOn DEF SetPin, TypeOK
<1>8. CASE PinRefused(w)
  BY <1>8, IdleFits, MovedOn DEF PinRefused, TypeOK
<1>9. CASE GrantSudo(w)
  <2>1. grants' \in [Token -> Account \union {NoOne}]
    BY <1>0, <1>9 DEF GrantSudo, TypeOK
  <2> QED BY <1>9, <2>1, IdleFits, MovedOn DEF GrantSudo, TypeOK
<1>10. CASE CommitSession(w)
  <2>1. sessions' \in [Token -> Session \union {NoSession}]
    BY <1>10 DEF CommitSession, TypeOK, Request
  <2> QED BY <1>10, <2>1, IdleFits, MovedOn DEF CommitSession, TypeOK
<1> QED BY <1>3, <1>4, <1>5, <1>6, <1>7, <1>8, <1>9, <1>10

(* ... and time, the operator and a restart (resetCredential,              *)
(* bootstrapOwner), a logout and the end of sudo.                          *)
LEMMA OtherTyped ==
  ASSUME TypeOK, Shape,
         \/ \E s \in Token : EndSudo(s) \/ Logout(s) \/ GrantExpires(s)
         \/ \E a \in Account : LockExpires(a) \/ AttemptsExpire(a) \/ ResetPassword(a) \/ ResetPin(a)
         \/ \E reset \in SUBSET Local : Restart(reset)
  PROVE  TypeOK' /\ Shape'
<1>1. CASE \E s \in Token : EndSudo(s) \/ Logout(s) \/ GrantExpires(s)
  BY <1>1 DEF TypeOK, Shape, EndSudo, Logout, GrantExpires
<1>2. ASSUME NEW a \in Account, AttemptsExpire(a) PROVE TypeOK' /\ Shape'
  BY <1>2 DEF TypeOK, Shape, AttemptsExpire
<1>3. ASSUME NEW a \in Account, NEW u \in User, users' = [users EXCEPT ![a] = u],
             UNCHANGED <<sessions, issued, grants, pinLock, attempts, req>>
      PROVE  TypeOK' /\ Shape'
  BY <1>3, Written DEF TypeOK, Shape
<1>4. ASSUME NEW a \in Account, LockExpires(a) PROVE TypeOK' /\ Shape'
  <2>1. [users[a] EXCEPT !.locked = FALSE] \in User
    BY RowKept DEF TypeOK
  <2>2. users' = [users EXCEPT ![a] = [users[a] EXCEPT !.locked = FALSE]]
    BY <1>4 DEF LockExpires
  <2> QED BY <1>3, <1>4, <2>1, <2>2 DEF LockExpires
<1>5. ASSUME NEW a \in Account, ResetPassword(a) PROVE TypeOK' /\ Shape'
  <2> DEFINE u == users[a]
  <2>1. [u EXCEPT !.password = u.password + 1, !.since = u.password + 1, !.cred = u.cred + 1] \in User
    BY RowKept DEF TypeOK
  <2> QED BY <1>3, <1>5, <2>1 DEF ResetPassword
<1>6. ASSUME NEW a \in Account, ResetPin(a) PROVE TypeOK' /\ Shape'
  <2>1. WithoutPin(users[a]) \in User
    BY RowKept DEF TypeOK
  <2> QED BY <1>3, <1>6, <2>1 DEF ResetPin
<1>7. ASSUME NEW reset \in SUBSET Local, Restart(reset) PROVE TypeOK' /\ Shape'
  <2>1. \A a \in Account : [users[a] EXCEPT !.password = @ + 1] \in User /\ users[a] \in User
    BY RowKept DEF TypeOK
  <2>2. users' \in [Account -> User] /\ attempts' \in [Account -> Nat]
    BY <1>7, <2>1 DEF Restart
  <2>3. req' \in [Worker -> Request] /\ \A w \in Worker : req'[w] = Idle
    BY <1>7, IdleFits DEF Restart
  <2>4. pinLock' \in [Account -> Worker \union {NoOne}]
    BY <1>7 DEF Restart
  <2> QED BY <1>7, <2>2, <2>3, <2>4, IdleFits DEF Restart, TypeOK, Shape
<1> QED BY <1>1, <1>2, <1>4, <1>5, <1>6, <1>7

(* Every step is one of those (Next).                                      *)
LEMMA TypedStep ==
  ASSUME TypeOK, Shape, [Next]_vars
  PROVE  TypeOK' /\ Shape'
<1>1. CASE Arrival
  BY <1>1, SignInTyped, EntryTyped, OtherTyped DEF Arrival
<1>2. CASE Operation
  BY <1>2, OtherTyped DEF Operation
<1>3. CASE Tick
  BY <1>3, OtherTyped DEF Tick
<1>4. CASE \E w \in Worker : Serve(w)
  BY <1>4, SignInTyped, RolesTyped, SecretsTyped DEF Serve
<1>5. CASE UNCHANGED vars
  BY <1>5 DEF vars, TypeOK, Shape
<1> QED BY <1>1, <1>2, <1>3, <1>4, <1>5 DEF Next

(* At the start there is one owner and nobody is served (bootstrapOwner).  *)
LEMMA TypedInit == ASSUME Init PROVE TypeOK /\ Shape
<1> DEFINE owner == [Unborn EXCEPT !.role = "owner", !.admission = "active", !.password = 1]
<1>1. owner \in User
  BY DEF User, Role, Admission, Unborn
<1>2. users \in [Account -> User]
  BY <1>1, IdleFits DEF Init
<1>3. req \in [Worker -> Request] /\ Shape
  BY IdleFits DEF Init, Shape
<1> QED BY <1>2, <1>3 DEF Init, TypeOK

-----------------------------------------------------------------------------
\* A request checks a secret under the account's lock, and not while sudo is
\* locked.
LockShape ==
  \A w \in Worker :
    /\ req[w].pc \in {"read", "compare"} => pinLock[req[w].who] = w
    /\ req[w].pc = "compare" => ~users[req[w].who].locked

\* What a session holds is not ahead of the account, and what is of the
\* account's current version was proved with a password that still counts.
SoundIn(table, data) ==
  data # NoSession =>
    /\ table[data.user].admission # "absent"
    /\ data.cred <= table[data.user].cred
    /\ data.cred = table[data.user].cred => data.proof >= table[data.user].since

\* The same of an account read at sign-in.
SignedIn(table, r) ==
  r.pc = "signed" =>
    /\ r.row.cred <= table[r.who].cred
    /\ r.row.cred = table[r.who].cred => r.row.password >= table[r.who].since

KnownIn(table, r) == r.pc # "idle" => table[r.who].admission # "absent"

\* The operator's password is the oldest that counts; nothing happened to an
\* account before it exists.
Row(u) ==
  /\ u.password >= u.since
  /\ u.admission = "absent" => u.cred = 0 /\ u.since = 0 /\ ~u.locked

Kept ==
  /\ \A a \in Account : Row(users[a])
  /\ \A s \in Token : SoundIn(users, sessions[s])
  /\ \A w \in Worker : /\ SoundIn(users, req[w].data)
                       /\ SignedIn(users, req[w])
                       /\ KnownIn(users, req[w])

IInv == TypeOK /\ Shape /\ LockShape /\ Kept

\* From one row to the next: versions do not go back, and one version is one
\* reset.
Onward(u, v) ==
  /\ u.admission # "absent" => v.admission # "absent"
  /\ v.cred >= u.cred
  /\ v.cred = u.cred => v.since = u.since

-----------------------------------------------------------------------------
(* A request's own step, seen from the table of requests (Step).           *)
LEMMA OneMoves ==
  ASSUME TypeOK, NEW w \in Worker, NEW new, Step(w, new)
  PROVE  \A v \in Worker : req'[v] = IF v = w THEN new ELSE req[v]
  BY DEF TypeOK, Step

(* Each way a request or time changes a row leaves the version and the     *)
(* reset it belongs to alone (SetPassword, SetPin, RecordPinFailure).       *)
LEMMA RowOnward ==
  ASSUME NEW u \in User, Row(u)
  PROVE  /\ LET v == [u EXCEPT !.password = @ + 1] IN Onward(u, v) /\ Row(v)
         /\ LET v == [u EXCEPT !.locked = FALSE] IN Onward(u, v) /\ Row(v)
         /\ Onward(u, Forgiven(u)) /\ Row(Forgiven(u))
         /\ Onward(u, WithPin(u)) /\ Row(WithPin(u))
         /\ u.admission # "absent" => Onward(u, WithoutPin(u)) /\ Row(WithoutPin(u))
<1>1. LET v == [u EXCEPT !.password = @ + 1] IN Onward(u, v) /\ Row(v)
  BY DEF User, Onward, Row
<1>2. LET v == [u EXCEPT !.locked = FALSE] IN Onward(u, v) /\ Row(v)
  BY DEF User, Onward, Row
<1>3. Onward(u, Forgiven(u)) /\ Row(Forgiven(u))
  BY DEF Forgiven, User, Onward, Row
<1>4. Onward(u, WithPin(u)) /\ Row(WithPin(u))
  BY DEF WithPin, Forgiven, User, Onward, Row
<1>5. ASSUME u.admission # "absent" PROVE Onward(u, WithoutPin(u)) /\ Row(WithoutPin(u))
  BY <1>5 DEF WithoutPin, Forgiven, User, Onward, Row
<1> QED BY <1>1, <1>2, <1>3, <1>4, <1>5

(* So does a wrong guess at an account that exists (RecordPinFailure).     *)
LEMMA GuessOnward ==
  ASSUME NEW u \in User, Row(u), u.admission # "absent", NEW n \in Nat, NEW locked \in BOOLEAN
  PROVE  LET v == [u EXCEPT !.failures = n, !.locked = locked] IN
           v \in User /\ Onward(u, v) /\ Row(v)
<1>1. [u EXCEPT !.failures = n, !.locked = locked] \in User
  BY DEF User
<1>2. LET v == [u EXCEPT !.failures = n, !.locked = locked] IN Onward(u, v) /\ Row(v)
  BY DEF User, Onward, Row
<1> QED BY <1>1, <1>2

(* Rows only move onward, and stay rows of that kind: a credential version *)
(* is raised with each reset and nothing lowers it (resetCredential).      *)
LEMMA RowsOnward ==
  ASSUME IInv, [Next]_vars
  PROVE  \A a \in Account : Onward(users[a], users'[a]) /\ Row(users'[a])
<1> USE DEF IInv
<1> \A a \in Account : users[a] \in User /\ Row(users[a])
  BY DEF TypeOK, Kept
<1>0. ASSUME users' = users
      PROVE  \A a \in Account : Onward(users[a], users'[a]) /\ Row(users'[a])
  BY <1>0 DEF Onward, User
<1>1. ASSUME NEW b \in Account, NEW u \in User, users' = [users EXCEPT ![b] = u],
             Onward(users[b], u), Row(u)
      PROVE  \A a \in Account : Onward(users[a], users'[a]) /\ Row(users'[a])
  <2>1. \A a \in Account : users'[a] = IF a = b THEN u ELSE users[a]
    BY <1>1 DEF TypeOK
  <2> QED BY <1>1, <2>1 DEF Onward, User
<1>2. ASSUME NEW w \in Worker, NEW s \in Token \union {NoOne}, NEW a \in Account, Callback(w, a, s)
      PROVE  \A b \in Account : Onward(users[b], users'[b]) /\ Row(users'[b])
  <2>1. Arriving(a) \in User
    BY ArrivingIsUser
  <2>2. Onward(users[a], Arriving(a)) /\ Row(Arriving(a))
    <3>1. CASE Exists(a)
      BY <3>1 DEF Arriving, Onward, User
    <3>2. CASE ~Exists(a)
      BY <3>2 DEF Arriving, Exists, Unborn, Onward, Row, User
    <3> QED BY <3>1, <3>2
  <2> QED BY <1>1, <1>2, <2>1, <2>2 DEF Callback
<1>3. ASSUME NEW w \in Worker, req[w].pc # "idle" PROVE req[w].who \in Account /\ Exists(req[w].who)
  BY <1>3 DEF Shape, Fit, Kept, KnownIn, Exists
<1>4. ASSUME NEW w \in Worker, SetRole(w) PROVE \A b \in Account : Onward(users[b], users'[b]) /\ Row(users'[b])
  <2>1. req[w].target \in Account /\ req[w].to \in Role
    BY <1>4 DEF SetRole, Shape, Fit
  <2> DEFINE u == [users[req[w].target] EXCEPT !.role = req[w].to]
  <2>2. u \in User /\ Onward(users[req[w].target], u) /\ Row(u)
    BY <2>1 DEF User, Onward, Row
  <2> QED BY <1>1, <1>4, <2>1, <2>2 DEF SetRole
<1>5. ASSUME NEW w \in Worker, SetAdmission(w) PROVE \A b \in Account : Onward(users[b], users'[b]) /\ Row(users'[b])
  <2>1. req[w].target \in Account /\ req[w].to \in {"active", "rejected"}
    BY <1>5 DEF SetAdmission, Shape, Fit
  <2> DEFINE u == [users[req[w].target] EXCEPT !.admission = req[w].to]
  <2>2. u \in User /\ Onward(users[req[w].target], u) /\ Row(u)
    BY <2>1 DEF User, Admission, Onward, Row
  <2> QED BY <1>1, <1>5, <2>1, <2>2 DEF SetAdmission
<1>6. ASSUME NEW w \in Worker, ChangePassword(w) PROVE \A b \in Account : Onward(users[b], users'[b]) /\ Row(users'[b])
  <2> DEFINE u == [users[req[w].who] EXCEPT !.password = @ + 1]
  <2>1. req[w].who \in Account
    BY <1>3, <1>6 DEF ChangePassword
  <2>2. u \in User /\ Onward(users[req[w].who], u) /\ Row(u)
    BY <2>1, RowKept, RowOnward
  <2> QED BY <1>1, <1>6, <2>1, <2>2 DEF ChangePassword
<1>7. ASSUME NEW w \in Worker, CheckWrong(w) PROVE \A b \in Account : Onward(users[b], users'[b]) /\ Row(users'[b])
  <2> DEFINE u == users[req[w].who]
  <2> DEFINE v == [u EXCEPT !.failures = u.failures + 1, !.locked = u.locked \/ u.failures + 1 >= MaxPin]
  <2>1. req[w].who \in Account /\ u.admission # "absent"
    BY <1>3, <1>7 DEF CheckWrong, Exists
  <2>2. u.failures + 1 \in Nat /\ (u.locked \/ u.failures + 1 >= MaxPin) \in BOOLEAN
    BY <2>1 DEF User
  <2>3. v \in User /\ Onward(u, v) /\ Row(v)
    BY <2>1, <2>2, GuessOnward
  <2>4. users' = [users EXCEPT ![req[w].who] = v]
    BY <1>7 DEF CheckWrong
  <2> QED BY <1>1, <2>1, <2>3, <2>4
<1>9. ASSUME NEW w \in Worker, CheckRight(w) \/ SetPin(w)
      PROVE  \A b \in Account : Onward(users[b], users'[b]) /\ Row(users'[b])
  <2>1. req[w].who \in Account
    BY <1>3, <1>9 DEF CheckRight, SetPin
  <2>2. \/ users' = [users EXCEPT ![req[w].who] = Forgiven(users[req[w].who])]
        \/ users' = [users EXCEPT ![req[w].who] = WithPin(users[req[w].who])]
    BY <1>9 DEF CheckRight, SetPin
  <2>3. users[req[w].who] \in User /\ Row(users[req[w].who])
    BY <2>1
  <2>4. /\ Forgiven(users[req[w].who]) \in User /\ WithPin(users[req[w].who]) \in User
        /\ Onward(users[req[w].who], Forgiven(users[req[w].who])) /\ Row(Forgiven(users[req[w].who]))
        /\ Onward(users[req[w].who], WithPin(users[req[w].who])) /\ Row(WithPin(users[req[w].who]))
    BY <2>3, RowKept, RowOnward
  <2> QED BY <1>1, <2>1, <2>2, <2>4
<1>10. ASSUME NEW a \in Account, LockExpires(a)
       PROVE  \A b \in Account : Onward(users[b], users'[b]) /\ Row(users'[b])
  <2> DEFINE u == [users[a] EXCEPT !.locked = FALSE]
  <2>1. u \in User /\ Onward(users[a], u) /\ Row(u)
    BY RowKept, RowOnward
  <2>2. users' = [users EXCEPT ![a] = u]
    BY <1>10 DEF LockExpires
  <2> QED BY <1>1, <2>1, <2>2
<1>11. ASSUME NEW a \in Account, ResetPassword(a)
       PROVE  \A b \in Account : Onward(users[b], users'[b]) /\ Row(users'[b])
  <2> DEFINE u == users[a]
  <2> DEFINE v == [u EXCEPT !.password = u.password + 1, !.since = u.password + 1, !.cred = u.cred + 1]
  <2>1. v \in User
    BY RowKept
  <2>2. Onward(u, v) /\ Row(v)
    BY <1>11 DEF ResetPassword, Exists, User, Onward, Row
  <2> QED BY <1>1, <1>11, <2>1, <2>2 DEF ResetPassword
<1>12. ASSUME NEW a \in Account, ResetPin(a)
       PROVE  \A b \in Account : Onward(users[b], users'[b]) /\ Row(users'[b])
  BY <1>1, <1>12, RowKept, RowOnward DEF ResetPin, Exists
<1>13. ASSUME NEW reset \in SUBSET Local, Restart(reset)
       PROVE  \A b \in Account : Onward(users[b], users'[b]) /\ Row(users'[b])
  <2>1. ASSUME NEW a \in Account
        PROVE  Onward(users[a], users'[a]) /\ Row(users'[a])
    <3> DEFINE u == [users[a] EXCEPT !.password = @ + 1]
    <3>1. Onward(users[a], u) /\ Row(u)
      BY RowOnward
    <3>2. users'[a] = u \/ users'[a] = users[a]
      BY <1>13 DEF Restart
    <3> QED BY <3>1, <3>2 DEF Onward, User
  <2> QED BY <2>1
<1>14. CASE Arrival
  BY <1>0, <1>2, <1>14, ArrivalsRead
<1>15. CASE Operation \/ Tick
  BY <1>0, <1>10, <1>11, <1>12, <1>13, <1>15 DEF Operation, Tick, AttemptsExpire, GrantExpires
<1>16. CASE \E w \in Worker : Serve(w)
  BY <1>0, <1>4, <1>5, <1>6, <1>7, <1>9, <1>16 DEF Serve, LoginFail, LoginCheck, LoginCommit, RoleLook,
     CountOwners, CheckLock, CheckRead, PinRefused, GrantSudo, CommitSession
<1>17. CASE UNCHANGED vars
  BY <1>0, <1>17 DEF vars
<1> QED BY <1>14, <1>15, <1>16, <1>17 DEF Next

(* A session is written by a sign-in under a token nobody has yet, by a    *)
(* trip to the provider under its own, and deleted (login, GrantSudo).     *)
LEMMA SessionWrites ==
  ASSUME IInv, [Next]_vars, NEW s \in Token
  PROVE  \/ sessions'[s] = sessions[s]
         \/ sessions'[s] = NoSession
         \/ \E w \in Worker : /\ req[w].pc = "reauth" /\ req[w].token = s
                              /\ sessions'[s] = req[w].data
         \/ \E w \in Worker : /\ req[w].pc = "signed" /\ s \notin issued
                              /\ sessions'[s] = Opened(w)
<1> sessions \in [Token -> Session \union {NoSession}]
  BY DEF IInv, TypeOK
<1>0. CASE UNCHANGED sessions
  BY <1>0
<1>1. ASSUME NEW w \in Worker, NEW new \in Token, LoginCommit(w, new)
      PROVE  \/ sessions'[s] = sessions[s] \/ sessions'[s] = NoSession
             \/ req[w].pc = "signed" /\ s \notin issued /\ sessions'[s] = Opened(w)
  BY <1>1 DEF LoginCommit
<1>2. ASSUME NEW w \in Worker, CommitSession(w)
      PROVE  \/ sessions'[s] = sessions[s]
             \/ req[w].pc = "reauth" /\ req[w].token = s /\ sessions'[s] = req[w].data
  BY <1>2 DEF CommitSession
<1>3. ASSUME NEW t \in Token, Logout(t)
      PROVE  sessions'[s] = sessions[s] \/ sessions'[s] = NoSession
  BY <1>3 DEF Logout
<1>4. CASE Arrival
  BY <1>0, <1>3, <1>4, ArrivalsRead DEF Callback
<1>5. CASE Operation \/ Tick
  BY <1>0, <1>5 DEF Operation, Tick, AttemptsExpire, GrantExpires, LockExpires, ResetPassword, ResetPin,
     Restart
<1>6. CASE \E w \in Worker : Serve(w)
  <2>1. PICK w \in Worker : Serve(w)
    BY <1>6
  <2>2. CASE CommitSession(w) \/ \E new \in Token : LoginCommit(w, new)
    BY <1>1, <1>2, <2>2
  <2>3. CASE UNCHANGED sessions
    BY <2>3
  <2> QED BY <2>1, <2>2, <2>3 DEF Serve, LoginFail, LoginCheck, RoleLook, CountOwners, SetRole,
             SetAdmission, ChangePassword, CheckLock, CheckRead, CheckWrong, CheckRight, SetPin,
             PinRefused, GrantSudo
<1>7. CASE UNCHANGED vars
  BY <1>0, <1>7 DEF vars
<1> QED BY <1>4, <1>5, <1>6, <1>7 DEF Next

\* What one step may do to one request.
Advances(r, q) ==
  /\ r.pc # "idle"
  /\ q.data = r.data /\ q.who = r.who
  /\ q.pc = "signed" => q.row = users[r.who]

Begins(q) ==
  /\ q.data = NoSession /\ q.who \in Account
  /\ \/ q.pc = "login" /\ Exists(q.who)
     \/ q.pc = "signed" /\ q.row = users'[q.who] /\ q.row.admission # "absent"

Enters(q) ==
  \E s \in Token : Usable(s) /\ q.data = sessions[s] /\ q.who = sessions[s].user /\ q.pc # "signed"

(* A request is left alone, answered, served a step further or begun: it   *)
(* never changes hands on the way (Middleware, LoginWithPassword).         *)
LEMMA RequestMoves ==
  ASSUME IInv, [Next]_vars, NEW v \in Worker
  PROVE  \/ req'[v] = req[v] \/ req'[v] = Idle
         \/ Advances(req[v], req'[v]) \/ Begins(req'[v]) \/ Enters(req'[v])
<1> DEFINE Moved == \/ req'[v] = req[v] \/ req'[v] = Idle
                    \/ Advances(req[v], req'[v]) \/ Begins(req'[v]) \/ Enters(req'[v])
<1> TypeOK /\ req \in [Worker -> Request]
  BY DEF IInv, TypeOK
<1>0. ASSUME NEW w \in Worker, Step(w, Idle) PROVE Moved
  BY <1>0, OneMoves
<1>1. ASSUME NEW w \in Worker, NEW new, Step(w, new), Advances(req[w], new) PROVE Moved
  BY <1>1, OneMoves
<1>2. ASSUME NEW w \in Worker, NEW new, Step(w, new), Begins(new) PROVE Moved
  BY <1>2, OneMoves
<1>3. ASSUME NEW w \in Worker, NEW s \in Token, NEW new, Enter(w, s, new),
             new.data = sessions[s], new.who = sessions[s].user, new.pc # "signed"
      PROVE  Moved
  BY <1>3, OneMoves DEF Enter, Enters
<1>4. ASSUME NEW w \in Worker, NEW s \in Token \union {NoOne}, NEW a \in Account,
             LoginAsk(w, a, s) \/ Callback(w, a, s)
      PROVE  Moved
  <2>1. CASE LoginAsk(w, a, s)
    <3> DEFINE new == [Idle EXCEPT !.pc = "login", !.who = a, !.token = s]
    <3>1. Begins(new)
      BY <2>1 DEF LoginAsk, Begins, Idle
    <3> QED BY <1>2, <2>1, <3>1 DEF LoginAsk
  <2>2. CASE Callback(w, a, s)
    <3> DEFINE new == [Idle EXCEPT !.pc = "signed", !.who = a, !.token = s, !.row = Arriving(a)]
    <3>1. users'[a] = Arriving(a)
      BY <2>2 DEF Callback, TypeOK
    <3>2. Arriving(a).admission # "absent"
      BY DEF Arriving, Exists, Unborn
    <3>3. Begins(new)
      BY <3>1, <3>2 DEF Begins, Idle
    <3> QED BY <1>2, <2>2, <3>3 DEF Callback
  <2> QED BY <1>4, <2>1, <2>2
<1>5. ASSUME NEW s \in Token, NEW pc
      PROVE  /\ Arrived(s, pc).data = sessions[s] /\ Arrived(s, pc).who = sessions[s].user
             /\ Arrived(s, pc).pc = pc
  BY DEF Arrived, Idle
<1>6. ASSUME NEW w \in Worker, NEW s \in Token,
         \/ \E a \in Account, r \in Role : EnterRole(w, s, a, r)
         \/ \E a \in Account, to \in {"active", "rejected"} : EnterAdmission(w, s, a, to)
         \/ EnterPassword(w, s) \/ EnterPin(w, s) \/ EnterSudo(w, s) \/ EnterReauth(w, s)
      PROVE  Moved
  <2>1. ASSUME NEW a \in Account, NEW to, NEW pc \in {"look", "admit"},
               Enter(w, s, [Arrived(s, pc) EXCEPT !.target = a, !.to = to])
        PROVE  Moved
    <3> DEFINE new == [Arrived(s, pc) EXCEPT !.target = a, !.to = to]
    <3>1. new.data = sessions[s] /\ new.who = sessions[s].user /\ new.pc # "signed"
      BY DEF Arrived, Idle
    <3> QED BY <1>3, <2>1, <3>1
  <2>2. ASSUME NEW op, NEW pc \in {"check", "pin"}, Enter(w, s, [Arrived(s, pc) EXCEPT !.op = op])
        PROVE  Moved
    <3> DEFINE new == [Arrived(s, pc) EXCEPT !.op = op]
    <3>1. new.data = sessions[s] /\ new.who = sessions[s].user /\ new.pc # "signed"
      BY DEF Arrived, Idle
    <3> QED BY <1>3, <2>2, <3>1
  <2>3. ASSUME NEW pc \in {"password", "reauth"}, Enter(w, s, Arrived(s, pc)) PROVE Moved
    BY <1>3, <1>5, <2>3
  <2>4. CASE EnterPin(w, s)
    BY <2>2, <2>4 DEF EnterPin
  <2> QED BY <1>6, <2>1, <2>2, <2>3, <2>4 DEF EnterRole, EnterAdmission, EnterPassword, EnterSudo, EnterReauth
<1>7. ASSUME NEW w \in Worker, NEW pc \in {"count", "role", "read", "grant", "pin"}, req[w].pc # "idle",
             Step(w, [req[w] EXCEPT !.pc = pc])
      PROVE  Moved
  <2>1. Advances(req[w], [req[w] EXCEPT !.pc = pc])
    BY <1>7 DEF Advances, Request
  <2> QED BY <1>1, <1>7, <2>1
<1>8. ASSUME NEW w \in Worker, LoginCheck(w) \/ CheckRead(w) PROVE Moved
  <2>1. ASSUME NEW pc \in {"signed", "compare"}, req[w].pc # "idle",
               Step(w, [req[w] EXCEPT !.pc = pc, !.row = users[req[w].who]])
        PROVE  Moved
    <3>1. Advances(req[w], [req[w] EXCEPT !.pc = pc, !.row = users[req[w].who]])
      BY <2>1 DEF Advances, Request
    <3> QED BY <1>1, <2>1, <3>1
  <2> QED BY <1>0, <1>8, <2>1 DEF LoginCheck, CheckRead
<1>9. CASE UNCHANGED req
  BY <1>9
<1>10. CASE Arrival
  BY <1>4, <1>6, <1>9, <1>10 DEF Arrival, EndSudo, Logout
<1>11. CASE Operation \/ Tick
  BY <1>9, <1>11 DEF Operation, Tick, AttemptsExpire, GrantExpires, LockExpires, ResetPassword, ResetPin,
     Restart
<1>12. CASE \E w \in Worker : Serve(w)
  <2>1. PICK w \in Worker : Serve(w)
    BY <1>12
  <2>2. CASE Step(w, Idle)
    BY <1>0, <2>2
  <2>3. CASE LoginCheck(w) \/ CheckRead(w)
    BY <1>8, <2>3
  <2>4. CASE RoleLook(w) \/ CountOwners(w) \/ CheckLock(w) \/ CheckRight(w) \/ SetPin(w)
    BY <1>7, <2>2, <2>4 DEF RoleLook, CountOwners, CheckLock, CheckRight, SetPin
  <2> QED BY <2>1, <2>2, <2>3, <2>4 DEF Serve, LoginFail, LoginCommit, SetRole, SetAdmission,
             ChangePassword, CheckWrong, PinRefused, GrantSudo, CommitSession
<1>13. CASE UNCHANGED vars
  BY <1>9, <1>13 DEF vars
<1> QED BY <1>10, <1>11, <1>12, <1>13 DEF Next

(* Rows that move onward keep a session's claim true (CurrentUser).        *)
LEMMA SoundOnward ==
  ASSUME NEW table \in [Account -> User], NEW next \in [Account -> User],
         \A a \in Account : Onward(table[a], next[a]),
         NEW data \in Session \union {NoSession}, SoundIn(table, data)
  PROVE  SoundIn(next, data)
<1>1. CASE data = NoSession
  BY <1>1 DEF SoundIn
<1>2. CASE data \in Session
  <2>1. data.user \in Account /\ data.cred \in Nat
    BY <1>2 DEF Session
  <2>2. table[data.user] \in User /\ next[data.user] \in User /\ Onward(table[data.user], next[data.user])
    BY <2>1
  <2>3. ASSUME NEW u \in User, NEW v \in User, Onward(u, v), NEW cred \in Nat, NEW proof \in Nat,
               u.admission # "absent", cred <= u.cred, cred = u.cred => proof >= u.since
        PROVE  /\ v.admission # "absent" /\ cred <= v.cred
               /\ cred = v.cred => proof >= v.since
    BY <2>3 DEF Onward, User
  <2>4. data.proof \in Nat /\ data # NoSession
    BY <1>2, SessionsExist DEF Session
  <2>5. /\ table[data.user].admission # "absent" /\ data.cred <= table[data.user].cred
        /\ data.cred = table[data.user].cred => data.proof >= table[data.user].since
    BY <2>4 DEF SoundIn
  <2> QED BY <2>1, <2>2, <2>3, <2>4, <2>5 DEF SoundIn
<1> QED BY <1>1, <1>2

(* A sign-in under way carries the version and the password it was         *)
(* checked against (LoginWithPassword).                                    *)
LEMMA SignedOnward ==
  ASSUME NEW table \in [Account -> User], NEW next \in [Account -> User],
         \A a \in Account : Onward(table[a], next[a]),
         NEW r \in Request, r.pc # "idle" => r.who \in Account, SignedIn(table, r), KnownIn(table, r)
  PROVE  SignedIn(next, r) /\ KnownIn(next, r)
<1>1. CASE r.pc = "idle"
  BY <1>1 DEF SignedIn, KnownIn
<1>2. CASE r.pc # "idle"
  <2>1. r.who \in Account /\ r.row \in User /\ r.row.cred \in Nat
    BY <1>2 DEF Request, User
  <2>2. table[r.who] \in User /\ next[r.who] \in User /\ Onward(table[r.who], next[r.who])
    BY <2>1
  <2>3. ASSUME NEW u \in User, NEW v \in User, Onward(u, v), NEW cred \in Nat, NEW proof \in Nat,
               cred <= u.cred, cred = u.cred => proof >= u.since
        PROVE  cred <= v.cred /\ (cred = v.cred => proof >= v.since)
    BY <2>3 DEF Onward, User
  <2>4. KnownIn(next, r)
    BY <1>2, <2>2 DEF KnownIn, Onward
  <2>5. SignedIn(next, r)
    <3>1. CASE r.pc = "signed"
      <4>1. r.row.password \in Nat
        BY <2>1 DEF User
      <4>2. /\ r.row.cred <= table[r.who].cred
            /\ r.row.cred = table[r.who].cred => r.row.password >= table[r.who].since
        BY <3>1 DEF SignedIn
      <4> QED BY <2>1, <2>2, <2>3, <4>1, <4>2 DEF SignedIn
    <3>2. CASE r.pc # "signed"
      BY <3>2 DEF SignedIn
    <3> QED BY <3>1, <3>2
  <2> QED BY <2>4, <2>5
<1> QED BY <1>1, <1>2

(* Every step keeps what sessions and requests carry in line with the      *)
(* accounts (login, CurrentUser, resetCredential).                         *)
LEMMA KeptStep == ASSUME IInv, [Next]_vars PROVE Kept'
<1> USE DEF IInv
<1>1. TypeOK' /\ Shape'
  BY TypedStep
<1>2. /\ users \in [Account -> User] /\ users' \in [Account -> User]
      /\ \A a \in Account : Onward(users[a], users'[a]) /\ Row(users[a]) /\ Row(users'[a])
  BY <1>1, RowsOnward DEF TypeOK, Kept
<1>3. ASSUME NEW s \in Token PROVE SoundIn(users', sessions[s])
  BY <1>2, SoundOnward DEF TypeOK, Kept
<1>4. ASSUME NEW w \in Worker
      PROVE  SoundIn(users', req[w].data) /\ SignedIn(users', req[w]) /\ KnownIn(users', req[w])
  <2>1. req[w] \in Request /\ req[w].data \in Session \union {NoSession}
    BY DEF TypeOK, Request
  <2>2. req[w].pc # "idle" => req[w].who \in Account
    BY DEF Shape, Fit
  <2>3. SoundIn(users, req[w].data) /\ SignedIn(users, req[w]) /\ KnownIn(users, req[w])
    BY DEF Kept
  <2> QED BY <1>2, <2>1, <2>2, <2>3, SoundOnward, SignedOnward
<1>5. ASSUME NEW s \in Token PROVE SoundIn(users', sessions'[s])
  <2>1. ASSUME NEW w \in Worker, req[w].pc = "signed" PROVE SoundIn(users', Opened(w))
    BY <1>4, <2>1 DEF SignedIn, KnownIn, SoundIn, Opened
  <2>2. SoundIn(users', NoSession)
    BY DEF SoundIn
  <2> QED BY <1>3, <1>4, <2>1, <2>2, SessionWrites
<1>6. ASSUME NEW v \in Worker
      PROVE  SoundIn(users', req'[v].data) /\ SignedIn(users', req'[v]) /\ KnownIn(users', req'[v])
  <2>1. CASE req'[v] = req[v]
    BY <1>4, <2>1
  <2>2. CASE req'[v] = Idle
    BY <2>2 DEF Idle, SoundIn, SignedIn, KnownIn
  <2>3. CASE Advances(req[v], req'[v])
    <3>1. req[v].pc # "idle" /\ req[v].who \in Account
      BY <2>3 DEF Advances, Shape, Fit
    <3>2. SignedIn(users', req'[v])
      <4>1. users[req[v].who] \in User /\ users'[req[v].who] \in User /\ Row(users[req[v].who])
            /\ Onward(users[req[v].who], users'[req[v].who])
        BY <1>2, <3>1
      <4> QED BY <2>3, <4>1 DEF Advances, SignedIn, Onward, Row, User
    <3> QED BY <1>4, <2>3, <3>1, <3>2 DEF Advances, KnownIn
  <2>4. CASE Begins(req'[v])
    <3>1. req'[v].who \in Account /\ req'[v].data = NoSession
      BY <2>4 DEF Begins
    <3>2. /\ users[req'[v].who] \in User /\ users'[req'[v].who] \in User /\ Row(users'[req'[v].who])
          /\ Onward(users[req'[v].who], users'[req'[v].who])
      BY <1>2, <3>1
    <3> QED BY <2>4, <3>1, <3>2 DEF Begins, SoundIn, SignedIn, KnownIn, Onward, Row, User, Exists
  <2>5. CASE Enters(req'[v])
    <3>1. PICK s \in Token : /\ Usable(s) /\ req'[v].data = sessions[s]
                             /\ req'[v].who = sessions[s].user /\ req'[v].pc # "signed"
      BY <2>5 DEF Enters
    <3> QED BY <1>3, <3>1 DEF Usable, SoundIn, SignedIn, KnownIn
  <2> QED BY <2>1, <2>2, <2>3, <2>4, <2>5, RequestMoves
<1> QED BY <1>2, <1>5, <1>6 DEF Kept

-----------------------------------------------------------------------------
(* A request that checks a secret has the account to itself from its lock  *)
(* to its unlock (accountLocks, check).                                    *)
LEMMA LockStep == ASSUME IInv, [Next]_vars PROVE LockShape'
<1> USE DEF IInv
<1> DEFINE Tame == \A a \in Account : users'[a].locked => users[a].locked
<1>1. /\ req \in [Worker -> Request] /\ pinLock \in [Account -> Worker \union {NoOne}]
      /\ users \in [Account -> User]
      /\ \A w \in Worker : req[w].pc # "idle" => req[w].who \in Account
  BY DEF TypeOK, Shape, Fit
<1>2. ASSUME Tame, UNCHANGED <<req, pinLock>> PROVE LockShape'
  BY <1>1, <1>2 DEF LockShape
<1>3. ASSUME Tame, UNCHANGED pinLock, NEW w \in Worker, NEW new, Step(w, new),
             new.pc \notin {"read", "compare"}
      PROVE  LockShape'
  <2>1. \A v \in Worker : req'[v] = IF v = w THEN new ELSE req[v]
    BY <1>3, OneMoves
  <2> QED BY <1>1, <1>3, <2>1 DEF LockShape
<1>4. Idle.pc \notin {"read", "compare"}
  BY DEF Idle
<1>5. ASSUME UNCHANGED users PROVE Tame
  BY <1>5
<1>6. ASSUME NEW w \in Worker, CheckLock(w) PROVE LockShape'
  <2> DEFINE new == [req[w] EXCEPT !.pc = "read"]
  <2>1. \A v \in Worker : req'[v] = IF v = w THEN new ELSE req[v]
    BY <1>6, OneMoves DEF CheckLock
  <2>2. new.pc = "read" /\ new.who = req[w].who /\ req[w].who \in Account
    BY <1>1, <1>6 DEF CheckLock, Request
  <2>3. pinLock[req[w].who] = NoOne /\ \A a \in Account : pinLock'[a] = IF a = req[w].who THEN w ELSE pinLock[a]
    BY <1>1, <1>6 DEF CheckLock
  <2>4. ASSUME NEW v \in Worker, v # w, req[v].pc \in {"read", "compare"} PROVE req[v].who # req[w].who
    BY <2>3, <2>4, NobodyIsNoOne DEF LockShape
  <2>5. ASSUME NEW v \in Worker, v # w
        PROVE  /\ req'[v].pc \in {"read", "compare"} => pinLock'[req'[v].who] = v
               /\ req'[v].pc = "compare" => ~users'[req'[v].who].locked
    BY <1>1, <1>6, <2>1, <2>3, <2>4, <2>5 DEF CheckLock, LockShape
  <2>6. req'[w].pc = "read" /\ pinLock'[req'[w].who] = w
    BY <2>1, <2>2, <2>3
  <2> QED BY <2>5, <2>6 DEF LockShape
<1>7. ASSUME NEW w \in Worker, req[w].pc \in {"read", "compare"}, NEW v \in Worker, v # w,
             req[v].pc \in {"read", "compare"}
      PROVE  req[v].who # req[w].who
  BY <1>7 DEF LockShape
<1>8. ASSUME NEW w \in Worker, req[w].pc \in {"read", "compare"}, NEW new, Step(w, new), Unlock(w),
             new.pc \notin {"read", "compare"},
             \A a \in Account : a # req[w].who => users'[a] = users[a]
      PROVE  LockShape'
  <2>1. \A v \in Worker : req'[v] = IF v = w THEN new ELSE req[v]
    BY <1>8, OneMoves
  <2>2. \A a \in Account : a # req[w].who => pinLock'[a] = pinLock[a]
    BY <1>1, <1>8 DEF Unlock
  <2> QED BY <1>1, <1>7, <1>8, <2>1, <2>2 DEF LockShape
<1>9. ASSUME NEW w \in Worker, CheckRead(w) PROVE LockShape'
  <2>1. CASE users[req[w].who].locked
    BY <1>4, <1>8, <1>9, <2>1 DEF CheckRead
  <2>2. CASE ~users[req[w].who].locked
    <3> DEFINE new == [req[w] EXCEPT !.pc = "compare", !.row = users[req[w].who]]
    <3>1. \A v \in Worker : req'[v] = IF v = w THEN new ELSE req[v]
      BY <1>9, <2>2, OneMoves DEF CheckRead
    <3>2. new.pc = "compare" /\ new.who = req[w].who
      BY <1>1 DEF Request
    <3> QED BY <1>9, <2>2, <3>1, <3>2 DEF CheckRead, LockShape
  <2> QED BY <2>1, <2>2
<1>10. ASSUME NEW w \in Worker, CheckWrong(w) \/ CheckRight(w) PROVE LockShape'
  <2>1. PICK new : Step(w, new) /\ new.pc \notin {"read", "compare"}
    <3>1. \A pc \in {"grant", "pin"} : [req[w] EXCEPT !.pc = pc].pc \notin {"read", "compare"}
      BY <1>1 DEF Request
    <3> QED BY <1>4, <1>10, <3>1 DEF CheckWrong, CheckRight
  <2> QED BY <1>1, <1>8, <1>10, <2>1 DEF CheckWrong, CheckRight
<1>11. ASSUME NEW w \in Worker, SetPin(w) PROVE LockShape'
  <2>1. [req[w] EXCEPT !.pc = "grant"].pc \notin {"read", "compare"}
    BY <1>1 DEF Request
  <2>2. ~WithPin(users[req[w].who]).locked
    BY <1>1, <1>11 DEF SetPin, WithPin, Forgiven, User
  <2>3. Tame
    BY <1>1, <1>11, <2>2 DEF SetPin
  <2> QED BY <1>3, <1>11, <2>1, <2>3 DEF SetPin
<1>12. ASSUME NEW w \in Worker, NEW s \in Token \union {NoOne}, NEW a \in Account,
              LoginAsk(w, a, s) \/ Callback(w, a, s)
       PROVE  LockShape'
  <2>1. CASE LoginAsk(w, a, s)
    BY <1>3, <1>5, <2>1 DEF LoginAsk, Idle
  <2>2. CASE Callback(w, a, s)
    <3>1. Arriving(a).locked => users[a].locked
      BY DEF Arriving, Unborn
    <3>2. Tame
      BY <1>1, <2>2, <3>1 DEF Callback
    <3> QED BY <1>3, <2>2, <3>2 DEF Callback, Idle
  <2> QED BY <1>12, <2>1, <2>2
<1>13. ASSUME NEW w \in Worker, NEW s \in Token,
         \/ \E a \in Account, r \in Role : EnterRole(w, s, a, r)
         \/ \E a \in Account, to \in {"active", "rejected"} : EnterAdmission(w, s, a, to)
         \/ EnterPassword(w, s) \/ EnterPin(w, s) \/ EnterSudo(w, s) \/ EnterReauth(w, s)
       PROVE  LockShape'
  <2>1. ASSUME NEW new, Enter(w, s, new), new.pc \notin {"read", "compare"} PROVE LockShape'
    BY <1>3, <1>5, <2>1 DEF Enter
  <2>2. ASSUME NEW a \in Account, NEW to, NEW op, NEW pc \in {"look", "admit", "check", "pin", "password", "reauth"}
        PROVE  /\ [Arrived(s, pc) EXCEPT !.target = a, !.to = to].pc = pc
               /\ [Arrived(s, pc) EXCEPT !.op = op].pc = pc
               /\ Arrived(s, pc).pc = pc
    BY DEF Arrived, Idle
  <2>3. CASE \/ \E a \in Account, r \in Role : EnterRole(w, s, a, r)
             \/ \E a \in Account, to \in {"active", "rejected"} : EnterAdmission(w, s, a, to)
    <3>1. PICK pc \in {"look", "admit"}, a \in Account, to \in Role \union Admission :
            Enter(w, s, [Arrived(s, pc) EXCEPT !.target = a, !.to = to])
      BY <2>3 DEF EnterRole, EnterAdmission, Admission
    <3>2. [Arrived(s, pc) EXCEPT !.target = a, !.to = to].pc = pc
      BY <2>2
    <3> QED BY <2>1, <3>1, <3>2
  <2>4. CASE EnterPassword(w, s) \/ EnterReauth(w, s)
    <3>1. \A pc \in {"password", "reauth"} : Arrived(s, pc).pc = pc
      BY DEF Arrived, Idle
    <3> QED BY <2>1, <2>4, <3>1 DEF EnterPassword, EnterReauth
  <2>5. CASE EnterPin(w, s) \/ EnterSudo(w, s)
    <3>1. \A pc \in {"check", "pin"}, op \in {"pin", "sudo"} : [Arrived(s, pc) EXCEPT !.op = op].pc = pc
      BY DEF Arrived, Idle
    <3>2. PICK pc \in {"check", "pin"}, op \in {"pin", "sudo"} : Enter(w, s, [Arrived(s, pc) EXCEPT !.op = op])
      BY <2>5 DEF EnterPin, EnterSudo
    <3> QED BY <2>1, <3>1, <3>2
  <2> QED BY <1>13, <2>3, <2>4, <2>5
<1>14. ASSUME NEW a \in Account, LockExpires(a) \/ ResetPassword(a) \/ ResetPin(a) PROVE LockShape'
  <2>1. Tame
    BY <1>1, <1>14 DEF LockExpires, ResetPassword, ResetPin, WithoutPin, Forgiven, User
  <2> QED BY <1>2, <1>14, <2>1 DEF LockExpires, ResetPassword, ResetPin
<1>15. ASSUME NEW reset \in SUBSET Local, Restart(reset) PROVE LockShape'
  BY <1>4, <1>15 DEF Restart, LockShape
<1>16. ASSUME NEW w \in Worker, SetRole(w) \/ SetAdmission(w) \/ ChangePassword(w) PROVE LockShape'
  <2>1. Tame
    BY <1>1, <1>16 DEF SetRole, SetAdmission, ChangePassword, User
  <2> QED BY <1>3, <1>4, <1>16, <2>1 DEF SetRole, SetAdmission, ChangePassword
<1>17. ASSUME NEW w \in Worker,
              \/ LoginFail(w) \/ LoginCheck(w) \/ \E new \in Token : LoginCommit(w, new)
              \/ RoleLook(w) \/ CountOwners(w) \/ PinRefused(w) \/ GrantSudo(w) \/ CommitSession(w)
       PROVE  LockShape'
  <2>1. PICK new : Step(w, new) /\ new.pc \notin {"read", "compare"}
    <3>1. \A pc \in {"count", "role"} : [req[w] EXCEPT !.pc = pc].pc \notin {"read", "compare"}
      BY <1>1 DEF Request
    <3>2. [req[w] EXCEPT !.pc = "signed", !.row = users[req[w].who]].pc \notin {"read", "compare"}
      BY <1>1 DEF Request
    <3> QED BY <1>4, <1>17, <3>1, <3>2 DEF LoginFail, LoginCheck, LoginCommit, RoleLook, CountOwners,
               PinRefused, GrantSudo, CommitSession
  <2> QED BY <1>3, <1>5, <1>17, <2>1 DEF LoginFail, LoginCheck, LoginCommit, RoleLook, CountOwners,
             PinRefused, GrantSudo, CommitSession
<1>18. CASE Arrival
  BY <1>2, <1>5, <1>12, <1>13, <1>18 DEF Arrival, EndSudo, Logout
<1>19. CASE Operation \/ Tick
  BY <1>2, <1>5, <1>14, <1>15, <1>19 DEF Operation, Tick, AttemptsExpire, GrantExpires
<1>20. CASE \E w \in Worker : Serve(w)
  BY <1>6, <1>9, <1>10, <1>11, <1>16, <1>17, <1>20 DEF Serve
<1>21. CASE UNCHANGED vars
  BY <1>2, <1>5, <1>21 DEF vars
<1> QED BY <1>18, <1>19, <1>20, <1>21 DEF Next

(* At the start nobody is signed in (bootstrapOwner).                      *)
LEMMA InitHolds == ASSUME Init PROVE IInv
<1>1. TypeOK /\ Shape
  BY TypedInit
<1>2. \A w \in Worker : req[w] = Idle
  BY DEF Init
<1>3. LockShape
  BY <1>2 DEF LockShape, Idle
<1>4. \A a \in Account : Row(users[a])
  <2> DEFINE owner == [Unborn EXCEPT !.role = "owner", !.admission = "active", !.password = 1]
  <2>1. Row(owner) /\ Row(Unborn)
    BY DEF Row, Unborn
  <2> QED BY <2>1 DEF Init
<1>5. Kept
  BY <1>2, <1>4 DEF Init, Kept, SoundIn, SignedIn, KnownIn, Idle
<1> QED BY <1>1, <1>3, <1>5 DEF IInv

(* The invariant is inductive (Next).                                      *)
LEMMA StepHolds == ASSUME IInv, [Next]_vars PROVE IInv'
  BY TypedStep, KeptStep, LockStep DEF IInv

(* It holds throughout (Next).                                            *)
LEMMA Invariance == Spec => []IInv
<1>1. Init => IInv
  BY InitHolds
<1>2. IInv /\ [Next]_vars => IInv'
  BY StepHolds
<1> QED BY <1>1, <1>2, PTL DEF Spec

-----------------------------------------------------------------------------
(* Rows, sessions and requests stay well formed, for any number of         *)
(* accounts, tokens and requests served at once.                           *)
THEOREM TypeCorrect == Spec => []TypeOK
<1>1. IInv => TypeOK
  BY DEF IInv
<1> QED BY <1>1, Invariance, PTL

(* "Every session this account had is signed out" (resetPassword), whatever *)
(* was under way when the operator's command committed.                    *)
THEOREM ResetsEndSessions == Spec => []ResetEndsSessions
<1>1. IInv => ResetEndsSessions
  BY DEF IInv, Kept, SoundIn, Usable, ResetEndsSessions
<1> QED BY <1>1, Invariance, PTL

(* One step counts no guess at an account that is locked (check).          *)
LEMMA LockedStep ==
  ASSUME IInv, [Next]_vars, NEW a \in Account, users[a].locked
  PROVE  \/ users'[a].failures = users[a].failures
         \/ users'[a].pin # users[a].pin
         \/ users'[a].cred # users[a].cred
<1> DEFINE Counted == \/ users'[a].failures = users[a].failures
                      \/ users'[a].pin # users[a].pin
                      \/ users'[a].cred # users[a].cred
<1>1. /\ users \in [Account -> User] /\ users[a] \in User /\ Row(users[a])
      /\ \A w \in Worker : req[w].pc # "idle" => req[w].who \in Account
  BY DEF IInv, TypeOK, Kept, Shape, Fit
<1>2. ASSUME users'[a] = users[a] PROVE Counted
  BY <1>2
<1>3. ASSUME NEW w \in Worker, NEW s \in Token \union {NoOne}, NEW b \in Account, Callback(w, b, s)
      PROVE  Counted
  <2>1. Exists(a)
    BY <1>1 DEF Row, Exists
  <2> QED BY <1>1, <1>3, <2>1 DEF Callback, Arriving
<1>4. ASSUME NEW w \in Worker, SetRole(w) \/ SetAdmission(w) \/ ChangePassword(w) PROVE Counted
  BY <1>1, <1>4 DEF SetRole, SetAdmission, ChangePassword, User
<1>5. ASSUME NEW w \in Worker, CheckWrong(w) \/ CheckRight(w) PROVE Counted
  <2>1. req[w].who # a
    BY <1>5 DEF CheckWrong, CheckRight, IInv, LockShape
  <2> QED BY <1>1, <1>5, <2>1 DEF CheckWrong, CheckRight
<1>6. ASSUME NEW w \in Worker, SetPin(w) PROVE Counted
  <2>1. CASE req[w].who = a
    <3>1. users'[a] = WithPin(users[a])
      BY <1>1, <1>6, <2>1 DEF SetPin
    <3>2. WithPin(users[a]).pin = users[a].pin + 1 /\ users[a].pin \in Nat
      BY <1>1 DEF WithPin, Forgiven, User
    <3> QED BY <3>1, <3>2
  <2>2. CASE req[w].who # a
    BY <1>1, <1>6, <2>2 DEF SetPin
  <2> QED BY <2>1, <2>2
<1>7. ASSUME NEW b \in Account, ResetPin(b) PROVE Counted
  <2>1. CASE b = a
    <3>1. users'[a] = WithoutPin(users[a])
      BY <1>1, <1>7, <2>1 DEF ResetPin
    <3>2. WithoutPin(users[a]).cred = users[a].cred + 1 /\ users[a].cred \in Nat
      BY <1>1 DEF WithoutPin, Forgiven, User
    <3> QED BY <3>1, <3>2
  <2>2. CASE b # a
    BY <1>1, <1>7, <2>2 DEF ResetPin
  <2> QED BY <2>1, <2>2
<1>8. ASSUME NEW b \in Account, LockExpires(b) \/ ResetPassword(b) PROVE Counted
  <2>1. CASE LockExpires(b)
    BY <1>1, <2>1 DEF LockExpires, User
  <2>2. CASE ResetPassword(b)
    <3>1. CASE b = a
      <4> DEFINE u == users[a]
      <4>1. [u EXCEPT !.password = u.password + 1, !.since = u.password + 1, !.cred = u.cred + 1].failures
              = u.failures
        BY <1>1 DEF User
      <4> QED BY <1>1, <2>2, <3>1, <4>1 DEF ResetPassword
    <3>2. CASE b # a
      BY <1>1, <2>2, <3>2 DEF ResetPassword
    <3> QED BY <3>1, <3>2
  <2> QED BY <1>8, <2>1, <2>2
<1>9. ASSUME NEW reset \in SUBSET Local, Restart(reset) PROVE Counted
  BY <1>1, <1>9 DEF Restart, User
<1>10. CASE Arrival
  BY <1>2, <1>3, <1>10, ArrivalsRead
<1>11. CASE Operation \/ Tick
  BY <1>2, <1>7, <1>8, <1>9, <1>11 DEF Operation, Tick, AttemptsExpire, GrantExpires
<1>12. CASE \E w \in Worker : Serve(w)
  BY <1>2, <1>4, <1>5, <1>6, <1>12 DEF Serve, LoginFail, LoginCheck, LoginCommit, RoleLook, CountOwners,
     CheckLock, CheckRead, PinRefused, GrantSudo, CommitSession
<1>13. CASE UNCHANGED vars
  BY <1>2, <1>13 DEF vars
<1> QED BY <1>10, <1>11, <1>12, <1>13 DEF Next

(* While an account is locked no guess counts (check, RecordPinFailure).   *)
THEOREM LocksHold == Spec => LockHolds
<1>1. IInv /\ [Next]_vars => [\A a \in Account : users[a].locked =>
                                 \/ users'[a].failures = users[a].failures
                                 \/ users'[a].pin # users[a].pin
                                 \/ users'[a].cred # users[a].cred]_vars
  BY LockedStep
<1> QED BY <1>1, Invariance, PTL DEF LockHolds, Spec

(* A session that stopped working works again only when a trip to the      *)
(* provider is committed under its token (GrantSudo, CommitSession).       *)
LEMMA RevivedStep ==
  ASSUME IInv, [Next]_vars, NEW s \in issued, ~Usable(s), Usable(s)'
  PROVE  \E w \in Worker : req[w].pc = "reauth" /\ req[w].token = s
<1>1. s \in Token /\ sessions[s] \in Session \union {NoSession} /\ SoundIn(users, sessions[s])
  BY DEF IInv, TypeOK, Kept
<1>2. sessions'[s] # NoSession /\ users'[sessions'[s].user].cred = sessions'[s].cred
  BY DEF Usable
<1>3. sessions'[s] # sessions[s]
  <2>1. SUFFICES ASSUME sessions'[s] = sessions[s] PROVE FALSE
    OBVIOUS
  <2>2. sessions[s] \in Session /\ sessions[s].user \in Account /\ sessions[s].cred \in Nat
    BY <1>1, <1>2, <2>1 DEF Session
  <2>3. /\ users[sessions[s].user] \in User /\ users'[sessions[s].user] \in User
        /\ users'[sessions[s].user].cred >= users[sessions[s].user].cred
    BY <2>2, RowsOnward, TypedStep DEF IInv, TypeOK, Onward
  <2>4. /\ sessions[s].cred <= users[sessions[s].user].cred
        /\ sessions[s].cred # users[sessions[s].user].cred
        /\ users'[sessions[s].user].cred = sessions[s].cred
    BY <1>1, <1>2, <2>1 DEF SoundIn, Usable
  <2> QED BY <2>2, <2>3, <2>4 DEF User
<1>4. \/ \E w \in Worker : req[w].pc = "reauth" /\ req[w].token = s /\ sessions'[s] = req[w].data
      \/ \E w \in Worker : req[w].pc = "signed" /\ s \notin issued /\ sessions'[s] = Opened(w)
  BY <1>1, <1>2, <1>3, SessionWrites
<1> QED BY <1>4

(* "If a logout deleted the session meanwhile, that commit would bring it   *)
(* back" (GrantSudo): nothing but a trip to the provider does.             *)
THEOREM Revival == Spec => OnlySignInRevives
<1>1. IInv /\ [Next]_vars => [\A s \in issued : ~Usable(s) /\ Usable(s)' =>
                                 \E w \in Worker : req[w].pc = "reauth" /\ req[w].token = s]_vars
  BY RevivedStep
<1> QED BY <1>1, Invariance, PTL DEF OnlySignInRevives, Spec

-----------------------------------------------------------------------------
(* The sign-ins that the limiter has let pass and not heard of since count  *)
(* with the failures it knows: a request that passes is one of finitely     *)
(* many, and a failure moves one from the first number to the second.       *)

InFlight(a) == {w \in Worker : req[w].pc = "login" /\ req[w].who = a}

Limited(a) == attempts[a] + Cardinality(InFlight(a)) < MaxLogin + Cardinality(Worker)

(* Sign-ins under way are no more than there are requests (Auth.logins).   *)
LEMMA InFlightBounded ==
  ASSUME NEW S \in SUBSET Worker
  PROVE  /\ IsFiniteSet(S) /\ Cardinality(S) \in Nat /\ Cardinality(Worker) \in Nat
         /\ Cardinality(S) <= Cardinality(Worker)
  BY Limits, FS_Subset, FS_CardinalityType

(* No failure is counted and no sign-in let through: the sum does not grow. *)
LEMMA NoMoreInFlight ==
  ASSUME NEW a \in Account, attempts[a] \in Nat, attempts'[a] \in {0, attempts[a]},
         InFlight(a)' \subseteq InFlight(a), Limited(a)
  PROVE  Limited(a)'
<1>1. InFlight(a) \in SUBSET Worker /\ InFlight(a)' \in SUBSET Worker
  BY DEF InFlight
<1>2. Cardinality(InFlight(a)') <= Cardinality(InFlight(a))
  BY <1>1, InFlightBounded, FS_Subset
<1>3. /\ Cardinality(InFlight(a)) \in Nat /\ Cardinality(InFlight(a)') \in Nat
      /\ Cardinality(Worker) \in Nat
  BY <1>1, InFlightBounded
<1> HIDE DEF InFlight
<1> QED BY <1>2, <1>3, Limits DEF Limited

(* The limiter lets a request pass (LoginWithPassword).                    *)
LEMMA AskIsLimited ==
  ASSUME IInv, NEW w \in Worker, NEW s, NEW b \in Account, LoginAsk(w, b, s),
         NEW a \in Account, Limited(a)
  PROVE  Limited(a)'
<1>1. attempts' = attempts /\ attempts[a] \in Nat
  BY DEF LoginAsk, IInv, TypeOK
<1>2. \A v \in Worker : req'[v] = IF v = w THEN [Idle EXCEPT !.pc = "login", !.who = b, !.token = s]
                                  ELSE req[v]
  BY OneMoves DEF LoginAsk, IInv
<1>3. CASE a = b
  <2>1. InFlight(a)' \in SUBSET Worker
    BY DEF InFlight
  <2>2. attempts[a] < MaxLogin
    BY <1>3 DEF LoginAsk
  <2> HIDE DEF InFlight
  <2> QED BY <1>1, <2>1, <2>2, InFlightBounded, Limits DEF Limited
<1>4. CASE a # b
  <2>1. InFlight(a)' \subseteq InFlight(a)
    BY <1>2, <1>4 DEF InFlight, Idle
  <2> QED BY <1>1, <2>1, NoMoreInFlight
<1> QED BY <1>3, <1>4

(* A wrong password: one fewer under way, one more known (LoginWithPassword). *)
LEMMA FailIsLimited ==
  ASSUME IInv, NEW w \in Worker, LoginFail(w), NEW a \in Account, Limited(a)
  PROVE  Limited(a)'
<1>1. /\ attempts \in [Account -> Nat] /\ attempts[a] \in Nat
      /\ attempts' = [attempts EXCEPT ![req[w].who] = @ + 1]
  BY DEF LoginFail, IInv, TypeOK
<1>2. \A v \in Worker : req'[v] = IF v = w THEN Idle ELSE req[v]
  BY OneMoves DEF LoginFail, IInv
<1>3. CASE a = req[w].who
  <2>1. w \in InFlight(a) /\ InFlight(a) \in SUBSET Worker
    BY <1>3 DEF LoginFail, InFlight
  <2>2. InFlight(a)' = InFlight(a) \ {w}
    BY <1>2 DEF InFlight, Idle
  <2>3. attempts'[a] = attempts[a] + 1
    BY <1>1, <1>3
  <2>4. IsFiniteSet(InFlight(a)) /\ Cardinality(InFlight(a)) \in Nat /\ Cardinality(Worker) \in Nat
    BY <2>1, InFlightBounded
  <2>5. Cardinality(InFlight(a) \ {w}) = Cardinality(InFlight(a)) - 1
    BY <2>1, <2>4, FS_RemoveElement
  <2> HIDE DEF InFlight
  <2> QED BY <1>1, <2>2, <2>3, <2>4, <2>5, Limits DEF Limited
<1>4. CASE a # req[w].who
  <2>1. attempts'[a] = attempts[a]
    BY <1>1, <1>4
  <2>2. InFlight(a)' \subseteq InFlight(a)
    BY <1>2 DEF InFlight, Idle
  <2> QED BY <1>1, <2>1, <2>2, NoMoreInFlight
<1> QED BY <1>3, <1>4

(* No other step lets a sign-in through, or counts a failure (Next).       *)
LEMMA OthersSignNobodyIn ==
  ASSUME IInv, [Next]_vars,
         \A w \in Worker : ~LoginFail(w) /\ \A s \in Token \union {NoOne}, a \in Account : ~LoginAsk(w, a, s)
  PROVE  \A a \in Account : attempts'[a] \in {0, attempts[a]} /\ InFlight(a)' \subseteq InFlight(a)
<1> DEFINE Calm == \A a \in Account : attempts'[a] \in {0, attempts[a]} /\ InFlight(a)' \subseteq InFlight(a)
<1>0. /\ TypeOK /\ attempts \in [Account -> Nat]
      /\ \A w \in Worker : req[w] \in Request
  BY DEF IInv, TypeOK
<1>1. ASSUME NEW w \in Worker, NEW new, new.pc # "login", Step(w, new),
             \A a \in Account : attempts'[a] \in {0, attempts[a]}
      PROVE  Calm
  <2>1. \A v \in Worker : req'[v] = IF v = w THEN new ELSE req[v]
    BY <1>0, <1>1, OneMoves
  <2> QED BY <1>1, <2>1 DEF InFlight
<1>2. ASSUME UNCHANGED <<req, attempts>> PROVE Calm
  BY <1>2 DEF InFlight
<1>3. \A pc : /\ Idle.pc = "idle"
              /\ \A w \in Worker : [req[w] EXCEPT !.pc = pc].pc = pc
  BY <1>0 DEF Idle, Request
<1>4. ASSUME NEW w \in Worker, NEW new, new.pc # "login", Step(w, new), attempts' = attempts
       PROVE  Calm
  BY <1>1, <1>4
<1>5. ASSUME NEW w \in Worker, NEW s \in Token,
             \/ \E a \in Account, r \in Role : EnterRole(w, s, a, r)
             \/ \E a \in Account, to \in {"active", "rejected"} : EnterAdmission(w, s, a, to)
             \/ EnterPassword(w, s) \/ EnterPin(w, s) \/ EnterSudo(w, s) \/ EnterReauth(w, s)
      PROVE  Calm
  <2>1. \A pc, a, to, op : /\ Arrived(s, pc).pc = pc
                           /\ [Arrived(s, pc) EXCEPT !.target = a, !.to = to].pc = pc
                           /\ [Arrived(s, pc) EXCEPT !.op = op].pc = pc
    BY DEF Arrived, Idle
  <2>2. ASSUME NEW new, new.pc # "login", Enter(w, s, new) PROVE Calm
    BY <1>4, <2>2 DEF Enter
  <2>3. ASSUME NEW a, NEW to, EnterRole(w, s, a, to) \/ EnterAdmission(w, s, a, to) PROVE Calm
    <3>1. /\ [Arrived(s, "look") EXCEPT !.target = a, !.to = to].pc # "login"
          /\ [Arrived(s, "admit") EXCEPT !.target = a, !.to = to].pc # "login"
      BY <2>1
    <3>2. CASE EnterRole(w, s, a, to)
      <4>1. Enter(w, s, [Arrived(s, "look") EXCEPT !.target = a, !.to = to])
        BY <3>2 DEF EnterRole
      <4> QED BY <2>2, <3>1, <4>1
    <3>3. CASE EnterAdmission(w, s, a, to)
      <4>1. Enter(w, s, [Arrived(s, "admit") EXCEPT !.target = a, !.to = to])
        BY <3>3 DEF EnterAdmission
      <4> QED BY <2>2, <3>1, <4>1
    <3> QED BY <2>3, <3>2, <3>3
  <2>4. CASE EnterPassword(w, s) \/ EnterReauth(w, s)
    <3>1. Arrived(s, "password").pc # "login" /\ Arrived(s, "reauth").pc # "login"
      BY DEF Arrived, Idle
    <3>2. Enter(w, s, Arrived(s, "password")) \/ Enter(w, s, Arrived(s, "reauth"))
      BY <2>4 DEF EnterPassword, EnterReauth
    <3> QED BY <2>2, <3>1, <3>2
  <2>5. CASE EnterSudo(w, s)
    <3>1. [Arrived(s, "check") EXCEPT !.op = "sudo"].pc # "login"
      BY <2>1
    <3>2. Enter(w, s, [Arrived(s, "check") EXCEPT !.op = "sudo"])
      BY <2>5 DEF EnterSudo
    <3> QED BY <2>2, <3>1, <3>2
  <2>6. CASE EnterPin(w, s)
    <3>1. \A pc \in {"check", "pin"} : [Arrived(s, pc) EXCEPT !.op = "pin"].pc # "login"
      BY <2>1
    <3>2. PICK pc \in {"check", "pin"} : Enter(w, s, [Arrived(s, pc) EXCEPT !.op = "pin"])
      BY <2>6 DEF EnterPin
    <3> QED BY <2>2, <3>1, <3>2
  <2> QED BY <1>5, <2>3, <2>4, <2>5, <2>6
<1>6. ASSUME NEW w \in Worker, NEW s \in Token \union {NoOne}, NEW a \in Account, Callback(w, a, s)
      PROVE  Calm
  <2>1. [Idle EXCEPT !.pc = "signed", !.who = a, !.token = s, !.row = Arriving(a)].pc = "signed"
    BY DEF Idle
  <2> QED BY <1>4, <1>6, <2>1 DEF Callback
<1>7. ASSUME NEW w \in Worker, Serve(w) PROVE Calm
  <2>1. CASE LoginCheck(w)
    <3>1. [req[w] EXCEPT !.pc = "signed", !.row = users[req[w].who]].pc = "signed"
      BY <1>0 DEF Request
    <3>2. \A a \in Account : attempts'[a] \in {0, attempts[a]}
      BY <1>0, <2>1 DEF LoginCheck
    <3> QED BY <1>1, <2>1, <3>1, <3>2 DEF LoginCheck
  <2>2. ASSUME Step(w, Idle), attempts' = attempts PROVE Calm
    BY <1>3, <1>4, <2>2
  <2>3. ASSUME NEW pc, pc # "login", Step(w, [req[w] EXCEPT !.pc = pc]), attempts' = attempts PROVE Calm
    BY <1>3, <1>4, <2>3
  <2>4. CASE \/ \E new \in Token : LoginCommit(w, new)
             \/ SetRole(w) \/ SetAdmission(w) \/ ChangePassword(w)
             \/ CheckWrong(w) \/ PinRefused(w) \/ GrantSudo(w) \/ CommitSession(w)
    BY <2>2, <2>4 DEF LoginCommit, SetRole, SetAdmission, ChangePassword, CheckWrong, PinRefused,
       GrantSudo, CommitSession
  <2>5. CASE RoleLook(w)
    BY <2>2, <2>3, <2>5 DEF RoleLook
  <2>6. CASE CountOwners(w)
    BY <2>2, <2>3, <2>6 DEF CountOwners
  <2>7. CASE CheckRead(w)
    <3>1. [req[w] EXCEPT !.pc = "compare", !.row = users[req[w].who]].pc = "compare"
      BY <1>0 DEF Request
    <3> QED BY <1>4, <2>2, <2>7, <3>1 DEF CheckRead
  <2>8. CASE CheckLock(w) \/ SetPin(w)
    BY <2>3, <2>8 DEF CheckLock, SetPin
  <2>9. CASE CheckRight(w)
    BY <2>3, <2>9 DEF CheckRight
  <2> QED BY <1>7, <2>1, <2>4, <2>5, <2>6, <2>7, <2>8, <2>9 DEF Serve
<1>8. CASE Operation \/ Tick
  <2>1. ASSUME NEW reset \in SUBSET Local, Restart(reset) PROVE Calm
    BY <2>1, <1>3 DEF Restart, InFlight
  <2>2. ASSUME NEW a \in Account, AttemptsExpire(a) PROVE Calm
    BY <1>0, <2>2 DEF AttemptsExpire, InFlight
  <2>3. ASSUME NEW a \in Account, ResetPassword(a) \/ ResetPin(a) \/ LockExpires(a) PROVE Calm
    BY <1>2, <2>3 DEF ResetPassword, ResetPin, LockExpires
  <2>4. ASSUME NEW s \in Token, GrantExpires(s) PROVE Calm
    BY <1>2, <2>4 DEF GrantExpires
  <2> QED BY <1>8, <2>1, <2>2, <2>3, <2>4 DEF Operation, Tick
<1>9. ASSUME NEW s \in Token, EndSudo(s) \/ Logout(s) PROVE Calm
  BY <1>2, <1>9 DEF EndSudo, Logout
<1>10. CASE Arrival
  BY <1>5, <1>6, <1>9, <1>10 DEF Arrival
<1>11. CASE UNCHANGED vars
  BY <1>2, <1>11 DEF vars
<1> QED BY <1>7, <1>8, <1>10, <1>11 DEF Next

(* One step lets the sum no further (LoginWithPassword).                   *)
LEMMA LimitedStep ==
  ASSUME IInv, [Next]_vars, \A a \in Account : Limited(a)
  PROVE  \A a \in Account : Limited(a)'
<1> SUFFICES ASSUME NEW a \in Account PROVE Limited(a)'
  OBVIOUS
<1>1. CASE \E w \in Worker : LoginFail(w)
  BY <1>1, FailIsLimited
<1>2. CASE \E w \in Worker, s \in Token \union {NoOne}, b \in Account : LoginAsk(w, b, s)
  BY <1>2, AskIsLimited
<1>3. CASE \A w \in Worker : ~LoginFail(w) /\ \A s \in Token \union {NoOne}, b \in Account : ~LoginAsk(w, b, s)
  <2>1. attempts'[a] \in {0, attempts[a]} /\ InFlight(a)' \subseteq InFlight(a)
    BY <1>3, OthersSignNobodyIn
  <2>2. attempts[a] \in Nat
    BY DEF IInv, TypeOK
  <2> QED BY <2>1, <2>2, NoMoreInFlight
<1> QED BY <1>1, <1>2, <1>3

(* Failed sign-ins stay within the limit and the requests served at once,   *)
(* although the limiter is asked before the comparison and told after.     *)
THEOREM SignInsLimited == Spec => []SignInsAreLimited
<1> DEFINE Sum == \A a \in Account : Limited(a)
<1>1. Init => Sum
  <2> SUFFICES ASSUME Init, NEW a \in Account PROVE Limited(a)
    OBVIOUS
  <2>1. attempts[a] = 0 /\ InFlight(a) = {}
    BY DEF Init, InFlight, Idle
  <2>2. Cardinality(Worker) \in Nat
    BY Limits, FS_CardinalityType
  <2> QED BY <2>1, <2>2, Limits, FS_EmptySet DEF Limited
<1>2. IInv /\ Sum /\ [Next]_vars => Sum'
  BY LimitedStep
<1>3. TypeOK /\ Sum => SignInsAreLimited
  <2> SUFFICES ASSUME TypeOK, NEW a \in Account, Limited(a)
               PROVE  attempts[a] < MaxLogin + Cardinality(Worker)
    BY DEF SignInsAreLimited
  <2>1. InFlight(a) \in SUBSET Worker
    BY DEF InFlight
  <2>2. Cardinality(InFlight(a)) \in Nat /\ Cardinality(Worker) \in Nat
    BY <2>1, InFlightBounded
  <2> HIDE DEF InFlight
  <2> QED BY <2>2, Limits DEF Limited, TypeOK
<1>4. IInv => TypeOK
  BY DEF IInv
<1> HIDE DEF Sum
<1> QED BY <1>1, <1>2, <1>3, <1>4, Invariance, PTL DEF Spec
=============================================================================
