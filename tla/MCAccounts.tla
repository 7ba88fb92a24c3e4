----------------------------- MODULE MCAccounts -----------------------------
(***************************************************************************)
(* Small instances of Accounts: Budget requests, resets and restarts; or,  *)
(* where everything is set up already, as many of one kind and one less of  *)
(* all kinds.  Requests under way and time are free.                       *)
(***************************************************************************)
EXTENDS Accounts, TLC

CONSTANTS
  Budget,     \* how many requests, resets and restarts a behaviour may contain
  Roles       \* the roles that requests assign

VARIABLES
  kinds,      \* which of them a behaviour may contain
  budget      \* and how many still

mcvars == <<vars, kinds, budget>>

All == {"signin", "secret", "people"}

\* Everybody active, an owner with a PIN, a session and sudo.
Running ==
  /\ users = [a \in Account |-> [Unborn EXCEPT !.role = "owner", !.admission = "active",
                                               !.password = IF a \in Local THEN 1 ELSE 0,
                                               !.pin = 1]]
  /\ \E token \in [Account -> Token] :
       /\ \A a, b \in Account : token[a] = token[b] => a = b
       /\ issued = {token[a] : a \in Account}
       /\ sessions = [s \in Token |->
            IF s \in issued
            THEN LET a == CHOOSE b \in Account : token[b] = s IN
                   [user |-> a, cred |-> 0, proof |-> users[a].password]
            ELSE NoSession]
       /\ grants = [s \in Token |-> IF s \in issued THEN sessions[s].user ELSE NoOne]
  /\ pinLock = [a \in Account |-> NoOne]
  /\ attempts = [a \in Account |-> 0]
  /\ req = [w \in Worker |-> Idle]

MCInit ==
  \/ Init /\ kinds = All /\ budget = Budget
  \/ Running /\ kinds = All /\ budget = Budget - 1
  \/ Running /\ kinds \in {{"signin"}, {"secret"}} /\ budget = Budget

Counted ==
  \/ /\ "signin" \in kinds
     /\ \E w \in Worker, s \in Token \union {NoOne}, a \in Account :
          LoginAsk(w, a, s) \/ Callback(w, a, s)
  \/ /\ "secret" \in kinds
     /\ \E s \in Token :
          \/ \E w \in Worker : EnterPassword(w, s) \/ EnterPin(w, s) \/ EnterSudo(w, s) \/ EnterReauth(w, s)
          \/ EndSudo(s)
  \/ /\ "people" \in kinds
     /\ \E w \in Worker, s \in Token, a \in Account :
          \/ \E r \in Roles : EnterRole(w, s, a, r)
          \/ \E to \in {"active", "rejected"} : EnterAdmission(w, s, a, to)
  \/ \E s \in Token : Logout(s)
  \/ Operation

MCNext ==
  /\ UNCHANGED kinds
  /\ \/ (Tick \/ \E w \in Worker : Serve(w)) /\ UNCHANGED budget
     \/ budget > 0 /\ Counted /\ budget' = budget - 1

\* Tokens and workers are interchangeable.
Symmetry == Permutations(Token) \union Permutations(Worker)

MCSpec == MCInit /\ [][MCNext]_mcvars
=============================================================================
