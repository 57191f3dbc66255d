------------------------------ MODULE Sessions ------------------------------
(***************************************************************************)
(* Browser logins (packages/relay/src/server.ts, handleLogin) and the      *)
(* session cookies they mint (auth.ts), over the claim store.  A login     *)
(* measures the password against the record it found, waits for the hash,  *)
(* and signs a cookie for the version the claim has by then.               *)
(***************************************************************************)
EXTENDS ClaimStore

CONSTANTS Logins, NoCookie   \* login requests, one browser each

VARIABLES
  login,    \* login[l]: where the request of browser l stands
  cookie    \* cookie[l]: the session cookie l holds: name and signed version, and
            \* whether its expiry, signed too, is still to come

sessionVars == <<login, cookie>>
serverVars  == <<storeVars, sessionVars>>

NoLogin == [st |-> "none"]

\* Version 0: the name was not claimed when the cookie was signed.
Cookies == [name : Names, ver : 0..MaxVersion, fresh : BOOLEAN]

SessionsTypeOK ==
  /\ StoreTypeOK
  /\ login \in [Logins -> {NoLogin} \cup [st : {"verifying"}, name : Names, pw : Passwords, seen : Claims]]
  /\ cookie \in [Logins -> Cookies \cup {NoCookie}]

SessionsInit ==
  /\ StoreInit
  /\ login = [l \in Logins |-> NoLogin]
  /\ cookie = [l \in Logins |-> NoCookie]

CreationVersion(s) == 0                                 \* mutant: the same for every claim of s

\* sessionVersionOf: 0 stands for null.
SessionVersionOf(s) == IF claims[s] = NoClaim THEN 0 ELSE claims[s].ver

HasPassword(s) == claims[s] # NoClaim

\* verifyLogin up to its await.  A name without a claim has no valid password: the
\* request is over, with the login page again.
Login(l, s, p) ==
  /\ Quiet /\ login[l] = NoLogin /\ HasPassword(s)
  /\ login' = [login EXCEPT ![l] = [st |-> "verifying", name |-> s, pw |-> p, seen |-> claims[s]]]
  /\ UNCHANGED <<storeVars, cookie>>

\* The hash is in: handleLogin answers in the same turn.
LoggedIn(l) ==
  LET g == login[l] IN
  /\ Quiet /\ g.st = "verifying"
  /\ login' = [login EXCEPT ![l] = NoLogin]
  /\ cookie' = IF g.seen.pw = g.pw
               THEN [cookie EXCEPT ![l] = [name |-> g.name, ver |-> SessionVersionOf(g.name), fresh |-> TRUE]]
               ELSE cookie
  /\ UNCHANGED storeVars

\* A month has passed since the cookie was signed.
Expire(l) ==
  /\ Quiet /\ cookie[l] # NoCookie /\ cookie[l].fresh
  /\ cookie' = [cookie EXCEPT ![l].fresh = FALSE]
  /\ UNCHANGED <<storeVars, login>>

\* The connections, and the logins on them, end with the process; the cookies do not.
LoginsRestart ==
  /\ Quiet /\ Restart
  /\ login' = [l \in Logins |-> NoLogin]
  /\ UNCHANGED cookie

Store == ((\E c \in Callers : Caller(c)) \/ Event) /\ UNCHANGED sessionVars

SessionsNext ==
  \/ Store
  \/ \E l \in Logins : LoggedIn(l) \/ Expire(l) \/ \E s \in Names, p \in Passwords : Login(l, s, p)
  \/ LoginsRestart

SessionsSpec == SessionsInit /\ [][SessionsNext]_serverVars

\* auth.ts verify: the cookie is not expired, its signature is for the current version,
\* and a name without a claim has no valid session.
Verifies(l) ==
  /\ cookie[l] # NoCookie /\ cookie[l].fresh
  /\ claims[cookie[l].name] # NoClaim
  /\ cookie[l].ver = SessionVersionOf(cookie[l].name)

-----------------------------------------------------------------------------
(* Properties.                                                             *)

\* A session that stopped verifying never verifies again: not when the name is claimed
\* anew, with the same password or another, and not after a restart (auth.ts, verify:
\* "when the claim is released and re-created every earlier session stops verifying").
\* A restart from a file that missed a write is excepted: it brings the claim back.
RevokedForGood ==
  [][~behind => \A l \in Logins :
       cookie[l] # NoCookie /\ ~Verifies(l) /\ cookie'[l] = cookie[l] => ~Verifies(l)']_serverVars
=============================================================================
