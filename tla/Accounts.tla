------------------------------ MODULE Accounts ------------------------------
(***************************************************************************)
(* Accounts and logins: the rows of users and external_identities, the     *)
(* cookies browsers hold, and the token bucket in front of /api/auth.      *)
(* Tokens are not stored: a token is its content, and is good until it     *)
(* expires.  Passwords, OAuth codes and signatures are taken to be right;  *)
(* a request whose are not changes nothing but the bucket (SpendRequest).  *)
(***************************************************************************)
EXTENDS Integers, Sequences, FiniteSets

CONSTANTS Browsers, Emails, Discords,
          Users,         \* user ids
          None,
          AccessTtl, RefreshTtl,  \* in lapses of time
          Capacity,      \* auth_rate_per_minute, the bucket's capacity
          TokenCost,     \* moments in which one token flows in
          MaxMoments     \* bound on the moments between lapses

ASSUME AccountsAssumption ==
  /\ AccessTtl \in Nat \ {0} /\ RefreshTtl \in Nat \ {0}
  /\ Capacity \in Nat \ {0} /\ TokenCost \in Nat \ {0} /\ MaxMoments \in Nat
  /\ None \notin Users

VARIABLES accounts,     \* external_identities: user of each email or Discord id
          users,        \* the user ids in table users
          minted,       \* user ids given out, in committed transactions or not
          cookies,      \* per browser: access, refresh, oauth_state
          registering,  \* per browser: the email whose registration is being stored
          bucket,       \* the bucket of the address the browsers share
          moment,       \* time since the last lapse
          admitted,     \* history: requests let through since the last lapse
          ghosts        \* history: user ids first seen by the Discord callback

accountVars == <<accounts, users, minted, cookies, registering, bucket, moment, admitted, ghosts>>

NoCookies == [access |-> None, refresh |-> None, oauth |-> FALSE]

\* issue_pair, set as cookies
Issue(b, u) ==
  cookies' = [cookies EXCEPT ![b].access = [user |-> u, left |-> AccessTtl],
                             ![b].refresh = [user |-> u, left |-> RefreshTtl]]

\* A token of 0 lapses has expired, and its cookie is dropped.
Aged(t) == IF t = None \/ t.left = 1 THEN None ELSE [t EXCEPT !.left = @ - 1]

\* find_user_id, on committed rows
FindUser(i) == accounts[i]

\* IdentityResolver.resolve: the user of the identity; a new one if it has none.
Resolve(i, u) ==
  IF FindUser(i) # None THEN u = FindUser(i) /\ UNCHANGED <<minted, ghosts>>
  ELSE u \notin minted /\ minted' = minted \cup {u} /\ ghosts' = ghosts \cup {u}

AccountsInit ==
  /\ accounts = [i \in Emails \cup Discords |-> None]
  /\ users = {} /\ minted = {} /\ ghosts = {}
  /\ cookies = [b \in Browsers |-> NoCookies]
  /\ registering = [b \in Browsers |-> None]
  /\ bucket = [tokens |-> Capacity * TokenCost, last |-> 0]
  /\ moment = 0 /\ admitted = 0

-----------------------------------------------------------------------------
(* RateLimitMiddleware.  Tokens are counted in units of 1 / TokenCost.      *)

\* Mutant of Refilled: the refill may overflow the bucket.
RefilledOver == bucket.tokens + (moment - bucket.last) + TokenCost

Refilled ==
  LET t == bucket.tokens + (moment - bucket.last)
  IN IF t < Capacity * TokenCost THEN t ELSE Capacity * TokenCost

Admit ==
  /\ Refilled >= TokenCost
  /\ bucket' = [tokens |-> Refilled - TokenCost, last |-> moment]
  /\ admitted' = admitted + 1

\* 429
Refuse ==
  /\ Refilled < TokenCost
  /\ bucket' = [tokens |-> Refilled, last |-> moment]
  /\ UNCHANGED <<accounts, users, minted, cookies, registering, moment, admitted, ghosts>>

\* A request that fails behind the bucket, or only reads: /me, wrong passwords.
SpendRequest ==
  /\ Admit
  /\ UNCHANGED <<accounts, users, minted, cookies, registering, moment, ghosts>>

-----------------------------------------------------------------------------
\* register: the email is looked up (409 if it is taken) ...
BeginRegister(b, e) ==
  /\ Admit
  /\ registering[b] = None /\ FindUser(e) = None
  /\ registering' = [registering EXCEPT ![b] = e]
  /\ UNCHANGED <<accounts, users, minted, cookies, moment, ghosts>>

\* Mutant of FinishRegister: the constraint is missing.
FinishRegisterAnyway(b, u) ==
  /\ registering[b] # None /\ u \notin minted
  /\ minted' = minted \cup {u}
  /\ registering' = [registering EXCEPT ![b] = None]
  /\ accounts' = [accounts EXCEPT ![registering[b]] = u]
  /\ users' = users \cup {u}
  /\ Issue(b, u)
  /\ UNCHANGED <<bucket, moment, admitted, ghosts>>

\* ... and, if no other registration has stored it meanwhile, the user and the
\* identity are inserted and committed together; otherwise the unique constraint
\* fails the request.
FinishRegister(b, u) ==
  /\ registering[b] # None /\ u \notin minted
  /\ minted' = minted \cup {u}
  /\ registering' = [registering EXCEPT ![b] = None]
  /\ IF accounts[registering[b]] = None
     THEN /\ accounts' = [accounts EXCEPT ![registering[b]] = u]
          /\ users' = users \cup {u}
          /\ Issue(b, u)
     ELSE UNCHANGED <<accounts, users, cookies>>
  /\ UNCHANGED <<bucket, moment, admitted, ghosts>>

\* login with the right password
Login(b, e) ==
  /\ Admit
  /\ FindUser(e) # None
  /\ Issue(b, FindUser(e))
  /\ UNCHANGED <<accounts, users, minted, registering, moment, ghosts>>

\* discord_login, discord_link: the state is remembered in a cookie.
DiscordLogin(b) ==
  /\ Admit
  /\ cookies' = [cookies EXCEPT ![b].oauth = TRUE]
  /\ UNCHANGED <<accounts, users, minted, registering, moment, ghosts>>

\* discord_callback: an unknown Discord id gets a new user, but the session that
\* inserts it is closed without a commit.
DiscordCallback(b, x, u) ==
  /\ Admit
  /\ cookies[b].oauth
  /\ Resolve(x, u)
  /\ cookies' = [cookies EXCEPT ![b] = [access |-> [user |-> u, left |-> AccessTtl],
                                        refresh |-> [user |-> u, left |-> RefreshTtl],
                                        oauth |-> FALSE]]
  /\ UNCHANGED <<accounts, users, registering, moment>>

\* refresh_token: the user is not looked up.
Refresh(b) ==
  /\ Admit
  /\ cookies[b].refresh # None
  /\ Issue(b, cookies[b].refresh.user)
  /\ UNCHANGED <<accounts, users, minted, registering, moment, ghosts>>

Logout(b) ==
  /\ Admit
  /\ cookies' = [cookies EXCEPT ![b].access = None, ![b].refresh = None]
  /\ UNCHANGED <<accounts, users, minted, registering, moment, ghosts>>

\* get_current_user: the user of the access token, if there is such a row.
Authenticated(b, u) == cookies[b].access # None /\ cookies[b].access.user = u /\ u \in users

\* A moment passes: a fraction of a token flows in.
Moment ==
  /\ moment < MaxMoments
  /\ moment' = moment + 1
  /\ UNCHANGED <<accounts, users, minted, cookies, registering, bucket, admitted, ghosts>>

\* A lapse of time, long enough to fill the bucket and to outlast oauth_state.
Lapse ==
  /\ cookies' = [b \in Browsers |->
       [access |-> Aged(cookies[b].access), refresh |-> Aged(cookies[b].refresh), oauth |-> FALSE]]
  /\ bucket' = [tokens |-> Capacity * TokenCost, last |-> 0]
  /\ moment' = 0 /\ admitted' = 0
  /\ UNCHANGED <<accounts, users, minted, registering, ghosts>>

AccountsStep ==
  \/ Refuse \/ SpendRequest \/ Moment
  \/ \E b \in Browsers :
       \/ DiscordLogin(b) \/ Refresh(b) \/ Logout(b)
       \/ \E e \in Emails : BeginRegister(b, e) \/ Login(b, e)
       \/ \E u \in Users : FinishRegister(b, u) \/ \E x \in Discords : DiscordCallback(b, x, u)

-----------------------------------------------------------------------------
AccountsTypeOK ==
  /\ accounts \in [Emails \cup Discords -> Users \cup {None}]
  /\ users \subseteq minted /\ ghosts \subseteq minted /\ minted \subseteq Users
  /\ \A b \in Browsers : \A t \in {cookies[b].access, cookies[b].refresh} :
       t # None => t.user \in minted /\ t.left \in 1 .. (AccessTtl + RefreshTtl)
  /\ registering \in [Browsers -> Emails \cup {None}]

\* However registrations of one email overlap, every identity has a user of its own,
\* so that whoever holds a token can log in again as the same user; only the users
\* the Discord callback made up are nobody.
TokensNameAccounts ==
  /\ \A i, j \in Emails \cup Discords : accounts[i] # None /\ accounts[i] = accounts[j] => i = j
  /\ \A b \in Browsers : \A t \in {cookies[b].access, cookies[b].refresh} :
       t # None => (t.user \in ghosts) # (\E i \in Emails \cup Discords : accounts[i] = t.user)

\* However requests are spaced, no more get through than a full bucket holds and what
\* has flowed in since it was full, whatever is refused in between.
RateBounded == admitted * TokenCost <= Capacity * TokenCost + moment

=============================================================================
