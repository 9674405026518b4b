----------------------------- MODULE ChatProofs -----------------------------
(***************************************************************************)
(* Proofs about logins and chats, for any number of browsers, accounts,    *)
(* sessions, messages and requests.  The four invariants are strengthened  *)
(* separately: RateInv bounds what the bucket still holds, AccountInv says *)
(* whom a token may name, FlightInv what a message in flight has done so   *)
(* far, and KeptInv what each request knows of its session.                *)
(***************************************************************************)
EXTENDS Chat, TLAPS

-----------------------------------------------------------------------------
(* The steps of the chat leave the accounts alone, but for the passing of  *)
(* time.                                                                   *)

LEMMA AccountsSteps ==
  ASSUME [Next]_vars
  PROVE  AccountsStep \/ Lapse \/ UNCHANGED accountVars
<1>1. CASE AccountsStep \/ Crash \/ TimePasses
  BY <1>1 DEF Crash, TimePasses
<1>2. ASSUME NEW r \in Requests,
             \/ CommitStart(r) \/ CompletionFails(r) \/ PersistSession(r)
             \/ RecordTurns(r) \/ CommitMessage(r) \/ CutOff(r)
      PROVE  UNCHANGED accountVars
  BY <1>2 DEF CommitStart, CompletionFails, PersistSession, RecordTurns, CommitMessage, CutOff
<1>3. ASSUME NEW r \in Requests, NEW b \in Browsers, NEW u \in Users, NEW s \in Sessions,
             \/ \E k \in KBs : StartChat(r, b, u, k, s)
             \/ \E m \in Messages : SendMessage(r, b, u, s, m)
      PROVE  UNCHANGED accountVars
  BY <1>3 DEF StartChat, StartSession, SendMessage, LoadSession
<1>4. CASE UNCHANGED vars
  BY <1>4 DEF vars
<1>. QED
  BY <1>1, <1>2, <1>3, <1>4 DEF Next

\* What the requests to /api/auth do to the bucket.
LEMMA BucketSteps ==
  ASSUME AccountsStep
  PROVE  \/ Refuse \/ Moment
         \/ Admit /\ UNCHANGED moment
         \/ UNCHANGED <<bucket, moment, admitted>>
<1>1. ASSUME NEW b \in Browsers,
             DiscordLogin(b) \/ Refresh(b) \/ Logout(b)
      PROVE  Admit /\ UNCHANGED moment
  BY <1>1 DEF DiscordLogin, Refresh, Logout
<1>2. ASSUME NEW b \in Browsers, NEW e \in Emails, BeginRegister(b, e) \/ Login(b, e)
      PROVE  Admit /\ UNCHANGED moment
  BY <1>2 DEF BeginRegister, Login
<1>3. ASSUME NEW b \in Browsers, NEW u \in Users, FinishRegister(b, u)
      PROVE  UNCHANGED <<bucket, moment, admitted>>
  BY <1>3 DEF FinishRegister
<1>4. ASSUME NEW b \in Browsers, NEW u \in Users, NEW x \in Discords, DiscordCallback(b, x, u)
      PROVE  Admit /\ UNCHANGED moment
  BY <1>4 DEF DiscordCallback
<1>5. CASE SpendRequest
  BY <1>5 DEF SpendRequest
<1>. QED
  BY <1>1, <1>2, <1>3, <1>4, <1>5 DEF AccountsStep

-----------------------------------------------------------------------------
(* The token bucket.                                                        *)

\* What was let through and what is left together never exceed a full bucket and
\* what has flowed in until it was last refilled.
RateInv ==
  /\ bucket \in [tokens : Nat, last : Nat]
  /\ moment \in Nat /\ admitted \in Nat
  /\ bucket.last <= moment
  /\ admitted * TokenCost + bucket.tokens <= Capacity * TokenCost + bucket.last

LEMMA FullBucket ==
  ASSUME bucket' = [tokens |-> Capacity * TokenCost, last |-> 0], moment' = 0, admitted' = 0
  PROVE  RateInv'
  BY AccountsAssumption DEF RateInv

LEMMA RefilledBound ==
  ASSUME RateInv
  PROVE  /\ Refilled \in Nat
         /\ admitted * TokenCost + Refilled <= Capacity * TokenCost + moment
<1>. DEFINE full == Capacity * TokenCost
            spent == admitted * TokenCost
<1>1. full \in Nat /\ spent \in Nat
  BY AccountsAssumption DEF RateInv
<1>2. Refilled <= bucket.tokens + (moment - bucket.last) /\ Refilled \in Nat
  <2>. HIDE DEF full
  <2>1. Refilled = IF bucket.tokens + (moment - bucket.last) < full
                   THEN bucket.tokens + (moment - bucket.last) ELSE full
    BY DEF Refilled, full
  <2>. QED
    BY <1>1, <2>1 DEF RateInv
<1>3. spent + bucket.tokens <= full + bucket.last
  BY DEF RateInv
<1>. HIDE DEF full, spent
<1>4. spent + Refilled <= full + moment
  BY <1>1, <1>2, <1>3 DEF RateInv
<1>. QED
  BY <1>2, <1>4 DEF full, spent

LEMMA RateNext == RateInv /\ [Next]_vars => RateInv'
<1>. SUFFICES ASSUME RateInv, [Next]_vars PROVE RateInv'
  OBVIOUS
<1>1. CASE Admit /\ UNCHANGED moment
  <2>. DEFINE full == Capacity * TokenCost
              spent == admitted * TokenCost
  <2>1. spent \in Int /\ full \in Int /\ TokenCost \in Nat
    BY AccountsAssumption DEF RateInv
  <2>2. Refilled \in Nat /\ spent + Refilled <= full + moment
    BY RefilledBound
  <2>3. admitted' * TokenCost = spent + TokenCost
    BY <1>1, AccountsAssumption DEF Admit, RateInv
  <2>4. /\ Refilled >= TokenCost
        /\ bucket' = [tokens |-> Refilled - TokenCost, last |-> moment]
        /\ admitted' = admitted + 1 /\ moment' = moment
    BY <1>1 DEF Admit
  <2>. HIDE DEF full, spent
  <2>5. admitted' * TokenCost + bucket'.tokens <= full + bucket'.last
    BY <2>1, <2>2, <2>3, <2>4 DEF RateInv
  <2>. QED
    BY <2>1, <2>2, <2>4, <2>5 DEF RateInv, full
<1>2. CASE Refuse
  BY <1>2, RefilledBound DEF Refuse, RateInv
<1>3. CASE Moment
  BY <1>3, AccountsAssumption DEF Moment, RateInv
<1>4. CASE Lapse
  BY <1>4, FullBucket DEF Lapse
<1>5. CASE UNCHANGED <<bucket, moment, admitted>>
  BY <1>5 DEF RateInv
<1>6. CASE UNCHANGED accountVars
  BY <1>5, <1>6 DEF accountVars
<1>. QED
  BY <1>1, <1>2, <1>3, <1>4, <1>5, <1>6, AccountsSteps, BucketSteps

\* However requests to /api/auth are spaced, between two lapses of time no more of
\* them get through than a full bucket holds and what flows in.
THEOREM ChatRateBounded == Spec => []RateBounded
<1>1. Init => RateInv
  BY FullBucket, AccountsAssumption DEF Init, AccountsInit, RateInv
<1>2. RateInv => RateBounded
  <2>. SUFFICES ASSUME RateInv PROVE RateBounded
    OBVIOUS
  <2>. DEFINE full == Capacity * TokenCost
              spent == admitted * TokenCost
  <2>1. spent \in Int /\ full \in Int
    BY AccountsAssumption DEF RateInv
  <2>2. spent + bucket.tokens <= full + bucket.last
    BY DEF RateInv
  <2>. HIDE DEF full, spent
  <2>3. spent <= full + moment
    BY <2>1, <2>2 DEF RateInv
  <2>. QED
    BY <2>3 DEF RateBounded, full, spent
<1>. QED
  BY <1>1, <1>2, RateNext, PTL DEF Spec

-----------------------------------------------------------------------------
(* Whom tokens name.                                                        *)

Identities == Emails \cup Discords

\* The users that have an identity, or that the Discord callback made up.
Nameable == ghosts \cup {u \in Users : \E i \in Identities : accounts[i] = u}

Tokens == {None} \cup [user : Nameable, left : Int]

AccountInv ==
  /\ accounts \in [Identities -> Users \cup {None}]
  /\ registering \in [Browsers -> Emails \cup {None}]
  /\ ghosts \subseteq minted /\ minted \subseteq Users
  /\ \A i \in Identities : accounts[i] # None => accounts[i] \in minted \ ghosts
  /\ \A i, j \in Identities : accounts[i] # None /\ accounts[i] = accounts[j] => i = j
  /\ cookies \in [Browsers -> [access : Tokens, refresh : Tokens, oauth : BOOLEAN]]

LEMMA AccountInit == Init => AccountInv
  BY DEF Init, AccountsInit, AccountInv, Identities, NoCookies, Tokens

\* Logging in a user a token may name keeps the cookies right.
LEMMA IssueKeeps ==
  ASSUME AccountInv, UNCHANGED <<accounts, registering, minted, ghosts>>,
         NEW b \in Browsers, NEW u \in Nameable, Issue(b, u)
  PROVE  AccountInv'
<1>1. Tokens' = Tokens
  BY DEF Tokens, Nameable
<1>2. [user |-> u, left |-> AccessTtl] \in Tokens /\ [user |-> u, left |-> RefreshTtl] \in Tokens
  BY AccountsAssumption DEF Tokens
<1>3. cookies' \in [Browsers -> [access : Tokens, refresh : Tokens, oauth : BOOLEAN]]
  BY <1>2 DEF Issue, AccountInv
<1>. QED
  BY <1>1, <1>3 DEF AccountInv

LEMMA FinishKeeps ==
  ASSUME AccountInv, NEW b \in Browsers, NEW u \in Users, FinishRegister(b, u)
  PROVE  AccountInv'
<1>. DEFINE e == registering[b]
<1>1. e \in Identities
  BY DEF FinishRegister, AccountInv, Identities
<1>2. minted' = minted \cup {u} /\ u \notin minted /\ UNCHANGED ghosts
  BY DEF FinishRegister
<1>3. registering' \in [Browsers -> Emails \cup {None}]
  BY DEF FinishRegister, AccountInv
<1>4. CASE accounts[e] = None
  <2>1. accounts' = [accounts EXCEPT ![e] = u] /\ Issue(b, u)
    BY <1>4 DEF FinishRegister
  <2>2. accounts' \in [Identities -> Users \cup {None}]
    BY <2>1 DEF AccountInv
  <2>3. \A i \in Identities : accounts'[i] = IF i = e THEN u ELSE accounts[i]
    BY <2>1 DEF AccountInv
  <2>4. \A i \in Identities : accounts'[i] # None => accounts'[i] \in minted' \ ghosts'
    BY <1>2, <2>3 DEF AccountInv
  <2>5. \A i, j \in Identities : accounts'[i] # None /\ accounts'[i] = accounts'[j] => i = j
    BY <1>2, <2>3 DEF AccountInv
  <2>6. Nameable \subseteq Nameable' /\ u \in Nameable'
    BY <1>1, <1>2, <1>4, <2>3, AccountsAssumption DEF Nameable
  <2>7. /\ Tokens \subseteq Tokens'
        /\ [user |-> u, left |-> AccessTtl] \in Tokens'
        /\ [user |-> u, left |-> RefreshTtl] \in Tokens'
    BY <2>6, AccountsAssumption DEF Tokens
  <2>8. cookies' \in [Browsers -> [access : Tokens', refresh : Tokens', oauth : BOOLEAN]]
    BY <2>1, <2>7 DEF Issue, AccountInv
  <2>. QED
    BY <1>2, <1>3, <2>2, <2>4, <2>5, <2>8 DEF AccountInv
<1>5. CASE accounts[e] # None
  <2>1. UNCHANGED <<accounts, cookies>>
    BY <1>5 DEF FinishRegister
  <2>2. Tokens' = Tokens
    BY <1>2, <2>1 DEF Tokens, Nameable
  <2>. QED
    BY <1>2, <1>3, <2>1, <2>2 DEF AccountInv
<1>. QED
  BY <1>4, <1>5

LEMMA CallbackKeeps ==
  ASSUME AccountInv, NEW b \in Browsers, NEW x \in Discords, NEW u \in Users,
         DiscordCallback(b, x, u)
  PROVE  AccountInv'
<1>1. UNCHANGED <<accounts, registering>>
  BY DEF DiscordCallback
<1>2. \/ u = accounts[x] /\ accounts[x] # None /\ UNCHANGED <<minted, ghosts>>
      \/ u \notin minted /\ minted' = minted \cup {u} /\ ghosts' = ghosts \cup {u}
  BY DEF DiscordCallback, Resolve, FindUser
<1>3. \A i \in Identities : accounts'[i] # None => accounts'[i] \in minted' \ ghosts'
  BY <1>1, <1>2 DEF AccountInv
<1>4. Nameable \subseteq Nameable' /\ u \in Nameable'
  BY <1>1, <1>2 DEF Nameable, Identities
<1>5. /\ Tokens \subseteq Tokens'
      /\ [user |-> u, left |-> AccessTtl] \in Tokens'
      /\ [user |-> u, left |-> RefreshTtl] \in Tokens'
  BY <1>4, AccountsAssumption DEF Tokens
<1>6. cookies' \in [Browsers -> [access : Tokens', refresh : Tokens', oauth : BOOLEAN]]
  BY <1>5 DEF DiscordCallback, AccountInv
<1>7. ghosts' \subseteq minted' /\ minted' \subseteq Users
  BY <1>2 DEF AccountInv
<1>. QED
  BY <1>1, <1>3, <1>6, <1>7 DEF AccountInv

\* Steps that store no account and only drop, keep or shorten tokens.
LEMMA CookiesKeep ==
  ASSUME AccountInv, UNCHANGED <<accounts, minted, ghosts>>,
         registering' \in [Browsers -> Emails \cup {None}],
         cookies' \in [Browsers -> [access : Tokens, refresh : Tokens, oauth : BOOLEAN]]
  PROVE  AccountInv'
<1>1. Tokens' = Tokens
  BY DEF Tokens, Nameable
<1>. QED
  BY <1>1 DEF AccountInv

LEMMA AgedTokens ==
  ASSUME AccountInv, NEW t \in Tokens
  PROVE  Aged(t) \in Tokens
<1>1. CASE t = None \/ t.left = 1
  BY <1>1 DEF Aged, Tokens
<1>2. CASE ~(t = None \/ t.left = 1)
  <2>1. t \in [user : Nameable, left : Int]
    BY <1>2 DEF Tokens
  <2>2. Aged(t) = [t EXCEPT !.left = @ - 1]
    BY <1>2 DEF Aged
  <2>. QED
    BY <2>1, <2>2 DEF Tokens
<1>. QED
  BY <1>1, <1>2

LEMMA LapseKeeps == AccountInv /\ Lapse => AccountInv'
<1>. SUFFICES ASSUME AccountInv, Lapse PROVE AccountInv'
  OBVIOUS
<1>1. \A b \in Browsers : Aged(cookies[b].access) \in Tokens /\ Aged(cookies[b].refresh) \in Tokens
  BY AgedTokens DEF AccountInv
<1>2. cookies' \in [Browsers -> [access : Tokens, refresh : Tokens, oauth : BOOLEAN]]
  BY <1>1 DEF Lapse
<1>. QED
  BY <1>2, CookiesKeep DEF Lapse, AccountInv

LEMMA AccountNext == AccountInv /\ [Next]_vars => AccountInv'
<1>. SUFFICES ASSUME AccountInv, [Next]_vars PROVE AccountInv'
  OBVIOUS
<1>1. CASE UNCHANGED <<accounts, cookies, registering, minted, ghosts>>
  BY <1>1, CookiesKeep DEF AccountInv
<1>2. CASE Refuse \/ SpendRequest \/ Moment \/ UNCHANGED accountVars
  BY <1>1, <1>2 DEF Refuse, SpendRequest, Moment, accountVars
<1>3. ASSUME NEW b \in Browsers, DiscordLogin(b)
      PROVE  AccountInv'
  BY <1>3, CookiesKeep DEF DiscordLogin, AccountInv
<1>4. ASSUME NEW b \in Browsers, Logout(b)
      PROVE  AccountInv'
  <2>1. None \in Tokens
    BY DEF Tokens
  <2>. QED
    BY <1>4, <2>1, CookiesKeep DEF Logout, AccountInv
<1>5. ASSUME NEW b \in Browsers, Refresh(b)
      PROVE  AccountInv'
  <2>1. cookies[b].refresh.user \in Nameable
    BY <1>5 DEF Refresh, AccountInv, Tokens
  <2>. QED
    BY <1>5, <2>1, IssueKeeps DEF Refresh
<1>6. ASSUME NEW b \in Browsers, NEW e \in Emails, BeginRegister(b, e)
      PROVE  AccountInv'
  BY <1>6, CookiesKeep DEF BeginRegister, AccountInv
<1>7. ASSUME NEW b \in Browsers, NEW e \in Emails, Login(b, e)
      PROVE  AccountInv'
  <2>1. accounts[e] \in Nameable
    BY <1>7 DEF Login, FindUser, AccountInv, Nameable, Identities
  <2>. QED
    BY <1>7, <2>1, IssueKeeps DEF Login, FindUser
<1>. QED
  BY <1>2, <1>3, <1>4, <1>5, <1>6, <1>7, FinishKeeps, CallbackKeeps, LapseKeeps,
     AccountsSteps DEF AccountsStep

\* However registrations of one email overlap, no two identities have one user, and
\* a token names the user of an identity unless the Discord callback made that user up.
THEOREM ChatTokensNameAccounts == Spec => []TokensNameAccounts
<1>1. AccountInv => TokensNameAccounts
  <2>. SUFFICES ASSUME AccountInv PROVE TokensNameAccounts
    OBVIOUS
  <2>1. ASSUME NEW b \in Browsers, NEW t \in {cookies[b].access, cookies[b].refresh}, t # None
        PROVE  (t.user \in ghosts) # (\E i \in Identities : accounts[i] = t.user)
    <3>1. t.user \in Nameable
      BY <2>1 DEF AccountInv, Tokens
    <3>2. t.user \in ghosts <=> ~ \E i \in Identities : accounts[i] = t.user
      BY <3>1, AccountsAssumption DEF AccountInv, Nameable
    <3>. QED
      BY <3>2
  <2>2. \A i, j \in Identities : accounts[i] # None /\ accounts[i] = accounts[j] => i = j
    BY DEF AccountInv
  <2>. QED
    BY <2>1, <2>2 DEF TokensNameAccounts, Identities
<1>. QED
  BY <1>1, AccountInit, AccountNext, PTL DEF Spec

-----------------------------------------------------------------------------
(* Messages in flight.                                                      *)

Asked == AtWork({"asking"})
InFlight == AtWork(Answering)

\* What a request remembers, as far as the proofs need it.
RequestOK(q) ==
  \/ q.pc \in {"idle", "started"}
  \/ q.pc \in Answering /\ q.session \in Sessions /\ q.message \in Messages

\* A message is in flight once, has an answer from "stored" on, and is early exactly
\* if its turns were not recorded; a message cut off is no longer in flight.
FlightInv ==
  /\ DOMAIN request = Requests
  /\ \A r \in Requests : RequestOK(request[r])
  /\ \A r \in InFlight :
       /\ Message(r) \notin cut
       /\ request[r].pc = "asking" <=> Message(r) \notin answered
       /\ request[r].pc = "unrecorded" <=> Message(r) \in early
  /\ \A r, q \in InFlight : Message(r) = Message(q) => r = q
  /\ early \subseteq answered

AuditInv == FlightInv /\ AuditComplete

LEMMA AuditInit == Init => AuditInv
  BY DEF Init, ChatInit, AuditInv, FlightInv, AuditComplete, InFlight, AtWork, Answering,
         RequestOK, Idle

\* A request that stays in flight, with the same message.
LEMMA AuditPersist ==
  ASSUME AuditInv, NEW r \in Requests, PersistSession(r)
  PROVE  AuditInv'
<1>1. /\ request[r].pc = "asking" /\ request' = [request EXCEPT ![r].pc = "stored"]
      /\ answered' = answered \cup {Message(r)}
      /\ UNCHANGED <<audited, early, cut>>
  BY DEF PersistSession, Go
<1>2. \A q \in Requests : request'[q].pc = IF q = r THEN "stored" ELSE request[q].pc
  BY <1>1 DEF AuditInv, FlightInv
<1>3. \A q \in InFlight : /\ Message(q)' = Message(q)
                          /\ request'[q].session = request[q].session
                          /\ request'[q].message = request[q].message
  BY <1>1 DEF AuditInv, FlightInv, Message, InFlight, AtWork
<1>4. InFlight' = InFlight /\ r \in InFlight
  BY <1>1, <1>2 DEF InFlight, AtWork, Answering
<1>5. FlightInv'
  BY <1>1, <1>2, <1>3, <1>4 DEF AuditInv, FlightInv, RequestOK, InFlight, AtWork, Answering
<1>. QED
  BY <1>1, <1>3, <1>4, <1>5 DEF AuditInv, AuditComplete, InFlight

LEMMA AuditRecord ==
  ASSUME AuditInv, NEW r \in Requests, RecordTurns(r)
  PROVE  AuditInv'
<1>1. PICK pc \in {"recorded", "unrecorded"} :
        /\ request[r].pc = "stored" /\ request' = [request EXCEPT ![r].pc = pc]
        /\ early' = IF pc = "recorded" THEN early ELSE early \cup {Message(r)}
        /\ UNCHANGED <<audited, answered, cut>>
  BY DEF RecordTurns, Go
<1>2. \A q \in Requests : request'[q].pc = IF q = r THEN pc ELSE request[q].pc
  BY <1>1 DEF AuditInv, FlightInv
<1>3. \A q \in InFlight : /\ Message(q)' = Message(q)
                          /\ request'[q].session = request[q].session
                          /\ request'[q].message = request[q].message
  BY <1>1 DEF AuditInv, FlightInv, Message, InFlight, AtWork
<1>4. InFlight' = InFlight /\ r \in InFlight
  BY <1>1, <1>2 DEF InFlight, AtWork, Answering
<1>5. FlightInv'
  BY <1>1, <1>2, <1>3, <1>4 DEF AuditInv, FlightInv, RequestOK, InFlight, AtWork, Answering
<1>6. AuditComplete'
  BY <1>1, <1>3, <1>4 DEF AuditInv, FlightInv, AuditComplete, InFlight
<1>. QED
  BY <1>5, <1>6 DEF AuditInv

\* A request that ends.
LEMMA Ended ==
  ASSUME AuditInv, NEW r \in Requests, End(r)
  PROVE  /\ InFlight' = InFlight \ {r}
         /\ \A q \in InFlight' : request'[q] = request[q] /\ Message(q)' = Message(q)
         /\ DOMAIN request' = Requests
         /\ \A q \in Requests : RequestOK(request'[q])
  BY DEF AuditInv, FlightInv, End, Idle, InFlight, AtWork, Answering, Message, RequestOK

LEMMA AuditEnd ==
  ASSUME AuditInv, NEW r \in Requests,
         CommitStart(r) \/ CompletionFails(r) \/ CommitMessage(r) \/ CutOff(r)
  PROVE  AuditInv'
<1>1. End(r) /\ UNCHANGED <<answered, early>>
  BY DEF CommitStart, CompletionFails, CommitMessage, CutOff
<1>2. cut \subseteq cut' /\ cut' \subseteq cut \cup {Message(r)}
  BY DEF CommitStart, CompletionFails, CommitMessage, CutOff, Work
<1>3. CASE r \notin InFlight
  <2>1. audited' = audited /\ cut' = cut
    BY <1>3 DEF CommitStart, CompletionFails, CommitMessage, CutOff, Work, InFlight, AtWork,
                Answering, AuditInv, FlightInv, RequestOK
  <2>2. InFlight' = InFlight
    BY <1>1, <1>3, Ended
  <2>3. FlightInv'
    BY <1>1, <2>1, <2>2, Ended DEF AuditInv, FlightInv
  <2>. QED
    BY <1>1, <2>1, <2>2, <2>3, Ended DEF AuditInv, AuditComplete, InFlight
<1>4. CASE r \in InFlight
  <2>1. \A q \in InFlight' : Message(q) # Message(r)
    BY <1>1, <1>4, Ended DEF AuditInv, FlightInv
  <2>2. FlightInv'
    <3>1. \A q \in InFlight' :
            /\ Message(q)' \notin cut'
            /\ request'[q].pc = "asking" <=> Message(q)' \notin answered'
            /\ request'[q].pc = "unrecorded" <=> Message(q)' \in early'
      BY <1>1, <1>2, <2>1, Ended DEF AuditInv, FlightInv
    <3>2. \A q, p \in InFlight' : Message(q)' = Message(p)' => q = p
      BY <1>1, Ended DEF AuditInv, FlightInv
    <3>3. early' \subseteq answered'
      BY <1>1 DEF AuditInv, FlightInv
    <3>. QED
      BY <1>1, <3>1, <3>2, <3>3, Ended DEF FlightInv
  <2>3. {Message(q) : q \in InFlight} = {Message(q)' : q \in InFlight'} \cup {Message(r)}
    BY <1>1, <1>4, Ended
  <2>4. CASE CompletionFails(r)
    <3>1. Message(r) \notin answered /\ UNCHANGED <<audited, cut>>
      BY <1>4, <2>4 DEF CompletionFails, AuditInv, FlightInv
    <3>. QED
      BY <1>1, <2>2, <2>3, <3>1 DEF AuditInv, AuditComplete, InFlight
  <2>5. CASE CommitMessage(r)
    <3>1. /\ request[r].pc \in {"recorded", "unrecorded"} /\ cut' = cut
          /\ audited' = IF request[r].pc = "recorded" THEN audited \cup {Message(r)} ELSE audited
      BY <2>5 DEF CommitMessage
    <3>2. /\ Message(r) \in answered /\ Message(r) \notin cut
          /\ Message(r) \in early <=> request[r].pc # "recorded"
      BY <1>4, <3>1 DEF AuditInv, FlightInv
    <3>3. \A q \in InFlight' : Message(q)' # Message(r)
      BY <1>1, <2>1, Ended
    <3>. QED
      BY <1>1, <2>2, <2>3, <3>1, <3>2, <3>3 DEF AuditInv, AuditComplete, InFlight
  <2>6. CASE CutOff(r)
    <3>1. cut' = cut \cup {Message(r)} /\ audited' = audited
      BY <1>4, <2>6 DEF CutOff, Work, InFlight, AtWork, Answering
    <3>. QED
      BY <1>1, <2>2, <2>3, <3>1 DEF AuditInv, AuditComplete, InFlight
  <2>7. ~CommitStart(r)
    BY <1>4 DEF CommitStart, InFlight, AtWork, Answering
  <2>. QED
    BY <2>4, <2>5, <2>6, <2>7
<1>. QED
  BY <1>3, <1>4

LEMMA AuditStart ==
  ASSUME AuditInv, NEW r \in Requests, NEW u \in Users, NEW s \in Sessions, StartSession(r, u, s)
  PROVE  AuditInv'
<1>1. /\ request[r] = Idle /\ request' = [request EXCEPT ![r] = [pc |-> "started", session |-> s]]
      /\ UNCHANGED <<audited, answered, early, cut>>
  BY DEF StartSession
<1>2. InFlight' = InFlight
  BY <1>1 DEF InFlight, AtWork, Answering, Idle, AuditInv, FlightInv
<1>3. \A q \in InFlight : request'[q] = request[q] /\ Message(q)' = Message(q)
  BY <1>1 DEF InFlight, AtWork, Answering, Idle, AuditInv, FlightInv, Message
<1>4. \A q \in Requests : RequestOK(request'[q])
  BY <1>1 DEF RequestOK, AuditInv, FlightInv
<1>. QED
  BY <1>1, <1>2, <1>3, <1>4 DEF AuditInv, FlightInv, AuditComplete, InFlight

LEMMA AuditLoad ==
  ASSUME AuditInv, NEW r \in Requests, NEW u \in Users, NEW s \in Sessions, NEW m \in Messages,
         LoadSession(r, u, s, m)
  PROVE  AuditInv'
<1>1. /\ request[r] = Idle
      /\ <<s, m>> \notin answered /\ <<s, m>> \notin cut
      /\ \A q \in InFlight : Message(q) # <<s, m>>
      /\ UNCHANGED <<audited, answered, early, cut>>
  BY DEF LoadSession, InFlight
<1>2. request' = [request EXCEPT ![r] =
        [pc |-> "asking", session |-> s, message |-> m, copy |-> session[s].turns]]
  BY DEF LoadSession
<1>3. InFlight' = InFlight \cup {r} /\ r \notin InFlight
  BY <1>1, <1>2 DEF InFlight, AtWork, Answering, Idle, AuditInv, FlightInv
<1>4. \A q \in InFlight : request'[q] = request[q] /\ Message(q)' = Message(q)
  BY <1>2, <1>3 DEF AuditInv, FlightInv, Message
<1>5. request'[r].pc = "asking" /\ Message(r)' = <<s, m>>
  BY <1>2 DEF AuditInv, FlightInv, Message
<1>6. \A q \in Requests : RequestOK(request'[q])
  BY <1>2 DEF RequestOK, AuditInv, FlightInv, Answering
<1>7. {Message(q)' : q \in InFlight'} = {Message(q) : q \in InFlight} \cup {<<s, m>>}
  BY <1>3, <1>4, <1>5
<1>8. FlightInv'
  BY <1>1, <1>2, <1>3, <1>4, <1>5, <1>6 DEF AuditInv, FlightInv
<1>. QED
  BY <1>1, <1>7, <1>8 DEF AuditInv, AuditComplete, InFlight

LEMMA AuditCrash == AuditInv /\ Crash => AuditInv'
<1>. SUFFICES ASSUME AuditInv, Crash PROVE AuditInv'
  OBVIOUS
<1>1. /\ request' = [r \in Requests |-> Idle]
      /\ cut' = cut \cup UNION {Work(r) : r \in Requests}
      /\ UNCHANGED <<audited, answered, early>>
  BY DEF Crash
<1>2. InFlight' = {}
  BY <1>1 DEF InFlight, AtWork, Answering, Idle
<1>3. UNION {Work(r) : r \in Requests} = {Message(r) : r \in InFlight}
  BY DEF Work, InFlight, AtWork, Answering, AuditInv, FlightInv, RequestOK
<1>4. FlightInv'
  BY <1>1, <1>2 DEF FlightInv, AuditInv, RequestOK, Idle
<1>. QED
  BY <1>1, <1>2, <1>3, <1>4 DEF AuditInv, AuditComplete, InFlight

LEMMA AuditNext == AuditInv /\ [Next]_vars => AuditInv'
<1>. SUFFICES ASSUME AuditInv, [Next]_vars PROVE AuditInv'
  OBVIOUS
<1>1. CASE UNCHANGED <<request, audited, answered, early, cut>>
  BY <1>1 DEF AuditInv, FlightInv, AuditComplete, InFlight, AtWork, Message
<1>2. CASE UNCHANGED vars \/ (AccountsStep /\ UNCHANGED chatVars) \/ TimePasses
  BY <1>1, <1>2 DEF vars, chatVars, TimePasses
<1>3. ASSUME NEW b \in Browsers, NEW u \in Users, NEW s \in Sessions,
             \/ \E k \in KBs, r \in Requests : StartChat(r, b, u, k, s)
             \/ \E m \in Messages, r \in Requests : SendMessage(r, b, u, s, m)
      PROVE  AuditInv'
  BY <1>3, AuditStart, AuditLoad DEF StartChat, SendMessage
<1>. QED
  BY <1>2, <1>3, AuditPersist, AuditRecord, AuditEnd, AuditCrash DEF Next

\* Every answered message is audited in the end, and nothing else is: exempt are the
\* messages answered before their session's row was committed, and those cut off.
THEOREM ChatAuditComplete == Spec => []AuditComplete
<1>1. AuditInv => AuditComplete
  BY DEF AuditInv
<1>. QED
  BY <1>1, AuditInit, AuditNext, PTL DEF Spec

-----------------------------------------------------------------------------
(* What a session keeps.                                                    *)

Turns(q) == {q[i] : i \in DOMAIN q}

LEMMA AppendKeeps ==
  ASSUME NEW q \in Seq(Messages), NEW m \in Messages
  PROVE  Append(q, m) \in Seq(Messages) /\ Turns(q) \cup {m} \subseteq Turns(Append(q, m))
<1>1. /\ Append(q, m) \in Seq(Messages)
      /\ DOMAIN q = 1 .. Len(q) /\ DOMAIN Append(q, m) = 1 .. Len(q) + 1 /\ Len(q) \in Nat
      /\ \A i \in 1 .. Len(q) : Append(q, m)[i] = q[i]
      /\ Append(q, m)[Len(q) + 1] = m
  OBVIOUS
<1>2. 1 .. Len(q) \subseteq 1 .. Len(q) + 1 /\ Len(q) + 1 \in 1 .. Len(q) + 1
  BY <1>1
<1>. QED
  BY <1>1, <1>2 DEF Turns

Session == [user : Users \cup {None}, left : Nat, turns : Seq(Messages)]

\* What request r would store of session s.
Base(r) == IF backend = "memory" THEN session[request[r].session].turns ELSE request[r].copy

\* A session keeps its answered messages, dead or alive; so does what a request read of
\* it, except for messages that were in flight with it; and of two such messages both
\* are known to be crossed.
KeptInv ==
  /\ session \in [Sessions -> Session]
  /\ \A r \in Asked : request[r].copy \in Seq(Messages)
  /\ \A s \in Sessions, m \in Messages :
       <<s, m>> \in answered =>
         \/ m \in Turns(session[s].turns)
         \/ backend = "redis" /\ <<s, m>> \in crossed
  /\ \A s \in Sessions : session[s].user = None =>
       /\ \A m \in Messages : <<s, m>> \notin answered
       /\ \A r \in Asked : request[r].session # s
  /\ \A r \in Asked, m \in Messages :
       <<request[r].session, m>> \in answered =>
         m \in Turns(Base(r)) \/ (backend = "redis" /\ <<request[r].session, m>> \in crossed)
  /\ \A r, q \in Asked :
       r # q /\ request[r].session = request[q].session => Message(r) \in crossed
  /\ answered \subseteq Sessions \X Messages

AnsweredInv == FlightInv /\ KeptInv /\ backend \in {"memory", "redis"}

LEMMA KeptInit == Init => KeptInv
<1>. SUFFICES ASSUME Init PROVE KeptInv
  OBVIOUS
<1>1. session = [s \in Sessions |-> [user |-> None, left |-> 0, turns |-> <<>>]]
      /\ answered = {} /\ Asked = {}
  BY DEF Init, ChatInit, Asked, AtWork, Idle
<1>. QED
  BY <1>1 DEF KeptInv, Session

\* A request begins to ask: it knows what the session keeps.
LEMMA KeptLoad ==
  ASSUME AnsweredInv, NEW r \in Requests, NEW u \in Users, NEW s \in Sessions, NEW m \in Messages,
         LoadSession(r, u, s, m)
  PROVE  KeptInv'
<1>1. /\ request[r] = Idle /\ session[s].user = u /\ u # None
      /\ request' = [request EXCEPT ![r] =
           [pc |-> "asking", session |-> s, message |-> m, copy |-> session[s].turns]]
      /\ UNCHANGED <<session, answered, backend>>
  BY AccountsAssumption DEF LoadSession
<1>2. DOMAIN request = Requests
  BY DEF AnsweredInv, FlightInv
<1>3. Asked' = Asked \cup {r} /\ r \notin Asked
  BY <1>1, <1>2 DEF Asked, AtWork, Idle
<1>4. \A q \in Asked : request'[q] = request[q] /\ Message(q)' = Message(q) /\ Base(q)' = Base(q)
  BY <1>1, <1>2, <1>3 DEF Message, Base
<1>5. /\ request'[r].session = s /\ request'[r].copy = session[s].turns
      /\ Message(r)' = <<s, m>> /\ Base(r)' = session[s].turns
  BY <1>1, <1>2 DEF Message, Base
<1>6. /\ crossed \subseteq crossed'
      /\ \A q \in Asked : request[q].session = s => Message(q) \in crossed' /\ <<s, m>> \in crossed'
  BY DEF LoadSession, Asked
<1>7. session[s].turns \in Seq(Messages)
  BY DEF AnsweredInv, KeptInv, Session
<1>8. \A q \in Asked' : request'[q].copy \in Seq(Messages)
  BY <1>3, <1>4, <1>5, <1>7 DEF AnsweredInv, KeptInv
<1>9. \A t \in Sessions, n \in Messages :
        <<t, n>> \in answered' =>
          n \in Turns(session'[t].turns) \/ (backend' = "redis" /\ <<t, n>> \in crossed')
  BY <1>1, <1>6 DEF AnsweredInv, KeptInv
<1>10. \A t \in Sessions : session'[t].user = None =>
         /\ \A n \in Messages : <<t, n>> \notin answered'
         /\ \A q \in Asked' : request'[q].session # t
  BY <1>1, <1>3, <1>4, <1>5 DEF AnsweredInv, KeptInv
<1>11. \A q \in Asked', n \in Messages :
         <<request'[q].session, n>> \in answered' =>
           n \in Turns(Base(q)') \/ (backend' = "redis" /\ <<request'[q].session, n>> \in crossed')
  BY <1>1, <1>3, <1>4, <1>5, <1>6 DEF AnsweredInv, KeptInv
<1>12. \A p, q \in Asked' :
         p # q /\ request'[p].session = request'[q].session => Message(p)' \in crossed'
  BY <1>3, <1>4, <1>5, <1>6 DEF AnsweredInv, KeptInv
<1>. QED
  BY <1>1, <1>8, <1>9, <1>10, <1>11, <1>12 DEF KeptInv, AnsweredInv

\* A new session has no messages.
LEMMA KeptStart ==
  ASSUME AnsweredInv, NEW r \in Requests, NEW u \in Users, NEW s \in Sessions, StartSession(r, u, s)
  PROVE  KeptInv'
<1>1. /\ request[r] = Idle /\ session[s].user = None /\ u # None
      /\ session' = [session EXCEPT ![s] = [user |-> u, left |-> ChatTtl, turns |-> <<>>]]
      /\ request' = [request EXCEPT ![r] = [pc |-> "started", session |-> s]]
      /\ UNCHANGED <<answered, crossed, backend>>
  BY AccountsAssumption DEF StartSession, Store
<1>2. DOMAIN request = Requests
  BY DEF AnsweredInv, FlightInv
<1>3. Asked' = Asked /\ r \notin Asked
  BY <1>1, <1>2 DEF Asked, AtWork, Idle
<1>4. \A q \in Asked : request'[q] = request[q] /\ Message(q)' = Message(q) /\ request[q].session # s
  BY <1>1, <1>2, <1>3 DEF Message, AnsweredInv, KeptInv
<1>5. \A q \in Asked : request[q].session \in Sessions
  BY DEF Asked, AtWork, AnsweredInv, FlightInv, RequestOK
<1>6. \A q \in Asked : Base(q)' = Base(q)
  BY <1>1, <1>4, <1>5 DEF Base, AnsweredInv, KeptInv
<1>7. session' \in [Sessions -> Session]
  BY <1>1, ChatAssumption DEF AnsweredInv, KeptInv, Session
<1>8. \A t \in Sessions : t # s => session'[t] = session[t]
  BY <1>1 DEF AnsweredInv, KeptInv
<1>9. session'[s].user # None /\ \A m \in Messages : <<s, m>> \notin answered
  BY <1>1 DEF AnsweredInv, KeptInv
<1>. QED
  BY <1>1, <1>3, <1>4, <1>6, <1>7, <1>8, <1>9 DEF KeptInv, AnsweredInv

\* What is stored with an answer keeps all that was answered before, but for messages
\* that were in flight with it; whoever else still asks has crossed it.
LEMMA KeptPersist ==
  ASSUME AnsweredInv, NEW r \in Requests, PersistSession(r)
  PROVE  KeptInv'
<1>. DEFINE s == request[r].session
            m == request[r].message
            new == Append(Base(r), m)
<1>1. /\ r \in Asked /\ request' = [request EXCEPT ![r].pc = "stored"]
      /\ session' = [session EXCEPT ![s] = [user |-> session[s].user, left |-> ChatTtl, turns |-> new]]
      /\ answered' = answered \cup {<<s, m>>}
      /\ UNCHANGED <<crossed, backend>>
  BY DEF PersistSession, Store, Go, Asked, AtWork, Message, History, Base
<1>2. DOMAIN request = Requests /\ s \in Sessions /\ m \in Messages
  BY <1>1 DEF AnsweredInv, FlightInv, RequestOK, Asked, AtWork
<1>3. Asked' = Asked \ {r}
  BY <1>1, <1>2 DEF Asked, AtWork
<1>4. \A q \in Asked' : request'[q] = request[q] /\ Message(q)' = Message(q)
  BY <1>1, <1>2, <1>3 DEF Message
<1>5. Base(r) \in Seq(Messages)
  BY <1>1, <1>2 DEF AnsweredInv, KeptInv, Session, Base
<1>. HIDE DEF new
<1>6. new \in Seq(Messages) /\ Turns(Base(r)) \cup {m} \subseteq Turns(new)
  BY <1>2, <1>5, AppendKeeps DEF new
<1>7. session'[s].turns = new /\ session'[s].user = session[s].user /\ session[s].user # None
  BY <1>1, <1>2 DEF AnsweredInv, KeptInv
<1>8. \A t \in Sessions : t # s => session'[t] = session[t]
  BY <1>1 DEF AnsweredInv, KeptInv
<1>9. session' \in [Sessions -> Session]
  BY <1>1, <1>2, <1>6, ChatAssumption DEF AnsweredInv, KeptInv, Session
<1>10. \A t \in Sessions, n \in Messages :
         <<t, n>> \in answered' =>
           n \in Turns(session'[t].turns) \/ (backend' = "redis" /\ <<t, n>> \in crossed')
  <2>. SUFFICES ASSUME NEW t \in Sessions, NEW n \in Messages, <<t, n>> \in answered'
                PROVE  n \in Turns(session'[t].turns) \/ (backend' = "redis" /\ <<t, n>> \in crossed')
    OBVIOUS
  <2>1. CASE t # s
    BY <1>1, <1>8, <2>1 DEF AnsweredInv, KeptInv
  <2>2. CASE t = s /\ n = m
    BY <1>6, <1>7, <2>2
  <2>3. CASE t = s /\ n # m
    <3>1. <<s, n>> \in answered
      BY <1>1, <2>3
    <3>2. n \in Turns(Base(r)) \/ (backend = "redis" /\ <<s, n>> \in crossed)
      BY <1>1, <3>1 DEF AnsweredInv, KeptInv
    <3>. QED
      BY <1>1, <1>6, <1>7, <2>3, <3>2
  <2>. QED
    BY <2>1, <2>2, <2>3
<1>11. \A t \in Sessions : session'[t].user = None =>
         /\ \A n \in Messages : <<t, n>> \notin answered'
         /\ \A q \in Asked' : request'[q].session # t
  BY <1>1, <1>3, <1>4, <1>7, <1>8 DEF AnsweredInv, KeptInv
<1>12. \A q \in Asked', n \in Messages :
         <<request'[q].session, n>> \in answered' =>
           n \in Turns(Base(q)') \/ (backend' = "redis" /\ <<request'[q].session, n>> \in crossed')
  <2>. SUFFICES ASSUME NEW q \in Asked', NEW n \in Messages, <<request'[q].session, n>> \in answered'
                PROVE  n \in Turns(Base(q)')
                       \/ (backend' = "redis" /\ <<request'[q].session, n>> \in crossed')
    OBVIOUS
  <2>1. q \in Asked /\ request'[q] = request[q] /\ request[q].session \in Sessions
    BY <1>3, <1>4 DEF AnsweredInv, FlightInv, RequestOK, Asked, AtWork
  <2>2. CASE backend = "memory"
    BY <1>1, <1>10, <2>1, <2>2 DEF Base
  <2>3. CASE backend = "redis"
    <3>1. Base(q)' = Base(q)
      BY <1>1, <2>1, <2>3 DEF Base
    <3>2. CASE <<request[q].session, n>> \in answered
      BY <1>1, <2>1, <3>1, <3>2 DEF AnsweredInv, KeptInv
    <3>3. CASE <<request[q].session, n>> = <<s, m>>
      BY <1>1, <1>3, <2>1, <2>3, <3>3 DEF AnsweredInv, KeptInv, Message
    <3>. QED
      BY <1>1, <2>1, <3>2, <3>3
  <2>. QED
    BY <2>2, <2>3 DEF AnsweredInv
<1>13. \A p, q \in Asked' :
         p # q /\ request'[p].session = request'[q].session => Message(p)' \in crossed'
  BY <1>1, <1>3, <1>4 DEF AnsweredInv, KeptInv
<1>14. answered' \subseteq Sessions \X Messages
  BY <1>1, <1>2 DEF AnsweredInv, KeptInv
<1>15. \A q \in Asked' : request'[q].copy \in Seq(Messages)
  BY <1>3, <1>4 DEF AnsweredInv, KeptInv
<1>. QED
  BY <1>9, <1>10, <1>11, <1>12, <1>13, <1>14, <1>15 DEF KeptInv

\* Steps that store no session and ask no model; sessions may run out of time.
LEMMA KeptFrame ==
  ASSUME AnsweredInv, UNCHANGED <<answered, crossed, backend>>,
         session' \in [Sessions -> Session],
         \A s \in Sessions : /\ session'[s].user = session[s].user
                             /\ session'[s].turns = session[s].turns,
         Asked' \subseteq Asked, \A q \in Asked' : request'[q] = request[q]
  PROVE  KeptInv'
<1>1. \A q \in Asked' : request[q].session \in Sessions
  BY DEF Asked, AtWork, AnsweredInv, FlightInv, RequestOK
<1>2. \A q \in Asked' : Base(q)' = Base(q) /\ Message(q)' = Message(q)
  BY <1>1 DEF Base, Message
<1>. QED
  BY <1>2 DEF AnsweredInv, KeptInv

LEMMA KeptRest ==
  ASSUME AnsweredInv, NEW r \in Requests,
         CommitStart(r) \/ CompletionFails(r) \/ RecordTurns(r) \/ CommitMessage(r) \/ CutOff(r)
  PROVE  KeptInv'
<1>1. UNCHANGED <<answered, crossed, backend, session>>
  BY DEF CommitStart, CompletionFails, RecordTurns, CommitMessage, CutOff
<1>2. \/ request' = [request EXCEPT ![r] = Idle]
      \/ request[r].pc = "stored" /\ request' = [request EXCEPT ![r].pc = "recorded"]
      \/ request[r].pc = "stored" /\ request' = [request EXCEPT ![r].pc = "unrecorded"]
  BY DEF CommitStart, CompletionFails, RecordTurns, CommitMessage, CutOff, End, Go
<1>3. DOMAIN request = Requests
  BY DEF AnsweredInv, FlightInv
<1>4. /\ request'[r].pc # "asking"
      /\ \A q \in Requests : q # r => request'[q] = request[q]
  <2>1. CASE request' = [request EXCEPT ![r] = Idle]
    BY <1>3, <2>1 DEF Idle
  <2>2. CASE request' = [request EXCEPT ![r].pc = "recorded"]
    BY <1>3, <2>2
  <2>3. CASE request' = [request EXCEPT ![r].pc = "unrecorded"]
    BY <1>3, <2>3
  <2>. QED
    BY <1>2, <2>1, <2>2, <2>3
<1>5. Asked' \subseteq Asked /\ \A q \in Asked' : request'[q] = request[q]
  BY <1>4 DEF Asked, AtWork
<1>. QED
  BY <1>1, <1>5, KeptFrame DEF AnsweredInv, KeptInv

LEMMA KeptCrash == AnsweredInv /\ Crash => KeptInv'
<1>. SUFFICES ASSUME AnsweredInv, Crash PROVE KeptInv'
  OBVIOUS
<1>1. /\ request' = [r \in Requests |-> Idle] /\ UNCHANGED <<answered, crossed, backend>>
      /\ \/ session' = session
         \/ session' = [s \in Sessions |-> [session[s] EXCEPT !.left = 0]]
  BY DEF Crash
<1>2. Asked' = {}
  BY <1>1 DEF Asked, AtWork, Idle
<1>3. /\ session' \in [Sessions -> Session]
      /\ \A s \in Sessions : /\ session'[s].user = session[s].user
                             /\ session'[s].turns = session[s].turns
  <2>1. CASE session' = session
    BY <2>1 DEF AnsweredInv, KeptInv
  <2>2. CASE session' = [s \in Sessions |-> [session[s] EXCEPT !.left = 0]]
    BY <2>2 DEF AnsweredInv, KeptInv, Session
  <2>. QED
    BY <1>1, <2>1, <2>2
<1>. QED
  BY <1>1, <1>2, <1>3, KeptFrame

LEMMA KeptTime == AnsweredInv /\ TimePasses => KeptInv'
<1>. SUFFICES ASSUME AnsweredInv, TimePasses PROVE KeptInv'
  OBVIOUS
<1>1. session' = [s \in Sessions |->
        [session[s] EXCEPT !.left = IF session[s].left = 0 THEN 0 ELSE session[s].left - 1]]
      /\ UNCHANGED <<request, answered, crossed, backend>>
  BY DEF TimePasses
<1>2. /\ session' \in [Sessions -> Session]
      /\ \A s \in Sessions : /\ session'[s].user = session[s].user
                             /\ session'[s].turns = session[s].turns
  BY <1>1 DEF AnsweredInv, KeptInv, Session
<1>3. Asked' = Asked
  BY <1>1 DEF Asked, AtWork
<1>. QED
  BY <1>1, <1>2, <1>3, KeptFrame

LEMMA KeptNext == AnsweredInv /\ [Next]_vars => KeptInv'
<1>. SUFFICES ASSUME AnsweredInv, [Next]_vars PROVE KeptInv'
  OBVIOUS
<1>1. CASE UNCHANGED chatVars
  BY <1>1, KeptFrame DEF chatVars, Asked, AtWork, AnsweredInv, KeptInv
<1>2. CASE UNCHANGED vars
  BY <1>1, <1>2 DEF vars
<1>3. ASSUME NEW b \in Browsers, NEW u \in Users, NEW s \in Sessions,
             \/ \E k \in KBs, r \in Requests : StartChat(r, b, u, k, s)
             \/ \E m \in Messages, r \in Requests : SendMessage(r, b, u, s, m)
      PROVE  KeptInv'
  BY <1>3, KeptStart, KeptLoad DEF StartChat, SendMessage
<1>. QED
  BY <1>1, <1>2, <1>3, KeptPersist, KeptRest, KeptCrash, KeptTime DEF Next

LEMMA BackendFixed == [Next]_vars => UNCHANGED backend
<1>1. ASSUME NEW r \in Requests,
             \/ CommitStart(r) \/ CompletionFails(r) \/ PersistSession(r)
             \/ RecordTurns(r) \/ CommitMessage(r) \/ CutOff(r)
      PROVE  UNCHANGED backend
  BY <1>1 DEF CommitStart, CompletionFails, PersistSession, RecordTurns, CommitMessage, CutOff
<1>2. ASSUME NEW r \in Requests, NEW b \in Browsers, NEW u \in Users, NEW s \in Sessions,
             \/ \E k \in KBs : StartChat(r, b, u, k, s)
             \/ \E m \in Messages : SendMessage(r, b, u, s, m)
      PROVE  UNCHANGED backend
  BY <1>2 DEF StartChat, StartSession, SendMessage, LoadSession
<1>3. CASE UNCHANGED chatVars \/ UNCHANGED vars \/ Crash \/ TimePasses
  BY <1>3 DEF chatVars, vars, Crash, TimePasses
<1>. QED
  BY <1>1, <1>2, <1>3 DEF Next

\* However messages of one session overlap, and whatever is cut off or crashes, an
\* answered message stays in its session for as long as that lives; only with Redis may
\* it be overwritten, by a message that was in flight together with it.
THEOREM ChatAnsweredIsKept == Spec => []AnsweredIsKept
<1>1. Init => backend \in {"memory", "redis"}
  BY DEF Init, ChatInit
<1>2. [Next]_vars => UNCHANGED backend
  BY BackendFixed
<1>3. AnsweredInv => AnsweredIsKept
  BY DEF AnsweredInv, KeptInv, AnsweredIsKept, Kept, Turns
<1>4. AuditInv => FlightInv
  BY DEF AuditInv
<1>. DEFINE I == AuditInv /\ KeptInv /\ backend \in {"memory", "redis"}
<1>5. Init => I
  BY <1>1, AuditInit, KeptInit
<1>6. I /\ [Next]_vars => I'
  BY <1>2, <1>4, AuditNext, KeptNext DEF AnsweredInv
<1>7. I => AnsweredIsKept
  BY <1>3, <1>4 DEF AnsweredInv
<1>. HIDE DEF I
<1>. QED
  BY <1>5, <1>6, <1>7, PTL DEF Spec

=============================================================================
