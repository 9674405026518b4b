------------------------------- MODULE MCChat -------------------------------
EXTENDS Chat, TLC

CONSTANTS u1, k1

MCOwner == k1 :> u1

\* Bound: once a chat session is started, one browser of one user, with one request
\* to /api/auth per lapse of time.  Without it the states of the accounts and of the
\* chats multiply, though they meet only in the access token.
Focus ==
  (\E s \in Sessions : session[s].user # None) =>
    /\ minted \subseteq {u1} /\ moment = 0 /\ admitted <= 1
    /\ Cardinality({b \in Browsers : cookies[b] # NoCookies}) <= 1
    /\ \A b \in Browsers : registering[b] = None /\ ~cookies[b].oauth

Alike == Permutations(Messages) \cup Permutations(Requests) \cup Permutations(Browsers)

=============================================================================
