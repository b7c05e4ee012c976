---------------------------- MODULE TokenService -----------------------------
(***************************************************************************)
(* What src/feishulib/auth.py promises the callers of get_token, apart     *)
(* from how it keeps the promise: there is at most one refresh at a time,  *)
(* nobody starts one while a token that would do is cached, and a renewed  *)
(* token is handed to everybody who still waits.  There is no lock, no     *)
(* queue, no clock and no request here.  TokenManager implements this      *)
(* specification, and ApiRequest composes it with the operations that use  *)
(* the tokens.                                                             *)
(***************************************************************************)
EXTENDS Naturals

CONSTANTS
  Calls,    \* who may call get_token, any number of times
  Tokens,   \* numbers of the tokens there may be
  Nobody    \* nobody refreshes

VARIABLES
  cached,    \* the cached token, in the order they are granted; 0 for none
  fresh,     \* the cached token is not about to expire
  fetching,  \* who refreshes it
  asking,    \* who awaits get_token
  forced,    \* whose last call had force_refresh
  observed,  \* per caller: the token cached when it called
  given      \* per caller: the last token it got

tokenVars == <<cached, fresh, fetching, asking, forced, observed, given>>

ServiceInit ==
  /\ cached = 0 /\ fresh = FALSE
  /\ fetching = Nobody
  /\ asking = {} /\ forced = {}
  /\ observed = [c \in Calls |-> 0]
  /\ given = [c \in Calls |-> 0]

\* The cached token is what c asked for.
Suits(c) == fresh /\ (c \in forced => cached # observed[c])

\* A call gets the cached token at once, or begins to wait or to refresh.
Ask(c, force) ==
  /\ c \notin asking
  /\ forced' = IF force THEN forced \cup {c} ELSE forced \ {c}
  /\ observed' = [observed EXCEPT ![c] = cached]
  /\ \/ /\ fresh /\ ~force
        /\ given' = [given EXCEPT ![c] = cached]
        /\ UNCHANGED <<asking, fetching>>
     \/ /\ force \/ ~fresh
        /\ asking' = asking \cup {c}
        /\ UNCHANGED fetching \/ (fetching = Nobody /\ fetching' = c)
        /\ UNCHANGED given
  /\ UNCHANGED <<cached, fresh>>

\* After waiting: what is cached now.
Serve(c) ==
  /\ c \in asking /\ fetching = Nobody
  /\ Suits(c)
  /\ given' = [given EXCEPT ![c] = cached]
  /\ asking' = asking \ {c}
  /\ UNCHANGED <<cached, fresh, fetching, forced, observed>>

\* After waiting: nothing that would do.
Fetch(c) ==
  /\ c \in asking /\ fetching = Nobody
  /\ ~Suits(c)
  /\ fetching' = c
  /\ UNCHANGED <<cached, fresh, asking, forced, observed, given>>

\* The refresh brings token n, never an older one than was cached.
Renew(c, n) ==
  /\ fetching = c /\ c \in asking
  /\ n >= cached
  /\ cached' = n /\ fresh' \in BOOLEAN
  /\ fetching' = Nobody
  /\ given' = [given EXCEPT ![c] = n]
  /\ asking' = asking \ {c}
  /\ UNCHANGED <<forced, observed>>

\* The refresh fails, or a caller is cancelled; what is cached stays.
GiveUp(c) ==
  /\ c \in asking
  /\ asking' = asking \ {c}
  /\ fetching' = IF fetching = c THEN Nobody ELSE fetching
  /\ UNCHANGED <<cached, fresh, forced, observed, given>>

\* The cached token is about to expire.
GoStale ==
  /\ fresh /\ fresh' = FALSE
  /\ UNCHANGED <<cached, fetching, asking, forced, observed, given>>

ServiceNext ==
  \/ \E c \in Calls :
       \/ \E force \in BOOLEAN : Ask(c, force)
       \/ Serve(c) \/ Fetch(c) \/ GiveUp(c)
       \/ \E n \in Tokens : Renew(c, n)
  \/ GoStale

ServiceSpec == ServiceInit /\ [][ServiceNext]_tokenVars
==============================================================================
