---------------------------- MODULE AccessTokens ----------------------------
(***************************************************************************)
(* The short-lived tokens of a session (control_plane/routers/sandboxes.py *)
(* and PreviewTokenRevocationRepository): single-use takeover and desktop  *)
(* tokens, whose ids one process remembers until they expire, and preview  *)
(* tokens, which a denylist revokes.  Both forget what has expired, as     *)
(* they go, by the clock they read at that moment.                         *)
(***************************************************************************)
EXTENDS Naturals

CONSTANTS
    Onces,        \* takeover and desktop tokens
    Links,        \* preview tokens
    OnceTtl,      \* BOXXKITE_TAKEOVER_TOKEN_TTL_SECONDS
    LinkTtls,     \* the ttl_seconds a preview token may be minted with
    MaxTtl,       \* SANDBOX_PREVIEW_MAX_TTL_SECONDS
    MaxNow        \* bound on the clock

ASSUME TokenAssumption ==
    /\ OnceTtl \in Nat \ {0} /\ MaxTtl \in Nat /\ MaxNow \in Nat \ {0}
    /\ LinkTtls \subseteq 1 .. MaxTtl /\ Onces \cap Links = {}

Never == 0

VARIABLES
    now,
    exp,        \* when a token expires; Never if it was not minted
    seen,       \* _takeover_jti_seen and _desktop_jti_seen
    redeemed,   \* history: how often a single-use token was accepted
    denied,     \* revoked_preview_tokens: until when a row is kept, or Never
    revoked,    \* history: preview tokens that were revoked
    served      \* history: preview tokens accepted after they were revoked

tokenvars == <<now, exp, seen, redeemed, denied, revoked, served>>

TokensTypeOK ==
    /\ now \in 1 .. MaxNow
    /\ exp \in [Onces \cup Links -> Nat]
    /\ seen \subseteq Onces /\ redeemed \in [Onces -> Nat]
    /\ denied \in [Links -> Nat] /\ revoked \subseteq Links /\ served \subseteq Links

TokensInit ==
    /\ now = 1
    /\ exp = [t \in Onces \cup Links |-> Never]
    /\ seen = {} /\ redeemed = [t \in Onces |-> 0]
    /\ denied = [l \in Links |-> Never] /\ revoked = {} /\ served = {}

\* A JWT is accepted while its exp is in the future.
Valid(t) == exp[t] > now

Passes ==
    /\ now < MaxNow
    /\ now' = now + 1
    /\ UNCHANGED <<exp, seen, redeemed, denied, revoked, served>>

MintOnce(t) ==
    /\ exp[t] = Never
    /\ exp' = [exp EXCEPT ![t] = now + OnceTtl]
    /\ UNCHANGED <<now, seen, redeemed, denied, revoked, served>>

\* Mutation: entries are pruned a moment before their token expires.
StillSeenEarly == {t \in seen : exp[t] > now + 1}

StillSeen == {t \in seen : exp[t] > now}

\* decode_takeover_token and _consume_takeover_jti, or those for desktops: prune,
\* then test and record.  The code reads the clock once for the expiry and once
\* more for the pruning, with no await between; they are taken for one reading.
Redeem(t) ==
    /\ Valid(t)
    /\ seen' = StillSeen \cup {t}
    /\ redeemed' = IF t \in StillSeen THEN redeemed ELSE [redeemed EXCEPT ![t] = @ + 1]
    /\ UNCHANGED <<now, exp, denied, revoked, served>>

-----------------------------------------------------------------------------
MintLink(l, ttl) ==
    /\ exp[l] = Never
    /\ exp' = [exp EXCEPT ![l] = now + ttl]
    /\ UNCHANGED <<now, seen, redeemed, denied, revoked, served>>

KeptUntil == now + MaxTtl

\* revoke: rows that have expired are purged, a row that is there stays as it is.
Revoke(l) ==
    /\ exp[l] # Never
    /\ LET kept == [k \in Links |-> IF denied[k] < now THEN Never ELSE denied[k]]
       IN  denied' = [kept EXCEPT ![l] = IF @ = Never THEN KeptUntil ELSE @]
    /\ revoked' = revoked \cup {l}
    /\ UNCHANGED <<now, exp, seen, redeemed, served>>

\* proxy_sandbox_preview: the signature and the expiry, then the denylist.
Proxy(l) ==
    /\ Valid(l) /\ denied[l] = Never
    /\ served' = IF l \in revoked THEN served \cup {l} ELSE served
    /\ UNCHANGED <<now, exp, seen, redeemed, denied, revoked>>

TokensNext ==
    \/ Passes
    \/ \E t \in Onces : MintOnce(t) \/ Redeem(t)
    \/ \E l \in Links : Revoke(l) \/ Proxy(l) \/ \E ttl \in LinkTtls : MintLink(l, ttl)

TokensSpec == TokensInit /\ [][TokensNext]_tokenvars

-----------------------------------------------------------------------------
\* A spent token stays spent, although both memories of spent tokens are
\* pruned as time passes: a takeover or desktop token opens one connection,
\* and a preview link that was revoked is never served again.
SpentStays ==
    /\ \A t \in Onces : redeemed[t] <= 1
    /\ served = {}
=============================================================================
