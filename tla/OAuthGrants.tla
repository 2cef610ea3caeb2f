----------------------------- MODULE OAuthGrants -----------------------------
(***************************************************************************)
(* The token endpoint of the control plane's authorization server          *)
(* (routers/oauth.py): a code the account's owner granted is exchanged     *)
(* once for a refresh token, and each refresh token is rotated once for    *)
(* the next.  Presenting a rotated one again revokes all that came of it.  *)
(*                                                                         *)
(* Requests run in any replica; every statement is a step.  revoke_family  *)
(* is one transaction of many statements: the rows it has updated are      *)
(* locked, and still read as live, until it commits.                       *)
(***************************************************************************)
EXTENDS Naturals, FiniteSets

CONSTANTS
    Grants,           \* authorization codes, each one consent
    RefreshTokens,    \* the rows of oauth_tokens
    Exchanges,        \* requests to POST /oauth/token
    NoToken

ASSUME OAuthAssumption ==
    /\ Grants \cap RefreshTokens = {}
    /\ NoToken \notin Grants \cup RefreshTokens

VARIABLES
    code,         \* "none" (not yet allowed), "live", "consumed", "expired"
    issuedTo,     \* the grant a row of oauth_tokens goes back to, or NoToken
    rotatedFrom,
    line,         \* history: a token and the ones it was rotated from
    revoked,      \* revoked_at is set, and committed
    asking,       \* the await a request is at
    presents,     \* the code or the refresh token of a request
    pending,      \* revoke_family: the ids left to visit
    locked,       \* revoke_family: the rows updated and not committed
    passedBy,     \* history: walks that went by a rotation before its insert
    ended         \* history: grants that a walk that passed none revoked

oauthvars == <<code, issuedTo, rotatedFrom, line, revoked, asking, presents,
               pending, locked, passedBy, ended>>
tokenrows == <<issuedTo, rotatedFrom, line>>
walkvars == <<pending, locked, passedBy, ended>>

Issued == {t \in RefreshTokens : issuedTo[t] # NoToken}
Live == Issued \ revoked

GrantFor(q) == IF presents[q] \in Grants THEN presents[q] ELSE issuedTo[presents[q]]

OAuthTypeOK ==
    /\ code \in [Grants -> {"none", "live", "consumed", "expired"}]
    /\ issuedTo \in [RefreshTokens -> Grants \cup {NoToken}]
    /\ rotatedFrom \in [RefreshTokens -> RefreshTokens \cup {NoToken}]
    /\ line \in [RefreshTokens -> SUBSET RefreshTokens]
    /\ revoked \subseteq Issued
    /\ asking \in [Exchanges -> {"new", "account", "write", "issue", "family", "end"}]
    /\ presents \in [Exchanges -> Grants \cup RefreshTokens \cup {NoToken}]
    /\ pending \in [Exchanges -> SUBSET RefreshTokens]
    /\ locked \in [Exchanges -> SUBSET RefreshTokens]
    /\ passedBy \subseteq Exchanges /\ ended \subseteq Grants

OAuthInit ==
    /\ code = [g \in Grants |-> "none"]
    /\ issuedTo = [t \in RefreshTokens |-> NoToken]
    /\ rotatedFrom = [t \in RefreshTokens |-> NoToken]
    /\ line = [t \in RefreshTokens |-> {}]
    /\ revoked = {}
    /\ asking = [q \in Exchanges |-> "new"]
    /\ presents = [q \in Exchanges |-> NoToken]
    /\ pending = [q \in Exchanges |-> {}]
    /\ locked = [q \in Exchanges |-> {}]
    /\ passedBy = {} /\ ended = {}

ExchangeTo(q, to) == asking' = [asking EXCEPT ![q] = to]

-----------------------------------------------------------------------------
(* The code.                                                               *)

\* The owner allows the client: a row of oauth_authorization_codes.
AuthorizeDecide(g) ==
    /\ code[g] = "none" /\ code' = [code EXCEPT ![g] = "live"]
    /\ UNCHANGED <<tokenrows, revoked, asking, presents, walkvars>>

CodeExpires(g) ==
    /\ code[g] = "live" /\ code' = [code EXCEPT ![g] = "expired"]
    /\ UNCHANGED <<tokenrows, revoked, asking, presents, walkvars>>

\* get_valid_by_code: neither consumed nor expired.
PresentCode(q, g) ==
    /\ asking[q] = "new" /\ code[g] # "none"
    /\ ExchangeTo(q, IF code[g] = "live" THEN "account" ELSE "end")
    /\ presents' = [presents EXCEPT ![q] = g]
    /\ UNCHANGED <<code, tokenrows, revoked, walkvars>>

\* _account_deactivated, which may find the account deactivated.
CheckAccount(q) ==
    /\ asking[q] = "account"
    /\ \E to \in {"write", "end"} : ExchangeTo(q, to)
    /\ UNCHANGED <<code, tokenrows, revoked, presents, walkvars>>

\* Mutation: a SELECT and then a write; two exchanges both find it live.
ConsumeCodeUnchecked(q) ==
    /\ asking[q] = "write" /\ presents[q] \in Grants
    /\ ExchangeTo(q, "issue")
    /\ code' = [code EXCEPT ![presents[q]] = "consumed"]
    /\ UNCHANGED <<tokenrows, revoked, presents, walkvars>>

\* mark_consumed: one UPDATE of a row that no other request has consumed.
ConsumeCode(q) ==
    /\ asking[q] = "write" /\ presents[q] \in Grants
    /\ IF code[presents[q]] # "consumed"
       THEN ExchangeTo(q, "issue") /\ code' = [code EXCEPT ![presents[q]] = "consumed"]
       ELSE ExchangeTo(q, "end") /\ UNCHANGED code
    /\ UNCHANGED <<tokenrows, revoked, presents, walkvars>>

-----------------------------------------------------------------------------
(* The refresh token.                                                      *)

StartsWalk(q, t) ==
    /\ ExchangeTo(q, "family") /\ pending' = [pending EXCEPT ![q] = {t}]
    /\ UNCHANGED <<locked, passedBy, ended>>

\* get_by_hash: a client presents a token it was given at any time.
PresentToken(q, t) ==
    /\ asking[q] = "new" /\ t \in Issued
    /\ presents' = [presents EXCEPT ![q] = t]
    /\ IF t \in revoked THEN StartsWalk(q, t)
       ELSE ExchangeTo(q, "account") /\ UNCHANGED walkvars
    /\ UNCHANGED <<code, tokenrows, revoked>>

\* revoke: the UPDATE waits for a transaction that holds the row, then misses
\* a row that is revoked by now; two requests with one token are a reuse.
RevokePresented(q) ==
    /\ asking[q] = "write" /\ presents[q] \in RefreshTokens
    /\ \A w \in Exchanges : presents[q] \notin locked[w]
    /\ IF presents[q] \notin revoked
       THEN /\ ExchangeTo(q, "issue") /\ UNCHANGED walkvars
            /\ revoked' = revoked \cup {presents[q]}
       ELSE StartsWalk(q, presents[q]) /\ UNCHANGED revoked
    /\ UNCHANGED <<code, tokenrows, presents>>

\* _issue_token_pair: the new row, rotated from the presented token if any.
IssueToken(q, t) ==
    /\ asking[q] = "issue" /\ t \notin Issued
    /\ ExchangeTo(q, "end")
    /\ issuedTo' = [issuedTo EXCEPT ![t] = GrantFor(q)]
    /\ IF presents[q] \in RefreshTokens
       THEN /\ rotatedFrom' = [rotatedFrom EXCEPT ![t] = presents[q]]
            /\ line' = [line EXCEPT ![t] = line[presents[q]] \cup {t}]
       ELSE line' = [line EXCEPT ![t] = {t}] /\ UNCHANGED rotatedFrom
    /\ UNCHANGED <<code, revoked, presents, walkvars>>

-----------------------------------------------------------------------------
(* revoke_family.                                                          *)

\* A rotation of t whose new row is not inserted yet.
Rotating(t) == \E r \in Exchanges : asking[r] = "issue" /\ presents[r] = t

\* Mutation: the presented row alone.
VisitPresented(q, t) ==
    /\ asking[q] = "family" /\ t \in pending[q]
    /\ \A w \in Exchanges \ {q} : t \notin locked[w]
    /\ pending' = [pending EXCEPT ![q] = {}]
    /\ locked' = [locked EXCEPT ![q] = @ \cup ({t} \ revoked)]
    /\ passedBy' = IF Rotating(t) THEN passedBy \cup {q} ELSE passedBy
    /\ UNCHANGED <<code, tokenrows, revoked, asking, presents, ended>>

\* One round of the walk: the UPDATE of t, which waits for another walk that
\* holds t, and the SELECT of the rows rotated from it.  No rotation of t can
\* begin in between, and one inserted there is read.
VisitToken(q, t) ==
    /\ asking[q] = "family" /\ t \in pending[q]
    /\ \A w \in Exchanges \ {q} : t \notin locked[w]
    /\ pending' = [pending EXCEPT ![q] =
                       (@ \ {t}) \cup {c \in Issued : rotatedFrom[c] = t}]
    /\ locked' = [locked EXCEPT ![q] = @ \cup ({t} \ revoked)]
    /\ passedBy' = IF Rotating(t) THEN passedBy \cup {q} ELSE passedBy
    /\ UNCHANGED <<code, tokenrows, revoked, asking, presents, ended>>

CommitFamily(q) ==
    /\ asking[q] = "family" /\ pending[q] = {}
    /\ revoked' = revoked \cup locked[q]
    /\ locked' = [locked EXCEPT ![q] = {}]
    /\ ended' = IF q \in passedBy THEN ended ELSE ended \cup {GrantFor(q)}
    /\ ExchangeTo(q, "end")
    /\ UNCHANGED <<code, tokenrows, presents, pending, passedBy>>

\* The process dies under a request; its transaction is rolled back.
ExchangeDies(q) ==
    /\ asking[q] \notin {"new", "end"} /\ ExchangeTo(q, "end")
    /\ pending' = [pending EXCEPT ![q] = {}] /\ locked' = [locked EXCEPT ![q] = {}]
    /\ UNCHANGED <<code, tokenrows, revoked, presents, passedBy, ended>>

OAuthNext ==
    \/ \E g \in Grants : AuthorizeDecide(g) \/ CodeExpires(g)
    \/ \E q \in Exchanges :
        \/ \E g \in Grants : PresentCode(q, g)
        \/ CheckAccount(q)
        \/ ConsumeCode(q)
        \/ \E t \in RefreshTokens :
               PresentToken(q, t) \/ IssueToken(q, t) \/ VisitToken(q, t)
        \/ RevokePresented(q)
        \/ CommitFamily(q)
        \/ ExchangeDies(q)

OAuthSpec == OAuthInit /\ [][OAuthNext]_oauthvars

-----------------------------------------------------------------------------
(* Properties.                                                             *)

\* However many requests present one code or one refresh token at once, one
\* consent has at most one refresh token that still works (mark_consumed and
\* revoke, conditional UPDATEs).
OneLiveToken ==
    \A t, u \in Live : issuedTo[t] = issuedTo[u] => t = u

\* Once a rotated token was presented again and revoke_family committed, no
\* token of that consent works any more, and none is issued later, unless the
\* walk went by a rotation that had revoked its token and not yet inserted the
\* next: that one stays live.
ReuseEndsChain ==
    \A t \in Live : issuedTo[t] \notin ended

\* Both: what a consent gives is one chain of tokens, with one end at a time.
OneChainPerConsent == OneLiveToken /\ ReuseEndsChain
=============================================================================
