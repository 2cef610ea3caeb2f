----------------------------- MODULE Idempotency -----------------------------
(***************************************************************************)
(* IdempotencyMiddleware                                                   *)
(* (src/control-plane/src/control_plane/idempotency.py): requests that     *)
(* carry an Idempotency-Key claim a row of the database before they reach  *)
(* their handler and store the handler's answer in it afterwards.  Every   *)
(* database call and the handler are steps, in any process of the fleet.   *)
(* The row does not say which request it belongs to.                       *)
(***************************************************************************)
EXTENDS Naturals, FiniteSets

CONSTANTS
    Requests,
    KeyOf,          \* KeyOf[q]: the scope_hash of key, caller, method and path
    BodyOf,         \* BodyOf[q]: the request_fingerprint
    MayFail,        \* the requests whose handler may answer >= 500 or raise
    MayDie          \* the requests whose process may die under them

ScopeHashes == {KeyOf[q] : q \in Requests}
Nobody == "nobody"
NoKeyRow == [body |-> Nobody, by |-> Nobody]

ASSUME IdemAssumption ==
    /\ Requests \cap {Nobody, "409", "422", "5xx"} = {}
    /\ \A q \in Requests : BodyOf[q] # Nobody

VARIABLES
    keyrow,     \* idempotency_keys: the fingerprint and whose answer is stored
    asked,      \* the await a request is at
    effect,     \* history: the requests whose handler created something
    answer      \* what a request got: an error, its own run, or another's replay

idemvars == <<keyrow, asked, effect, answer>>

IdemTypeOK ==
    /\ keyrow \in [ScopeHashes -> [body : {BodyOf[q] : q \in Requests} \cup {Nobody},
                                   by : Requests \cup {Nobody}]]
    /\ asked \in [Requests ->
            {"new", "insert", "recheck", "run", "finalize", "drop", "end"}]
    /\ effect \subseteq Requests
    /\ answer \in [Requests -> Requests \cup {Nobody, "409", "422", "5xx"}]

IdemInit ==
    /\ keyrow = [k \in ScopeHashes |-> NoKeyRow]
    /\ asked = [q \in Requests |-> "new"]
    /\ effect = {}
    /\ answer = [q \in Requests |-> Nobody]

KeyRow(q) == keyrow[KeyOf[q]]
Awaits(q, from, to) == asked[q] = from /\ asked' = [asked EXCEPT ![q] = to]

\* An existing row answers: 422, 409 or the stored response.
ReplyFrom(q) ==
    /\ asked' = [asked EXCEPT ![q] = "end"]
    /\ answer' = [answer EXCEPT ![q] =
            CASE KeyRow(q).body # BodyOf[q] -> "422"
              [] KeyRow(q).body = BodyOf[q] /\ KeyRow(q).by = Nobody -> "409"
              [] OTHER -> KeyRow(q).by]

LookUpKey(q) ==
    /\ asked[q] = "new"
    /\ IF KeyRow(q) = NoKeyRow THEN Awaits(q, "new", "insert") /\ UNCHANGED answer
       ELSE ReplyFrom(q)
    /\ UNCHANGED <<keyrow, effect>>

\* Mutation: a taken key is not noticed by the insert.
InsertKeyOver(q) ==
    /\ Awaits(q, "insert", "run")
    /\ keyrow' = [keyrow EXCEPT ![KeyOf[q]] = [body |-> BodyOf[q], by |-> Nobody]]
    /\ UNCHANGED <<effect, answer>>

\* The commit inserts the pending row, or raises IntegrityError.
InsertKey(q) ==
    /\ IF KeyRow(q) = NoKeyRow
       THEN /\ Awaits(q, "insert", "run")
            /\ keyrow' = [keyrow EXCEPT
                    ![KeyOf[q]] = [body |-> BodyOf[q], by |-> Nobody]]
       ELSE Awaits(q, "insert", "recheck") /\ UNCHANGED keyrow
    /\ UNCHANGED <<effect, answer>>

\* The row is read again.  One that is gone is taken for one that was inserted.
RecheckKey(q) ==
    /\ asked[q] = "recheck"
    /\ IF KeyRow(q) = NoKeyRow THEN Awaits(q, "recheck", "run") /\ UNCHANGED answer
       ELSE ReplyFrom(q)
    /\ UNCHANGED <<keyrow, effect>>

\* The handler answers with a status below 500, having created something or not.
RunHandler(q) ==
    /\ Awaits(q, "run", "finalize")
    /\ effect' \in {effect, effect \cup {q}}
    /\ answer' = [answer EXCEPT ![q] = q]
    /\ UNCHANGED keyrow

\* It answers 500 or above, or raises, before or after it created something: a
\* sandbox whose usage cannot be read back afterwards stays.
HandlerFails(q) ==
    /\ Awaits(q, "run", "drop")
    /\ q \in MayFail
    /\ effect' \in {effect, effect \cup {q}}
    /\ answer' = [answer EXCEPT ![q] = "5xx"]
    /\ UNCHANGED keyrow

\* _finalize: the answer goes into whatever row has the key now.
FinalizeKey(q) ==
    /\ Awaits(q, "finalize", "end")
    /\ keyrow' = IF KeyRow(q) = NoKeyRow THEN keyrow ELSE [keyrow EXCEPT ![KeyOf[q]].by = q]
    /\ UNCHANGED <<effect, answer>>

DropKey(q) ==
    /\ Awaits(q, "drop", "end")
    /\ keyrow' = [keyrow EXCEPT ![KeyOf[q]] = NoKeyRow]
    /\ UNCHANGED <<effect, answer>>

\* The process dies; a pending row stays, and nothing ever removes it.
RequestDies(q) ==
    /\ q \in MayDie /\ asked[q] \notin {"new", "end"}
    /\ asked' = [asked EXCEPT ![q] = "end"]
    /\ UNCHANGED <<keyrow, effect, answer>>

IdemNext == \E q \in Requests :
    \/ LookUpKey(q) \/ InsertKey(q) \/ RecheckKey(q)
    \/ RunHandler(q) \/ HandlerFails(q)
    \/ FinalizeKey(q) \/ DropKey(q) \/ RequestDies(q)

IdemSpec == IdemInit /\ [][IdemNext]_idemvars

-----------------------------------------------------------------------------
\* However often a request is sent, and in whatever order the attempts and
\* their database calls interleave: of two attempts that both created something
\* one was answered 5xx, and dropped the row after what it had created.  An
\* answer that is stored is only given to a request with the same body.
OneEffect ==
    /\ \A q, r \in effect :
        KeyOf[q] = KeyOf[r] /\ answer[q] # "5xx" /\ answer[r] # "5xx" => q = r
    /\ \A q \in Requests : answer[q] \in Requests => BodyOf[answer[q]] = BodyOf[q]
=============================================================================
