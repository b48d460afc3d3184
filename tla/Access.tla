------------------------------- MODULE Access -------------------------------
(***************************************************************************)
(* What a request to the API goes through before and inside its handler:   *)
(* the limiter (internal/api/ratelimit.go, internal/ratelimit/store.go),   *)
(* AuthMiddleware with its cache of signer sessions                        *)
(* (internal/api/middleware.go) and the pool of database connections       *)
(* (internal/database/database.go) they all draw on.                       *)
(*                                                                         *)
(* Time passes in ticks; counters, cached sessions and calls to the signer *)
(* carry the ticks they have left.  A query, or a transaction, takes a     *)
(* connection and gives it back in one step, since nothing but Postgres is *)
(* waited for in between; but two handlers keep the connection their rows  *)
(* come from while they wait for something else, row by row: ListEntries   *)
(* for another connection (entries.go), GetNostrJSON for a service that    *)
(* knows the relays of a user (nip05.go).  Nobody but the limiter gives up *)
(* waiting for a connection: RequestTimeoutMiddleware does nothing.        *)
(*                                                                         *)
(* Bounds: MaxCrashes.  Counts above the limit are one value, rows are     *)
(* none or one, and there is one signer session.                           *)
(***************************************************************************)
EXTENDS Integers, FiniteSets, FiniteSetsExt

CONSTANTS
    Requests,   \* requests in progress
    Clients,    \* client addresses
    Routes,     \* the kinds of requests that come
    Limit,      \* requests of a client per window, by bucket; 0: no limit
    Window,     \* ticks of a window
    TTL,        \* ticks a signer session is cached
    Timeout,    \* ticks a call to the signer may take
    PoolSize,   \* connections: SetMaxOpenConns
    MaxCrashes  \* bound on crashes of the database or the server

Buckets == {"auth", "api"}

(* SetupRouter: what is served to anyone, and what is behind               *)
(* AuthMiddleware, by how a handler uses the pool.  Sign-ins stand for the *)
(* public routes, except that /.well-known/nostr.json is one of its own; a *)
(* logout, which is protected and in the bucket of sign-ins, and a NIP-05  *)
(* lookup, which is public and in the other, are left out.                 *)
Public == {"login", "names"}
Protected == {"read", "list"}
Kinds == Public \cup Protected

ASSUME AccessAssumption ==
    /\ Routes \subseteq Kinds
    /\ Limit \in [Buckets -> Nat]
    /\ {Window, TTL, Timeout, PoolSize} \subseteq Nat \ {0}
    /\ MaxCrashes \in Nat
    /\ IsFiniteSet(Requests)

VARIABLES
    request,  \* the requests in progress
    counter,  \* rate_limits: count and ticks left, by bucket and client
    cached,   \* globalSignerCache: ticks the signer session has left in it
    ended,    \* ticks since the signer ended the session, -1 while it lasts
    admitted, \* history: requests the count admitted, by age in ticks
    refused,  \* history: where a client's last request was one too many
    crashes   \* bound

vars == <<request, counter, cached, ended, admitted, refused, crashes>>

Credentials == {"token", "signer"}
Stages == {"idle", "limit", "auth", "signer", "asking", "user", "handle", "rows"}

NoCounter == [count |-> 0, left |-> 0]
NoAdmission == [age \in 0 .. Window - 1 |-> 0]

(* The admissions of a span, each as the k-th of its age. *)
Admissions(span) == UNION {{age} \X (1 .. span[age]) : age \in 0 .. Window - 1}

AccessTypeOK ==
    /\ \A r \in Requests :
         request[r] \in [stage : Stages, kind : Kinds, client : Clients,
                         credential : Credentials, left : 0 .. Timeout,
                         rows : {0, 1}, verdict : {"none", "yes", "no"}]
    /\ \A b \in Buckets, c \in Clients :
         /\ counter[b][c] \in [count : 0 .. Limit[b] + 1, left : 0 .. Window]
         /\ admitted[b][c] \in [0 .. Window - 1 -> Nat]
    /\ cached \in 0 .. TTL
    /\ ended \in -1 .. TTL + Timeout
    /\ refused \in SUBSET (Buckets \X Clients)
    /\ crashes \in 0 .. MaxCrashes

AccessInit ==
    /\ \E c \in Clients :
         request = [r \in Requests |->
                      [stage |-> "idle", kind |-> "read", client |-> c,
                       credential |-> "token", left |-> 0, rows |-> 0,
                       verdict |-> "none"]]
    /\ counter = [b \in Buckets |-> [c \in Clients |-> NoCounter]]
    /\ cached = 0
    /\ ended = -1
    /\ admitted = [b \in Buckets |-> [c \in Clients |-> NoAdmission]]
    /\ refused = {}
    /\ crashes = 0

Holding == {r \in Requests : request[r].stage = "rows"}
Free == Cardinality(Holding) < PoolSize

(* A request that is over leaves nothing behind. *)
Over(r) == [request EXCEPT ![r] = [request[r] EXCEPT
              !.stage = "idle", !.kind = "read", !.credential = "token",
              !.left = 0, !.rows = 0, !.verdict = "none"]]
At(r, stage) == [request EXCEPT ![r] = [request[r] EXCEPT !.stage = stage]]

-----------------------------------------------------------------------------
(* The middleware in the order SetupRouter adds them: the limiter first,   *)
(* then AuthMiddleware for everything but the public routes.               *)
Arrive(r, kind, c, credential) ==
    /\ request[r].stage = "idle"
    /\ kind \in Public => credential = "token"
    /\ request' = [request EXCEPT ![r] = [request[r] EXCEPT
                     !.stage = "limit", !.kind = kind, !.client = c,
                     !.credential = credential]]
    /\ UNCHANGED <<counter, cached, ended, admitted, refused, crashes>>

(* rateLimitBucket: only what is under /api/ is in a bucket. *)
Bucket(kind) == CASE kind = "login" -> "auth"
                  [] kind = "names" -> "none"
                  [] OTHER -> "api"
Limited(kind) == Bucket(kind) \in Buckets /\ Limit[Bucket(kind)] > 0

Through(r) == At(r, IF request[r].kind \in Public THEN "handle" ELSE "auth")

(* Mutant: every hit moves the end of the window. *)
CountedAndMoved(b, c) ==
    [counter EXCEPT ![b][c] =
        IF @.left = 0 THEN [count |-> 1, left |-> Window]
        ELSE [count |-> Min({@.count + 1, Limit[b] + 1}), left |-> Window]]

(* Mutant: every hit adds a window to what is left. *)
CountedAndAdded(b, c) ==
    [counter EXCEPT ![b][c] = [count |-> Min({@.count + 1, Limit[b] + 1}),
                               left  |-> @.left + Window]]

(* The statement of Store.Hit: one row, locked while it is written. *)
Counted(b, c) ==
    [counter EXCEPT ![b][c] =
        IF @.left = 0 THEN [count |-> 1, left |-> Window]
        ELSE [count |-> Min({@.count + 1, Limit[b] + 1}), left |-> @.left]]

Unlimited(r) ==
    /\ request[r].stage = "limit"
    /\ ~Limited(request[r].kind)
    /\ request' = Through(r)
    /\ UNCHANGED <<counter, cached, ended, admitted, refused, crashes>>

Hit(r) ==
    LET b == Bucket(request[r].kind)
        c == request[r].client
    IN
    /\ request[r].stage = "limit" /\ Limited(request[r].kind) /\ Free
    /\ counter' = Counted(b, c)
    /\ IF counter'[b][c].count > Limit[b]
       THEN /\ request' = Over(r)
            /\ refused' = refused \cup {<<b, c>>}
            /\ UNCHANGED admitted
       ELSE /\ request' = Through(r)
            /\ refused' = refused \ {<<b, c>>}
            /\ admitted' = [admitted EXCEPT ![b][c][0] = @ + 1]
    /\ UNCHANGED <<cached, ended, crashes>>

(* The store fails, or its two seconds pass, perhaps once the hit has been *)
(* counted: the request goes through.                                      *)
HitFails(r) ==
    LET b == Bucket(request[r].kind)
        c == request[r].client
    IN
    /\ request[r].stage = "limit" /\ Limited(request[r].kind)
    /\ counter' \in {counter, Counted(b, c)}
    /\ request' = Through(r)
    /\ refused' = refused \ {<<b, c>>}
    /\ UNCHANGED <<cached, ended, admitted, crashes>>

(* Mutant: a prune deletes every counter. *)
PruneAll ==
    /\ \E b \in Buckets, c \in Clients : counter[b][c] # NoCounter
    /\ counter' = [b \in Buckets |-> [c \in Clients |-> NoCounter]]
    /\ UNCHANGED <<request, cached, ended, admitted, refused, crashes>>

(* Prune deletes the counters whose window is over. *)
Prune ==
    /\ \E b \in Buckets, c \in Clients :
         counter[b][c].left = 0 /\ counter[b][c] # NoCounter
    /\ counter' = [b \in Buckets |-> [c \in Clients |->
                     IF counter[b][c].left = 0 THEN NoCounter ELSE counter[b][c]]]
    /\ UNCHANGED <<request, cached, ended, admitted, refused, crashes>>

-----------------------------------------------------------------------------
(* AuthMiddleware: a vault token that is good leads to the handler.  One   *)
(* that is not is shown to the signer, like the cookie of a signer session *)
(* that comes without a token.                                             *)
Authenticate(r) ==
    /\ request[r].stage = "auth"
    /\ request[r].credential = "token" => Free
    /\ \/ request[r].credential = "token" /\ request' = At(r, "handle")
       \/ request' = At(r, "signer")
    /\ UNCHANGED <<counter, cached, ended, admitted, refused, crashes>>

InCache(r) == request[r].credential = "signer" /\ cached > 0

(* Found in the cache, before it expires. *)
FromCache(r) ==
    /\ request[r].stage = "signer" /\ InCache(r)
    /\ request' = At(r, "user")
    /\ UNCHANGED <<counter, cached, ended, admitted, refused, crashes>>

AskSigner(r) ==
    /\ request[r].stage = "signer" /\ ~InCache(r)
    /\ request' = [request EXCEPT ![r] = [request[r] EXCEPT
                     !.stage = "asking", !.left = Timeout]]
    /\ UNCHANGED <<counter, cached, ended, admitted, refused, crashes>>

(* The signer decides; its answer is on the way. *)
SignerDecides(r) ==
    /\ request[r].stage = "asking" /\ request[r].verdict = "none"
    /\ request' = [request EXCEPT ![r] = [request[r] EXCEPT
                     !.verdict = IF request[r].credential = "signer" /\ ended = -1
                                 THEN "yes" ELSE "no"]]
    /\ UNCHANGED <<counter, cached, ended, admitted, refused, crashes>>

(* Mutant: the status of the answer is not looked at. *)
AnyAnswerArrives(r) ==
    /\ request[r].stage = "asking" /\ request[r].verdict # "none"
    /\ cached' = TTL
    /\ request' = [request EXCEPT ![r] = [request[r] EXCEPT
                     !.stage = "user", !.left = 0, !.verdict = "none"]]
    /\ UNCHANGED <<counter, ended, admitted, refused, crashes>>

(* The answer is stored whatever has been stored, or has ended, since. *)
AnswerArrives(r) ==
    /\ request[r].stage = "asking" /\ request[r].verdict # "none"
    /\ IF request[r].verdict = "yes"
       THEN /\ cached' = TTL
            /\ request' = [request EXCEPT ![r] = [request[r] EXCEPT
                             !.stage = "user", !.left = 0, !.verdict = "none"]]
       ELSE /\ request' = Over(r)
            /\ UNCHANGED cached
    /\ UNCHANGED <<counter, ended, admitted, refused, crashes>>

(* Mutant: only an answer ends the call. *)
AskRefused(r) ==
    /\ request[r].stage = "asking" /\ request[r].verdict = "no"
    /\ request' = Over(r)
    /\ UNCHANGED <<counter, cached, ended, admitted, refused, crashes>>

(* The call fails, or its five seconds pass; nobody is let in. *)
AskFails(r) ==
    /\ request[r].stage = "asking"
    /\ request' = Over(r)
    /\ UNCHANGED <<counter, cached, ended, admitted, refused, crashes>>

(* From here on it makes no difference what the user was known by.  When   *)
(* the lookup or the insert fails, the answer is a 401.                    *)
FindOrProvision(r) ==
    /\ request[r].stage = "user" /\ Free
    /\ \/ request' = [request EXCEPT ![r] = [request[r] EXCEPT
                        !.stage = "handle", !.credential = "token"]]
       \/ request' = Over(r)
    /\ UNCHANGED <<counter, cached, ended, admitted, refused, crashes>>

-----------------------------------------------------------------------------
(* A handler that waits for nothing else while it has a connection. *)
Serve(r) ==
    /\ request[r].stage = "handle" /\ request[r].kind \notin {"list", "names"}
    /\ Free
    /\ request' = Over(r)
    /\ UNCHANGED <<counter, cached, ended, admitted, refused, crashes>>

(* ListEntries and GetNostrJSON: the rows stay open, or there are none for *)
(* the query has failed ...                                                *)
OpenRows(r) ==
    /\ request[r].stage = "handle" /\ request[r].kind \in {"list", "names"}
    /\ Free
    /\ \/ \E n \in {0, 1} :
            request' = [request EXCEPT ![r] = [request[r] EXCEPT
                          !.stage = "rows", !.rows = n]]
       \/ request' = Over(r)
    /\ UNCHANGED <<counter, cached, ended, admitted, refused, crashes>>

(* ... while getEntrySecrets and getEntryTags want a connection for each,  *)
ReadRow(r) ==
    /\ request[r].stage = "rows" /\ request[r].kind = "list"
    /\ request[r].rows > 0 /\ Free
    /\ request' = [request EXCEPT ![r] = [request[r] EXCEPT !.rows = 0]]
    /\ UNCHANGED <<counter, cached, ended, admitted, refused, crashes>>

(* ... or GetRelayPrefs has answered or failed, or the client is gone, in  *)
(* its own time.                                                           *)
RelaysKnown(r) ==
    /\ request[r].stage = "rows" /\ request[r].kind = "names"
    /\ request[r].rows > 0
    /\ request' = [request EXCEPT ![r] = [request[r] EXCEPT !.rows = 0]]
    /\ UNCHANGED <<counter, cached, ended, admitted, refused, crashes>>

(* Next returns false: after the last row, or since the connection broke.  *)
CloseRows(r) ==
    /\ request[r].stage = "rows" /\ request[r].rows = 0
    /\ request' = Over(r)
    /\ UNCHANGED <<counter, cached, ended, admitted, refused, crashes>>

-----------------------------------------------------------------------------
EndSession ==
    /\ ended = -1
    /\ ended' = 0
    /\ UNCHANGED <<request, counter, cached, admitted, refused, crashes>>

Less(n) == Max({n - 1, 0})

(* No call to the signer outlasts its timeout. *)
Tick ==
    /\ \A r \in Requests : request[r].stage = "asking" => request[r].left > 0
    /\ request' = [r \in Requests |-> [request[r] EXCEPT !.left = Less(@)]]
    /\ counter' = [b \in Buckets |-> [c \in Clients |->
                     [counter[b][c] EXCEPT !.left = Less(@)]]]
    /\ admitted' = [b \in Buckets |-> [c \in Clients |->
                      [age \in 0 .. Window - 1 |->
                         IF age = 0 THEN 0 ELSE admitted[b][c][age - 1]]]]
    /\ cached' = Less(cached)
    /\ ended' = IF ended = -1 THEN -1 ELSE Min({ended + 1, TTL + Timeout})
    /\ UNCHANGED <<refused, crashes>>

(* The counters are in an UNLOGGED table: the limits start anew.  Who has  *)
(* rows open learns of it from the next Next, and not before: not while    *)
(* waiting for a connection of the pool.                                   *)
DatabaseCrash ==
    /\ crashes < MaxCrashes
    /\ crashes' = crashes + 1
    /\ counter' = [b \in Buckets |-> [c \in Clients |-> NoCounter]]
    /\ admitted' = [b \in Buckets |-> [c \in Clients |-> NoAdmission]]
    /\ UNCHANGED <<request, cached, ended, refused>>

(* The cache and the requests go with the process, the counters do not. *)
ServerRestart ==
    /\ crashes < MaxCrashes
    /\ crashes' = crashes + 1
    /\ cached' = 0
    /\ request' = [r \in Requests |-> Over(r)[r]]
    /\ UNCHANGED <<counter, ended, admitted, refused>>

-----------------------------------------------------------------------------
(* What the server does for a request by itself. *)
Advance(r) ==
    \/ Unlimited(r) \/ Hit(r) \/ HitFails(r)
    \/ Authenticate(r) \/ FromCache(r) \/ AskSigner(r)
    \/ AnswerArrives(r) \/ AskFails(r) \/ FindOrProvision(r)
    \/ Serve(r) \/ OpenRows(r) \/ ReadRow(r) \/ CloseRows(r)

AccessNext ==
    \/ \E r \in Requests :
         \/ \E k \in Routes, c \in Clients, d \in Credentials : Arrive(r, k, c, d)
         \/ Advance(r)
         \/ SignerDecides(r) \/ RelaysKnown(r)
    \/ Prune \/ EndSession \/ Tick \/ DatabaseCrash \/ ServerRestart

(* Time passes, and goroutines run.  A connection that is given back goes  *)
(* to one of those who wait, whom database/sql draws at random: who is     *)
(* drawn from again and again is drawn some day, with probability one.     *)
(* Neither the signer nor a service that knows relays need answer, and no  *)
(* client need come back.                                                  *)
Progress ==
    /\ WF_vars(Tick)
    /\ \A r \in Requests : SF_vars(Advance(r))

AccessSpec == AccessInit /\ [][AccessNext]_vars /\ Progress

-----------------------------------------------------------------------------
(* In no span as long as a window are more than twice the limit admitted   *)
(* by the count, whatever the retries, prunes and restarts, unless the     *)
(* counters were lost: fixed windows open one at a time.                   *)
AdmissionsBounded ==
    \A b \in Buckets, c \in Clients :
        Cardinality(Admissions(admitted[b][c])) <= 2 * Limit[b]

(* A client that keeps trying is not locked out for ever, even if it never *)
(* waits as it is told: its refused hits do not move the end of the window *)
(* (store.go:26, migration 007).                                           *)
Trying(b, c) ==
    \E r \in Requests : /\ request[r].stage = "limit"
                        /\ request[r].client = c /\ Bucket(request[r].kind) = b

RetriesGetThrough ==
    \A b \in Buckets, c \in Clients :
        []<>Trying(b, c) => []<>(<<b, c>> \notin refused)

(* A session the signer has ended is accepted for less than the time it is *)
(* cached and the time an answer may take, although an answer from before  *)
(* its end may be stored after another request was refused.                *)
EndedSessionsAreForgotten ==
    [][\A r \in Requests :
          (request[r].stage \in {"signer", "asking"} /\ request'[r].stage = "user") =>
             ended < TTL + Timeout]_vars

(* Requests end, whatever the signer does, however many wait for a         *)
(* connection and whatever crashes, unless every connection is held for    *)
(* rows whose handler waits for another connection or for relays: then     *)
(* nothing in the code ends it.  A request for names may also itself wait  *)
(* for relays.                                                             *)
AsksRelays(r) == request[r].kind = "names" /\ request[r].rows > 0
PoolIsHeld == ~Free /\ \A r \in Holding : request[r].rows > 0

RequestsEnd ==
    \A r \in Requests :
        request[r].stage # "idle"
            ~> (request[r].stage = "idle" \/ AsksRelays(r) \/ PoolIsHeld)
=============================================================================
