---------------------------- MODULE AccessProofs ----------------------------
(***************************************************************************)
(* How long a signer session outlives its end, for any number of requests, *)
(* lifetimes and timeouts.  While an answer is on its way its age and the  *)
(* time it may still take make up the timeout, and while a session is      *)
(* cached the age of the answer it comes from is bounded likewise: so from *)
(* the end of a session the time passed and the time left add up to no     *)
(* more than the two together, whichever answers cross.                    *)
(*                                                                         *)
(* And how much the limiter lets in, for any limits, windows and number of *)
(* clients: what a span as long as a window has admitted falls into what   *)
(* the row of the open window has counted and what is older, which a span  *)
(* that reaches back to the window before it has from that window alone.   *)
(***************************************************************************)
EXTENDS Access, FiniteSetTheorems, TLAPS

Request == [stage : Stages, kind : Kinds, client : Clients,
            credential : Credentials, left : 0 .. Timeout, rows : {0, 1},
            verdict : {"none", "yes", "no"}]

SignerTypes ==
    /\ request \in [Requests -> Request]
    /\ cached \in 0 .. TTL
    /\ ended \in Int /\ ended >= -1

(* Only a call to the signer carries what the signer said. *)
VerdictsAreAsked ==
    \A r \in Requests :
        request[r].stage # "asking" => request[r].verdict = "none"

AnswersAreYoung ==
    \A r \in Requests :
        (request[r].verdict = "yes" /\ ended >= 0) =>
            ended + request[r].left <= Timeout

CacheIsYoung == (cached > 0 /\ ended >= 0) => ended + cached <= TTL + Timeout

SignerInv == SignerTypes /\ VerdictsAreAsked /\ AnswersAreYoung /\ CacheIsYoung

(* One tick of a count. *)
LEMMA LessIsLess ==
    ASSUME NEW n \in Nat
    PROVE /\ Less(n) \in Nat
          /\ n > 0 => Less(n) = n - 1
          /\ n = 0 => Less(n) = 0
<1>1. CASE n > 0
  <2>1. {n - 1, 0} # {} /\ \A y \in {n - 1, 0} : n - 1 >= y
    BY <1>1
  <2>2. \A x \in {n - 1, 0} : (\A y \in {n - 1, 0} : x >= y) => x = n - 1
    BY <1>1
  <2>3. Less(n) = n - 1
    BY <2>1, <2>2 DEF Less, Max
  <2> QED
    BY <1>1, <2>3
<1>2. CASE n = 0
  <2>1. \A y \in {n - 1, 0} : 0 >= y
    BY <1>2
  <2>2. \A x \in {n - 1, 0} : (\A y \in {n - 1, 0} : x >= y) => x = 0
    BY <1>2
  <2>3. Less(n) = 0
    BY <2>1, <2>2 DEF Less, Max
  <2> QED
    BY <1>2, <2>3
<1> QED
  BY <1>1, <1>2

LEMMA MinIsAtMost ==
    ASSUME NEW m \in Int, NEW n \in Int
    PROVE Min({m, n}) \in {m, n} /\ Min({m, n}) <= m
<1>1. \E x \in {m, n} : \A y \in {m, n} : x <= y
  OBVIOUS
<1>2. Min({m, n}) \in {m, n} /\ \A y \in {m, n} : Min({m, n}) <= y
  BY <1>1 DEF Min
<1> QED
  BY <1>2

LEMMA TimeSpans ==
    /\ 0 \in 0 .. Timeout /\ Timeout \in 0 .. Timeout
    /\ 0 \in 0 .. TTL /\ TTL \in 0 .. TTL /\ TTL > 0
BY AccessAssumption

LEMMA AccessInitInv == AccessInit => SignerInv
<1> SUFFICES ASSUME AccessInit PROVE SignerInv
  OBVIOUS
<1>1. PICK c \in Clients :
        request = [r \in Requests |->
                     [stage |-> "idle", kind |-> "read", client |-> c,
                      credential |-> "token", left |-> 0, rows |-> 0,
                      verdict |-> "none"]]
  BY DEF AccessInit
<1>2. request \in [Requests -> Request]
  BY <1>1, AccessAssumption
     DEF Request, Stages, Kinds, Public, Protected, Credentials
<1>3. SignerTypes
  BY <1>2, AccessAssumption DEF AccessInit, SignerTypes
<1>4. VerdictsAreAsked /\ AnswersAreYoung
  BY <1>1 DEF VerdictsAreAsked, AnswersAreYoung
<1>5. CacheIsYoung
  BY DEF AccessInit, CacheIsYoung
<1> QED
  BY <1>3, <1>4, <1>5 DEF SignerInv

(* A step that moves one request, which does not come to carry a yes.      *)
LEMMA RequestMoves ==
    ASSUME SignerInv, NEW r \in Requests, NEW state \in Request,
           request' = [request EXCEPT ![r] = state],
           state.stage # "asking" => state.verdict = "none",
           state.verdict # "yes",
           UNCHANGED <<cached, ended>>
    PROVE SignerInv'
<1> USE DEF SignerInv, SignerTypes
<1>1. request'[r] = state /\ \A q \in Requests \ {r} : request'[q] = request[q]
  OBVIOUS
<1>2. SignerTypes'
  OBVIOUS
<1>3. VerdictsAreAsked'
  BY <1>1 DEF VerdictsAreAsked
<1>4. AnswersAreYoung'
  BY <1>1 DEF AnswersAreYoung
<1>5. CacheIsYoung'
  BY DEF CacheIsYoung
<1> QED
  BY <1>2, <1>3, <1>4, <1>5

(* What Over and At leave of a request. *)
LEMMA OverIsIdle ==
    ASSUME SignerInv, NEW r \in Requests
    PROVE \E state \in Request : /\ Over(r) = [request EXCEPT ![r] = state]
                                 /\ Over(r)[r] = state
                                 /\ state.stage = "idle"
                                 /\ state.verdict = "none"
<1> DEFINE state == [request[r] EXCEPT
              !.stage = "idle", !.kind = "read", !.credential = "token",
              !.left = 0, !.rows = 0, !.verdict = "none"]
<1>1. request[r] \in Request
  BY DEF SignerInv, SignerTypes
<1>2. state \in Request /\ state.stage = "idle" /\ state.verdict = "none"
  BY <1>1, TimeSpans DEF Request, Stages, Kinds, Public, Protected, Credentials
<1>3. Over(r) = [request EXCEPT ![r] = state]
  BY DEF Over
<1> HIDE DEF state
<1>4. Over(r)[r] = state
  BY <1>3 DEF SignerInv, SignerTypes
<1> QED
  BY <1>2, <1>3, <1>4

LEMMA AtMoves ==
    ASSUME SignerInv, NEW r \in Requests, NEW stage \in Stages
    PROVE \E state \in Request : /\ At(r, stage) = [request EXCEPT ![r] = state]
                                 /\ state.stage = stage
                                 /\ state.verdict = request[r].verdict
<1> DEFINE state == [request[r] EXCEPT !.stage = stage]
<1>1. request[r] \in Request
  BY DEF SignerInv, SignerTypes
<1>2. /\ state \in Request /\ state.stage = stage
      /\ state.verdict = request[r].verdict
  BY <1>1 DEF Request
<1>3. At(r, stage) = [request EXCEPT ![r] = state]
  BY DEF At
<1> HIDE DEF state
<1> QED
  BY <1>2, <1>3

LEMMA EndsStep ==
    ASSUME SignerInv, NEW r \in Requests, request' = Over(r),
           UNCHANGED <<cached, ended>>
    PROVE SignerInv'
BY OverIsIdle, RequestMoves

LEMMA MovesStep ==
    ASSUME SignerInv, NEW r \in Requests, NEW stage \in Stages,
           request[r].stage # "asking", request' = At(r, stage),
           UNCHANGED <<cached, ended>>
    PROVE SignerInv'
BY AtMoves, RequestMoves DEF SignerInv, VerdictsAreAsked

(* A step that gives a request some fields and leaves its verdict none.    *)
LEMMA ArriveStep ==
    ASSUME SignerInv, NEW r \in Requests, NEW k \in Kinds, NEW c \in Clients,
           NEW d \in Credentials, Arrive(r, k, c, d)
    PROVE SignerInv'
<1> DEFINE state == [request[r] EXCEPT !.stage = "limit", !.kind = k,
                                       !.client = c, !.credential = d]
<1>1. request[r] \in Request /\ request[r].verdict = "none"
  BY DEF SignerInv, SignerTypes, VerdictsAreAsked, Arrive
<1>2. state \in Request /\ state.stage = "limit" /\ state.verdict = "none"
  BY <1>1 DEF Request, Stages
<1>3. request' = [request EXCEPT ![r] = state] /\ UNCHANGED <<cached, ended>>
  BY DEF Arrive
<1> HIDE DEF state
<1> QED
  BY <1>2, <1>3, RequestMoves

LEMMA ThroughStep ==
    ASSUME SignerInv, NEW r \in Requests, request[r].stage = "limit",
           request' = Through(r), UNCHANGED <<cached, ended>>
    PROVE SignerInv'
<1>1. PICK stage \in {"handle", "auth"} : request' = At(r, stage)
  BY DEF Through
<1> QED
  BY <1>1, MovesStep DEF Stages

LEMMA LimitStep ==
    ASSUME SignerInv, NEW r \in Requests,
           Unlimited(r) \/ Hit(r) \/ HitFails(r)
    PROVE SignerInv'
<1>1. /\ request[r].stage = "limit" /\ UNCHANGED <<cached, ended>>
      /\ request' = Through(r) \/ request' = Over(r)
  BY DEF Unlimited, Hit, HitFails
<1> QED
  BY <1>1, ThroughStep, EndsStep

LEMMA AuthenticateStep ==
    ASSUME SignerInv, NEW r \in Requests,
           Authenticate(r) \/ FromCache(r)
    PROVE SignerInv'
<1>1. /\ request[r].stage # "asking" /\ UNCHANGED <<cached, ended>>
      /\ \E stage \in {"handle", "signer", "user"} : request' = At(r, stage)
  BY DEF Authenticate, FromCache
<1> QED
  BY <1>1, MovesStep DEF Stages

LEMMA AskSignerStep ==
    ASSUME SignerInv, NEW r \in Requests, AskSigner(r)
    PROVE SignerInv'
<1> DEFINE state == [request[r] EXCEPT !.stage = "asking", !.left = Timeout]
<1>1. request[r] \in Request /\ request[r].verdict = "none"
  BY DEF SignerInv, SignerTypes, VerdictsAreAsked, AskSigner
<1>2. state \in Request /\ state.stage = "asking" /\ state.verdict = "none"
  BY <1>1, TimeSpans DEF Request, Stages
<1>3. request' = [request EXCEPT ![r] = state] /\ UNCHANGED <<cached, ended>>
  BY DEF AskSigner
<1> HIDE DEF state
<1> QED
  BY <1>2, <1>3, RequestMoves

(* A yes is given while the session lasts. *)
LEMMA SignerDecidesStep ==
    ASSUME SignerInv, NEW r \in Requests, SignerDecides(r)
    PROVE SignerInv'
<1> DEFINE v == IF request[r].credential = "signer" /\ ended = -1
                THEN "yes" ELSE "no"
           state == [request[r] EXCEPT !.verdict = v]
<1>1. request[r] \in Request /\ request[r].stage = "asking"
  BY DEF SignerInv, SignerTypes, SignerDecides
<1>2. v \in {"yes", "no"} /\ (v = "yes" => ended = -1)
  OBVIOUS
<1> HIDE DEF v
<1>3. state \in Request /\ state.stage = "asking" /\ state.verdict = v
  BY <1>1, <1>2 DEF Request
<1>4. request' = [request EXCEPT ![r] = state] /\ UNCHANGED <<cached, ended>>
  BY DEF SignerDecides, v
<1> HIDE DEF state
<1>5. request'[r] = state /\ \A q \in Requests \ {r} : request'[q] = request[q]
  BY <1>4 DEF SignerInv, SignerTypes
<1>6. SignerTypes'
  BY <1>3, <1>4 DEF SignerInv, SignerTypes
<1>7. VerdictsAreAsked'
  BY <1>3, <1>5 DEF SignerInv, VerdictsAreAsked
<1>8. AnswersAreYoung'
  BY <1>2, <1>3, <1>4, <1>5 DEF SignerInv, AnswersAreYoung
<1>9. CacheIsYoung'
  BY <1>4 DEF SignerInv, CacheIsYoung
<1> QED
  BY <1>6, <1>7, <1>8, <1>9 DEF SignerInv

(* What is cached is as young as the answer that is stored. *)
LEMMA AnswerArrivesStep ==
    ASSUME SignerInv, NEW r \in Requests, AnswerArrives(r)
    PROVE SignerInv'
<1>1. CASE request[r].verdict = "yes"
  <2> DEFINE state == [request[r] EXCEPT
                         !.stage = "user", !.left = 0, !.verdict = "none"]
  <2>1. request[r] \in Request
    BY DEF SignerInv, SignerTypes
  <2>2. state \in Request /\ state.stage = "user" /\ state.verdict = "none"
    BY <2>1, TimeSpans DEF Request, Stages
  <2>3. /\ request' = [request EXCEPT ![r] = state]
        /\ cached' = TTL /\ ended' = ended
    BY <1>1 DEF AnswerArrives
  <2> HIDE DEF state
  <2>4. request'[r] = state /\ \A q \in Requests \ {r} : request'[q] = request[q]
    BY <2>3 DEF SignerInv, SignerTypes
  <2>5. SignerTypes'
    BY <2>2, <2>3, AccessAssumption DEF SignerInv, SignerTypes
  <2>6. VerdictsAreAsked'
    BY <2>2, <2>4 DEF SignerInv, VerdictsAreAsked
  <2>7. AnswersAreYoung'
    BY <2>2, <2>3, <2>4 DEF SignerInv, AnswersAreYoung
  <2>8. ended >= 0 => ended + request[r].left <= Timeout
    BY <1>1 DEF SignerInv, AnswersAreYoung
  <2>9. request[r].left \in Nat
    BY <2>1 DEF Request
  <2>10. CacheIsYoung'
    BY <2>3, <2>8, <2>9, AccessAssumption
       DEF SignerInv, SignerTypes, CacheIsYoung
  <2> QED
    BY <2>5, <2>6, <2>7, <2>10 DEF SignerInv
<1>2. CASE request[r].verdict # "yes"
  BY <1>2, EndsStep DEF AnswerArrives
<1> QED
  BY <1>1, <1>2

LEMMA FindOrProvisionStep ==
    ASSUME SignerInv, NEW r \in Requests, FindOrProvision(r)
    PROVE SignerInv'
<1> DEFINE state == [request[r] EXCEPT !.stage = "handle", !.credential = "token"]
<1>1. request[r] \in Request /\ request[r].verdict = "none"
  BY DEF SignerInv, SignerTypes, VerdictsAreAsked, FindOrProvision
<1>2. state \in Request /\ state.stage = "handle" /\ state.verdict = "none"
  BY <1>1 DEF Request, Stages, Credentials
<1>3. /\ request' = [request EXCEPT ![r] = state] \/ request' = Over(r)
      /\ UNCHANGED <<cached, ended>>
  BY DEF FindOrProvision
<1> HIDE DEF state
<1>4. CASE request' = [request EXCEPT ![r] = state]
  BY <1>2, <1>3, <1>4, RequestMoves
<1>5. CASE request' = Over(r)
  BY <1>3, <1>5, EndsStep
<1> QED
  BY <1>3, <1>4, <1>5

LEMMA OpenRowsStep ==
    ASSUME SignerInv, NEW r \in Requests, OpenRows(r), request' # Over(r)
    PROVE SignerInv'
<1>1. PICK n \in {0, 1} : request' = [request EXCEPT ![r] =
                            [request[r] EXCEPT !.stage = "rows", !.rows = n]]
  BY DEF OpenRows
<1> DEFINE state == [request[r] EXCEPT !.stage = "rows", !.rows = n]
<1>2. request[r] \in Request /\ request[r].verdict = "none"
  BY DEF SignerInv, SignerTypes, VerdictsAreAsked, OpenRows
<1>3. state \in Request /\ state.stage = "rows" /\ state.verdict = "none"
  BY <1>2 DEF Request, Stages
<1>4. request' = [request EXCEPT ![r] = state] /\ UNCHANGED <<cached, ended>>
  BY <1>1 DEF OpenRows
<1> HIDE DEF state
<1> QED
  BY <1>3, <1>4, RequestMoves

LEMMA ReadRowStep ==
    ASSUME SignerInv, NEW r \in Requests, ReadRow(r) \/ RelaysKnown(r)
    PROVE SignerInv'
<1> DEFINE state == [request[r] EXCEPT !.rows = 0]
<1>1. request[r] \in Request /\ request[r].verdict = "none"
  BY DEF SignerInv, SignerTypes, VerdictsAreAsked, ReadRow, RelaysKnown
<1>2. state \in Request /\ state.verdict = "none"
  BY <1>1 DEF Request
<1>3. request' = [request EXCEPT ![r] = state] /\ UNCHANGED <<cached, ended>>
  BY DEF ReadRow, RelaysKnown
<1> HIDE DEF state
<1> QED
  BY <1>2, <1>3, RequestMoves

LEMMA AdvanceStep ==
    ASSUME SignerInv, NEW r \in Requests, Advance(r)
    PROVE SignerInv'
<1>1. CASE AskFails(r) \/ Serve(r) \/ CloseRows(r)
  BY <1>1, EndsStep DEF AskFails, Serve, CloseRows
<1>2. CASE OpenRows(r)
  <2>1. CASE request' = Over(r)
    BY <1>2, <2>1, EndsStep DEF OpenRows
  <2> QED
    BY <1>2, <2>1, OpenRowsStep
<1> QED
  BY <1>1, <1>2, LimitStep, AuthenticateStep, AskSignerStep, AnswerArrivesStep,
     FindOrProvisionStep, ReadRowStep DEF Advance

(* When the session ends, what was said of it before has its time left.    *)
LEMMA EndSessionStep ==
    ASSUME SignerInv, EndSession
    PROVE SignerInv'
<1>1. ended' = 0 /\ UNCHANGED <<request, cached>>
  BY DEF EndSession
<1>2. \A r \in Requests : request[r].left \in 0 .. Timeout
  BY DEF SignerInv, SignerTypes, Request
<1>3. SignerTypes' /\ VerdictsAreAsked'
  BY <1>1 DEF SignerInv, SignerTypes, VerdictsAreAsked
<1>4. AnswersAreYoung'
  BY <1>1, <1>2, AccessAssumption DEF AnswersAreYoung
<1>5. CacheIsYoung'
  BY <1>1, AccessAssumption DEF SignerInv, SignerTypes, CacheIsYoung
<1> QED
  BY <1>3, <1>4, <1>5 DEF SignerInv

(* A tick takes from the time left what it adds to the time passed. *)
LEMMA TickStep ==
    ASSUME SignerInv, Tick
    PROVE SignerInv'
<1> DEFINE ticked(r) == [request[r] EXCEPT !.left = Less(request[r].left)]
<1>1. \A r \in Requests : request[r] \in Request /\ request[r].left \in Nat
  BY DEF SignerInv, SignerTypes, Request
<1>2. ASSUME NEW r \in Requests
      PROVE /\ Less(request[r].left) \in 0 .. Timeout
            /\ request[r].left > 0 => Less(request[r].left) = request[r].left - 1
  BY <1>1, <1>2, LessIsLess, AccessAssumption DEF Request
<1>3. ASSUME NEW r \in Requests
      PROVE /\ ticked(r) \in Request
            /\ ticked(r).stage = request[r].stage
            /\ ticked(r).verdict = request[r].verdict
            /\ ticked(r).left = Less(request[r].left)
  BY <1>1, <1>2, <1>3 DEF Request
<1>4. request' = [r \in Requests |-> ticked(r)]
  BY DEF Tick
<1>5. /\ cached' \in 0 .. TTL
      /\ cached' > 0 => cached' = cached - 1
  BY LessIsLess, AccessAssumption DEF Tick, SignerInv, SignerTypes
<1>6. /\ ended' \in Int /\ ended' >= -1
      /\ ended' >= 0 => ended >= 0 /\ ended' <= ended + 1
  <2>1. CASE ended = -1
    BY <2>1 DEF Tick
  <2>2. CASE ended # -1
    <3>1. ended \in Nat /\ TTL + Timeout \in Nat
      BY <2>2, AccessAssumption DEF SignerInv, SignerTypes
    <3>2. ended' = Min({ended + 1, TTL + Timeout})
      BY <2>2 DEF Tick
    <3> QED
      BY <3>1, <3>2, MinIsAtMost
  <2> QED
    BY <2>1, <2>2
<1> HIDE DEF ticked
<1>7. SignerTypes'
  BY <1>3, <1>4, <1>5, <1>6 DEF SignerTypes
<1>8. VerdictsAreAsked'
  BY <1>3, <1>4 DEF SignerInv, VerdictsAreAsked
<1>9. AnswersAreYoung'
  <2> SUFFICES ASSUME NEW r \in Requests, request'[r].verdict = "yes", ended' >= 0
               PROVE ended' + request'[r].left <= Timeout
    BY DEF AnswersAreYoung
  <2>1. request[r].verdict = "yes" /\ request[r].stage = "asking"
    BY <1>3, <1>4 DEF SignerInv, VerdictsAreAsked
  <2>2. request[r].left > 0
    BY <2>1 DEF Tick
  <2>3. request'[r].left = request[r].left - 1
    BY <1>2, <1>3, <1>4, <2>2
  <2>4. ended + request[r].left <= Timeout
    BY <1>6, <2>1 DEF SignerInv, AnswersAreYoung
  <2> QED
    BY <1>1, <1>6, <2>3, <2>4, AccessAssumption DEF SignerInv, SignerTypes
<1>10. CacheIsYoung'
  BY <1>5, <1>6, AccessAssumption DEF SignerInv, SignerTypes, CacheIsYoung
<1> QED
  BY <1>7, <1>8, <1>9, <1>10 DEF SignerInv

(* A crash of the database leaves the requests, a restart ends them. *)
LEMMA CrashStep ==
    ASSUME SignerInv, DatabaseCrash \/ ServerRestart
    PROVE SignerInv'
<1>1. \A r \in Requests : /\ Over(r)[r] \in Request
                          /\ Over(r)[r].verdict = "none"
  BY OverIsIdle
<1>2. /\ request' \in [Requests -> Request]
      /\ \A r \in Requests : \/ request'[r] = request[r]
                             \/ request'[r].verdict = "none"
  BY <1>1 DEF SignerInv, SignerTypes, DatabaseCrash, ServerRestart
<1>3. cached' \in {0, cached} /\ ended' = ended
  BY DEF DatabaseCrash, ServerRestart
<1>4. SignerTypes'
  BY <1>2, <1>3, AccessAssumption DEF SignerInv, SignerTypes
<1>5. VerdictsAreAsked'
  BY <1>2 DEF SignerInv, VerdictsAreAsked
<1>6. AnswersAreYoung'
  BY <1>2, <1>3 DEF SignerInv, AnswersAreYoung
<1>7. CacheIsYoung'
  BY <1>3 DEF SignerInv, CacheIsYoung
<1> QED
  BY <1>4, <1>5, <1>6, <1>7 DEF SignerInv

LEMMA AccessNextInv == SignerInv /\ [AccessNext]_vars => SignerInv'
<1> SUFFICES ASSUME SignerInv, [AccessNext]_vars PROVE SignerInv'
  OBVIOUS
<1>1. CASE UNCHANGED vars
  BY <1>1 DEF vars, SignerInv, SignerTypes, VerdictsAreAsked, AnswersAreYoung,
              CacheIsYoung
<1>2. CASE Prune
  BY <1>2 DEF Prune, SignerInv, SignerTypes, VerdictsAreAsked, AnswersAreYoung,
              CacheIsYoung
<1>3. ASSUME NEW r \in Requests, NEW k \in Routes, NEW c \in Clients,
             NEW d \in Credentials, Arrive(r, k, c, d)
      PROVE SignerInv'
  <2>1. k \in Kinds
    BY AccessAssumption
  <2> QED
    BY <1>3, <2>1, ArriveStep
<1>4. ASSUME NEW r \in Requests,
             Advance(r) \/ SignerDecides(r) \/ RelaysKnown(r)
      PROVE SignerInv'
  BY <1>4, AdvanceStep, SignerDecidesStep, ReadRowStep
<1>5. CASE EndSession \/ Tick \/ DatabaseCrash \/ ServerRestart
  BY <1>5, EndSessionStep, TickStep, CrashStep
<1> QED
  BY <1>1, <1>2, <1>3, <1>4, <1>5 DEF AccessNext

LEMMA AccessAlwaysInv == AccessInit /\ [][AccessNext]_vars => []SignerInv
<1> QED
  BY AccessInitInv, AccessNextInv, PTL

(* What a request does concerns no other one. *)
LEMMA OthersStay ==
    ASSUME SignerInv, NEW q \in Requests, NEW r \in Requests \ {q},
           \/ Advance(q) \/ SignerDecides(q) \/ RelaysKnown(q)
           \/ \E k \in Routes, c \in Clients, d \in Credentials : Arrive(q, k, c, d)
    PROVE request'[r] = request[r]
<1> USE DEF SignerInv, SignerTypes
<1>1. CASE Unlimited(q) \/ Hit(q) \/ HitFails(q)
  BY <1>1 DEF Unlimited, Hit, HitFails, Through, At, Over
<1>2. CASE Authenticate(q) \/ FromCache(q) \/ AskSigner(q) \/ SignerDecides(q)
  BY <1>2 DEF Authenticate, FromCache, AskSigner, SignerDecides, At
<1>3. CASE AnswerArrives(q) \/ AskFails(q) \/ FindOrProvision(q)
  BY <1>3 DEF AnswerArrives, AskFails, FindOrProvision, Over
<1>4. CASE Serve(q) \/ OpenRows(q) \/ ReadRow(q) \/ RelaysKnown(q) \/ CloseRows(q)
  BY <1>4 DEF Serve, OpenRows, ReadRow, RelaysKnown, CloseRows, Over
<1>5. CASE \E k \in Routes, c \in Clients, d \in Credentials : Arrive(q, k, c, d)
  BY <1>5 DEF Arrive
<1> QED
  BY <1>1, <1>2, <1>3, <1>4, <1>5 DEF Advance

(* A request that waits for the signer is let in by the cache or by an     *)
(* answer, and by nothing else.                                            *)
LEMMA LetInBySigner ==
    ASSUME SignerInv, NEW r \in Requests, [AccessNext]_vars,
           request[r].stage \in {"signer", "asking"}, request'[r].stage = "user"
    PROVE FromCache(r) \/ AnswerArrives(r)
<1>1. request[r] \in Request
  BY DEF SignerInv, SignerTypes
<1>2. CASE UNCHANGED request
  BY <1>2
<1>3. CASE DatabaseCrash \/ ServerRestart
  <2>1. Over(r)[r].stage = "idle"
    BY OverIsIdle
  <2> QED
    BY <1>3, <2>1 DEF DatabaseCrash, ServerRestart
<1>4. CASE Tick
  <2>1. request'[r] = [request[r] EXCEPT !.left = Less(request[r].left)]
    BY <1>4 DEF Tick
  <2> QED
    BY <1>1, <2>1 DEF Request
<1>5. ASSUME NEW q \in Requests,
             \/ Advance(q) \/ SignerDecides(q) \/ RelaysKnown(q)
             \/ \E k \in Routes, c \in Clients, d \in Credentials : Arrive(q, k, c, d)
      PROVE FromCache(r) \/ AnswerArrives(r)
  <2>1. q = r
    BY <1>5, OthersStay
  <2>2. CASE AskFails(r)
    BY <2>2, OverIsIdle DEF AskFails, SignerInv, SignerTypes
  <2>3. CASE AskSigner(r)
    BY <1>1, <2>3 DEF AskSigner, SignerInv, SignerTypes, Request
  <2>4. CASE SignerDecides(r)
    BY <1>1, <2>4 DEF SignerDecides, SignerInv, SignerTypes, Request
  <2> QED
    BY <1>5, <2>1, <2>2, <2>3, <2>4
       DEF Advance, Arrive, Unlimited, Hit, HitFails, Authenticate,
           FindOrProvision, Serve, OpenRows, ReadRow, RelaysKnown, CloseRows
<1> QED
  BY <1>2, <1>3, <1>4, <1>5 DEF AccessNext, vars, Prune, EndSession

LEMMA LetInSoonEnough ==
    ASSUME SignerInv, [AccessNext]_vars, NEW r \in Requests,
           request[r].stage \in {"signer", "asking"}, request'[r].stage = "user"
    PROVE ended < TTL + Timeout
<1>1. ended \in Int /\ ended >= -1 /\ cached \in Nat
  BY AccessAssumption DEF SignerInv, SignerTypes
<1>2. CASE FromCache(r)
  <2>1. cached > 0
    BY <1>2 DEF FromCache, InCache
  <2>2. ended >= 0 => ended + cached <= TTL + Timeout
    BY <2>1 DEF SignerInv, CacheIsYoung
  <2> QED
    BY <1>1, <2>1, <2>2, AccessAssumption
<1>3. CASE AnswerArrives(r)
  <2>1. request[r].verdict = "yes"
    <3>1. request[r].verdict # "yes" => request'[r].stage = "idle"
      BY <1>3, OverIsIdle DEF AnswerArrives
    <3> QED
      BY <3>1
  <2>2. ended >= 0 => ended + request[r].left <= Timeout
    BY <2>1 DEF SignerInv, AnswersAreYoung
  <2>3. request[r].left \in Nat
    BY AccessAssumption DEF SignerInv, SignerTypes, Request
  <2> QED
    BY <1>1, <2>2, <2>3, AccessAssumption
<1> QED
  BY <1>2, <1>3, LetInBySigner

(* A session the signer has ended lets nobody in once the time it is       *)
(* cached and the time an answer takes have passed, for any number of      *)
(* requests and answers that cross.                                        *)
THEOREM SignerSessionsEnd == AccessSpec => EndedSessionsAreForgotten
<1>1. AccessSpec => AccessInit /\ [][AccessNext]_vars
  BY PTL DEF AccessSpec
<1>2. SignerInv /\ [AccessNext]_vars =>
        [\A r \in Requests :
          (request[r].stage \in {"signer", "asking"} /\ request'[r].stage = "user") =>
             ended < TTL + Timeout]_vars
  BY LetInSoonEnough
<1> QED
  BY <1>1, <1>2, AccessAlwaysInv, PTL DEF EndedSessionsAreForgotten

-----------------------------------------------------------------------------
(* What is counted: every counter is a row of its bucket, and what was     *)
(* admitted is known for each age within a window.                         *)
CounterTypes ==
    /\ counter \in [Buckets -> [Clients -> [count : Nat, left : 0 .. Window]]]
    /\ \A b \in Buckets, c \in Clients : counter[b][c].count <= Limit[b] + 1
    /\ admitted \in [Buckets -> [Clients -> [0 .. Window - 1 -> Nat]]]

(* The admissions that are at most n ticks old, and those that are older.  *)
Younger(span, n) == {p \in Admissions(span) : p[1] <= n}
Older(span, n) == {p \in Admissions(span) : p[1] > n}

(* A window that began n ticks ago has admitted what is at most n ticks    *)
(* old, and of what is older the span reaches into one window only.        *)
WindowAdmits(span, n, limit) ==
    /\ IsFiniteSet(Admissions(span))
    /\ Cardinality(Younger(span, n)) <= limit
    /\ Cardinality(Older(span, n)) <= limit

RowAdmits(row, span, limit) ==
    /\ WindowAdmits(span, Window - row.left, limit)
    /\ row.left > 0 => Cardinality(Younger(span, Window - row.left)) <= row.count
    /\ row.left = 0 => span[0] = 0

WindowsAdmit ==
    \A b \in Buckets, c \in Clients :
        RowAdmits(counter[b][c], admitted[b][c], Limit[b])

LimitInv == CounterTypes /\ WindowsAdmit

Span == [0 .. Window - 1 -> Nat]

(* A span a tick later. *)
Shifted(span) ==
    [age \in 0 .. Window - 1 |-> IF age = 0 THEN 0 ELSE span[age - 1]]

LEMMA AdmissionsArePairs ==
    ASSUME NEW span \in Span, NEW p
    PROVE  p \in Admissions(span) <=>
             \E age \in 0 .. Window - 1 : \E k \in 1 .. span[age] : p = <<age, k>>
BY DEF Admissions

(* What is admitted ages with the span. *)
LEMMA AdmissionsAge ==
    ASSUME NEW span \in Span, NEW p \in Admissions(Shifted(span))
    PROVE  /\ p[1] \in 1 .. Window - 1 /\ p[2] \in Nat /\ p = <<p[1], p[2]>>
           /\ <<p[1] - 1, p[2]>> \in Admissions(span)
<1>1. Shifted(span) \in Span
  BY AccessAssumption DEF Shifted, Span
<1>2. PICK age \in 0 .. Window - 1 : \E k \in 1 .. Shifted(span)[age] : p = <<age, k>>
  BY <1>1, AdmissionsArePairs
<1>3. PICK k \in 1 .. Shifted(span)[age] : p = <<age, k>>
  BY <1>2
<1>4. age # 0 /\ k \in 1 .. span[age - 1]
  BY <1>3, AccessAssumption DEF Shifted, Span
<1>5. age - 1 \in 0 .. Window - 1
  BY <1>4, AccessAssumption
<1>6. <<age - 1, k>> \in Admissions(span)
  BY <1>4, <1>5, AdmissionsArePairs
<1>7. k \in Nat
  BY <1>4, <1>5 DEF Span
<1> QED BY <1>3, <1>4, <1>6, <1>7, AccessAssumption

(* A part of a span a tick later has no more in it than what it comes from.*)
LEMMA AgedPart ==
    ASSUME NEW span \in Span, NEW S \in SUBSET Admissions(Shifted(span)),
           NEW T, IsFiniteSet(T), \A p \in S : <<p[1] - 1, p[2]>> \in T
    PROVE  IsFiniteSet(S) /\ Cardinality(S) <= Cardinality(T)
<1> DEFINE before == [p \in S |-> <<p[1] - 1, p[2]>>]
<1>1. \A p \in S : /\ p[1] \in 1 .. Window - 1 /\ p[2] \in Nat
                   /\ p = <<p[1], p[2]>>
  BY AdmissionsAge
<1>2. before \in [S -> T]
  OBVIOUS
<1>3. \A p, q \in S : before[p] = before[q] => p = q
  <2> SUFFICES ASSUME NEW p \in S, NEW q \in S, before[p] = before[q] PROVE p = q
    OBVIOUS
  <2>1. p[1] - 1 = q[1] - 1 /\ p[2] = q[2]
    OBVIOUS
  <2>2. p[1] = q[1]
    BY <1>1, <2>1, AccessAssumption
  <2> QED BY <1>1, <2>1, <2>2
<1>4. before \in Injection(S, T)
  BY <1>2, <1>3 DEF Injection, IsInjective
<1> QED BY <1>4, FS_Injection

LEMMA WindowsAge ==
    ASSUME NEW span \in Span, NEW n \in 0 .. Window, NEW m \in 0 .. Window,
           NEW limit \in Nat, WindowAdmits(span, n, limit),
           m = n + 1 \/ (m = Window /\ n = Window)
    PROVE  /\ WindowAdmits(Shifted(span), m, limit)
           /\ Cardinality(Younger(Shifted(span), m)) <= Cardinality(Younger(span, n))
<1>1. /\ IsFiniteSet(Admissions(span))
      /\ IsFiniteSet(Younger(span, n)) /\ IsFiniteSet(Older(span, n))
      /\ Cardinality(Younger(span, n)) \in Nat /\ Cardinality(Older(span, n)) \in Nat
  <2>1. Younger(span, n) \in SUBSET Admissions(span)
        /\ Older(span, n) \in SUBSET Admissions(span)
    BY DEF Younger, Older
  <2> QED BY <2>1, FS_Subset, FS_CardinalityType DEF WindowAdmits
<1>2. IsFiniteSet(Admissions(Shifted(span)))
  BY <1>1, AdmissionsAge, AgedPart
<1>3. ASSUME NEW p \in Admissions(Shifted(span))
      PROVE  /\ <<p[1] - 1, p[2]>> \in Admissions(span)
             /\ p[1] <= m => <<p[1] - 1, p[2]>>[1] <= n
             /\ p[1] > m => <<p[1] - 1, p[2]>>[1] > n
  <2>1. /\ p[1] \in 1 .. Window - 1 /\ p[2] \in Nat
        /\ <<p[1] - 1, p[2]>> \in Admissions(span)
    BY AdmissionsAge
  <2>2. <<p[1] - 1, p[2]>>[1] = p[1] - 1
    OBVIOUS
  <2> QED BY <2>1, <2>2, AccessAssumption
<1>4. /\ \A p \in Younger(Shifted(span), m) : <<p[1] - 1, p[2]>> \in Younger(span, n)
      /\ \A p \in Older(Shifted(span), m) : <<p[1] - 1, p[2]>> \in Older(span, n)
  BY <1>3 DEF Younger, Older
<1>5. /\ IsFiniteSet(Younger(Shifted(span), m))
      /\ Cardinality(Younger(Shifted(span), m)) <= Cardinality(Younger(span, n))
  BY <1>1, <1>4, AgedPart DEF Younger
<1>6. /\ IsFiniteSet(Older(Shifted(span), m))
      /\ Cardinality(Older(Shifted(span), m)) <= Cardinality(Older(span, n))
  BY <1>1, <1>4, AgedPart DEF Older
<1>7. Cardinality(Younger(Shifted(span), m)) \in Nat
      /\ Cardinality(Older(Shifted(span), m)) \in Nat
  BY <1>5, <1>6, FS_CardinalityType
<1> QED BY <1>1, <1>2, <1>5, <1>6, <1>7 DEF WindowAdmits

LEMMA SpanGrows ==
    ASSUME NEW span \in Span
    PROVE  [span EXCEPT ![0] = span[0] + 1] \in Span
<1>1. 0 \in 0 .. Window - 1
  BY AccessAssumption
<1>2. span[0] + 1 \in Nat
  BY <1>1 DEF Span
<1> QED BY <1>1, <1>2 DEF Span

(* Another admission. *)
LEMMA OneMoreAdmission ==
    ASSUME NEW span \in Span, NEW more \in Span,
           more = [span EXCEPT ![0] = span[0] + 1]
    PROVE  /\ Admissions(more) = Admissions(span) \cup {<<0, span[0] + 1>>}
           /\ \A n \in 0 .. Window :
                /\ Younger(more, n) = Younger(span, n) \cup {<<0, span[0] + 1>>}
                /\ Older(more, n) = Older(span, n)
<1> DEFINE new == <<0, span[0] + 1>>
<1>0. 0 \in 0 .. Window - 1
  BY AccessAssumption
<1>1. ASSUME NEW p PROVE p \in Admissions(more) <=> p \in Admissions(span) \cup {new}
  <2>1. ASSUME p \in Admissions(more) PROVE p \in Admissions(span) \cup {new}
    <3>1. PICK age \in 0 .. Window - 1 : \E k \in 1 .. more[age] : p = <<age, k>>
      <4>1. \E age \in 0 .. Window - 1 : \E k \in 1 .. more[age] : p = <<age, k>>
        BY ONLY p \in Admissions(more), more \in Span, <2>1, AdmissionsArePairs
      <4> QED BY <4>1
    <3>2. PICK k \in 1 .. more[age] : p = <<age, k>>
      BY <3>1
    <3>3. CASE age = 0 /\ k = span[0] + 1
      BY <3>2, <3>3
    <3>4. CASE age # 0 \/ k # span[0] + 1
      <4>1. k \in 1 .. span[age]
        BY <1>0, <3>2, <3>4 DEF Span
      <4> QED BY <3>2, <4>1, AdmissionsArePairs
    <3> QED BY <3>3, <3>4
  <2>2. ASSUME p \in Admissions(span) PROVE p \in Admissions(more)
    <3>1. PICK age \in 0 .. Window - 1 : \E k \in 1 .. span[age] : p = <<age, k>>
      BY <2>2, AdmissionsArePairs
    <3>2. PICK k \in 1 .. span[age] : p = <<age, k>>
      BY <3>1
    <3>3. k \in 1 .. more[age]
      BY <1>0, <3>2 DEF Span
    <3> QED BY <3>2, <3>3, AdmissionsArePairs
  <2>3. new \in Admissions(more)
    <3>1. span[0] + 1 \in 1 .. more[0]
      BY <1>0 DEF Span
    <3> QED BY <1>0, <3>1, AdmissionsArePairs
  <2> QED BY <2>1, <2>2, <2>3
<1>2. Admissions(more) = Admissions(span) \cup {new}
  BY <1>1
<1>3. new[1] = 0 /\ \A n \in 0 .. Window : new[1] <= n /\ ~(new[1] > n)
  BY AccessAssumption
<1> HIDE DEF new
<1>4. \A n \in 0 .. Window : /\ Younger(more, n) = Younger(span, n) \cup {new}
                             /\ Older(more, n) = Older(span, n)
  BY <1>2, <1>3 DEF Younger, Older
<1> QED BY <1>2, <1>4 DEF new

LEMMA NothingAdmitted ==
    ASSUME NEW n \in 0 .. Window, NEW limit \in Nat
    PROVE  /\ WindowAdmits(NoAdmission, n, limit)
           /\ Cardinality(Younger(NoAdmission, n)) = 0
<1>1. NoAdmission \in Span /\ \A age \in 0 .. Window - 1 : NoAdmission[age] = 0
  BY DEF NoAdmission, Span
<1>2. Admissions(NoAdmission) = {}
  BY <1>1 DEF Admissions
<1>3. Younger(NoAdmission, n) = {} /\ Older(NoAdmission, n) = {}
  BY <1>2 DEF Younger, Older
<1> QED BY <1>2, <1>3, FS_EmptySet DEF WindowAdmits

-----------------------------------------------------------------------------
Rows(limit) == {row \in [count : Nat, left : 0 .. Window] : row.count <= limit + 1}

(* What a hit makes of a row. *)
CountedRow(row, limit) ==
    IF row.left = 0 THEN [count |-> 1, left |-> Window]
    ELSE [count |-> Min({row.count + 1, limit + 1}), left |-> row.left]

LEMMA HitCounts ==
    ASSUME NEW limit \in Nat, NEW row \in Rows(limit)
    PROVE  /\ CountedRow(row, limit) \in Rows(limit)
           /\ row.left = 0 => CountedRow(row, limit) = [count |-> 1, left |-> Window]
           /\ row.left > 0 =>
                /\ CountedRow(row, limit).left = row.left
                /\ CountedRow(row, limit).count >= row.count
                /\ CountedRow(row, limit).count <= limit =>
                     CountedRow(row, limit).count = row.count + 1
<1>1. CASE row.left = 0
  BY <1>1, AccessAssumption DEF CountedRow, Rows
<1>2. CASE row.left # 0
  <2> DEFINE least == Min({row.count + 1, limit + 1})
  <2>1. row.count \in Nat /\ row.count <= limit + 1 /\ row.left \in 0 .. Window
    BY DEF Rows
  <2>2. least \in {row.count + 1, limit + 1} /\ least <= row.count + 1
    BY <2>1, MinIsAtMost
  <2>3. least <= limit + 1
    <3>1. Min({limit + 1, row.count + 1}) <= limit + 1
      BY <2>1, MinIsAtMost
    <3>2. {limit + 1, row.count + 1} = {row.count + 1, limit + 1}
      OBVIOUS
    <3> QED BY <3>1, <3>2
  <2>4. CountedRow(row, limit) = [count |-> least, left |-> row.left]
    BY <1>2 DEF CountedRow
  <2> HIDE DEF least
  <2> QED BY <1>2, <2>1, <2>2, <2>3, <2>4 DEF Rows
<1> QED BY <1>1, <1>2

LEMMA PartsAreFinite ==
    ASSUME NEW span, IsFiniteSet(Admissions(span)), NEW n
    PROVE  /\ IsFiniteSet(Younger(span, n)) /\ Cardinality(Younger(span, n)) \in Nat
           /\ IsFiniteSet(Older(span, n)) /\ Cardinality(Older(span, n)) \in Nat
<1>1. Younger(span, n) \in SUBSET Admissions(span)
      /\ Older(span, n) \in SUBSET Admissions(span)
  BY DEF Younger, Older
<1> QED BY <1>1, FS_Subset, FS_CardinalityType

(* A window that begins now has nothing in it yet: what the span has comes *)
(* from the window that is over.                                           *)
LEMMA WindowOpens ==
    ASSUME NEW span \in Span, NEW limit \in Nat, WindowAdmits(span, Window, limit),
           span[0] = 0
    PROVE  /\ Younger(span, 0) = {}
           /\ WindowAdmits(span, 0, limit)
<1>1. ASSUME NEW p \in Admissions(span) PROVE p[1] \in 1 .. Window - 1
  <2>1. PICK age \in 0 .. Window - 1 : \E k \in 1 .. span[age] : p = <<age, k>>
    BY AdmissionsArePairs
  <2>2. age # 0
    BY <2>1
  <2> QED BY <2>1, <2>2, AccessAssumption
<1>2. Younger(span, 0) = {}
  BY <1>1, AccessAssumption DEF Younger
<1>3. Older(span, 0) = Younger(span, Window)
  BY <1>1, AccessAssumption DEF Younger, Older
<1> QED BY <1>2, <1>3, FS_EmptySet DEF WindowAdmits

(* A hit that lets nobody in: refused, or counted before the store failed. *)
LEMMA RowCounts ==
    ASSUME NEW limit \in Nat, NEW row \in Rows(limit), NEW span \in Span,
           RowAdmits(row, span, limit)
    PROVE  RowAdmits(CountedRow(row, limit), span, limit)
<1>1. CASE row.left = 0
  <2>1. WindowAdmits(span, Window, limit) /\ span[0] = 0
    BY <1>1, AccessAssumption DEF RowAdmits
  <2>2. Younger(span, 0) = {} /\ WindowAdmits(span, 0, limit)
    BY <2>1, WindowOpens
  <2>3. CountedRow(row, limit) = [count |-> 1, left |-> Window]
    BY <1>1, HitCounts
  <2>4. Cardinality(Younger(span, 0)) = 0
    BY <2>2, FS_EmptySet
  <2>5. Window - Window = 0 /\ Window > 0
    BY AccessAssumption
  <2> QED BY <2>2, <2>3, <2>4, <2>5 DEF RowAdmits
<1>2. CASE row.left > 0
  <2>1. /\ CountedRow(row, limit).left = row.left
        /\ CountedRow(row, limit).count >= row.count
        /\ CountedRow(row, limit).count \in Nat /\ row.count \in Nat
    BY <1>2, HitCounts DEF Rows
  <2>2. Cardinality(Younger(span, Window - row.left)) \in Nat
    BY PartsAreFinite DEF RowAdmits, WindowAdmits
  <2> QED BY <1>2, <2>1, <2>2 DEF RowAdmits
<1> QED BY <1>1, <1>2 DEF Rows

(* A hit that lets one more in. *)
LEMMA RowHits ==
    ASSUME NEW limit \in Nat, NEW row \in Rows(limit), NEW span \in Span,
           RowAdmits(row, span, limit), CountedRow(row, limit).count <= limit
    PROVE  RowAdmits(CountedRow(row, limit), [span EXCEPT ![0] = span[0] + 1], limit)
<1> DEFINE more == [span EXCEPT ![0] = span[0] + 1]
           hit == CountedRow(row, limit)
           n == Window - hit.left
           new == <<0, span[0] + 1>>
<1>1. 0 \in 0 .. Window - 1 /\ span[0] + 1 \in Nat
  BY AccessAssumption DEF Span
<1>2. more \in Span
  BY SpanGrows
<1>3. hit \in Rows(limit) /\ hit.left > 0 /\ n \in 0 .. Window
  <2>1. hit \in Rows(limit)
    BY HitCounts
  <2>2. CASE row.left = 0
    <3>1. hit.left = Window
      BY <2>2, HitCounts
    <3> QED BY <2>1, <3>1, AccessAssumption
  <2>3. CASE row.left > 0
    <3>1. hit.left = row.left
      BY <2>3, HitCounts
    <3> QED BY <2>1, <2>3, <3>1, AccessAssumption DEF Rows
  <2> QED BY <2>2, <2>3 DEF Rows
<1>4. RowAdmits(hit, span, limit)
  BY RowCounts
<1>5. /\ Admissions(more) = Admissions(span) \cup {new}
      /\ Younger(more, n) = Younger(span, n) \cup {new}
      /\ Older(more, n) = Older(span, n)
  BY <1>2, <1>3, OneMoreAdmission
<1>6. IsFiniteSet(Admissions(span)) /\ IsFiniteSet(Younger(span, n))
      /\ Cardinality(Younger(span, n)) \in Nat
  BY <1>4, PartsAreFinite DEF RowAdmits, WindowAdmits
<1>7. /\ IsFiniteSet(Admissions(more))
      /\ Cardinality(Younger(more, n)) <= Cardinality(Younger(span, n)) + 1
  <2>1. IsFiniteSet(Admissions(span) \cup {new})
    BY <1>6, FS_AddElement
  <2>2. Cardinality(Younger(span, n) \cup {new})
           = IF new \in Younger(span, n) THEN Cardinality(Younger(span, n))
             ELSE Cardinality(Younger(span, n)) + 1
    BY <1>6, FS_AddElement
  <2>3. Cardinality(Younger(span, n) \cup {new}) <= Cardinality(Younger(span, n)) + 1
    BY <1>6, <2>2
  <2> HIDE DEF more, new, n
  <2> QED BY <1>5, <2>1, <2>3
<1>8. Cardinality(Younger(span, n)) + 1 <= hit.count
  <2>1. CASE row.left = 0
    <3>1. hit = [count |-> 1, left |-> Window]
      BY <2>1, HitCounts
    <3>2. Younger(span, 0) = {}
      BY <2>1, WindowOpens, AccessAssumption DEF RowAdmits
    <3>3. n = 0
      BY <3>1, AccessAssumption
    <3> QED BY <3>1, <3>2, <3>3, FS_EmptySet
  <2>2. CASE row.left > 0
    <3>1. hit.count = row.count + 1 /\ hit.left = row.left /\ row.count \in Nat
      BY <2>2, HitCounts DEF Rows
    <3>2. Cardinality(Younger(span, n)) <= row.count
      BY <2>2, <3>1 DEF RowAdmits
    <3> QED BY <1>6, <3>1, <3>2
  <2> QED BY <2>1, <2>2 DEF Rows
<1>9. Cardinality(Younger(more, n)) \in Nat
  BY <1>7, PartsAreFinite
<1>10. /\ hit.count \in Nat /\ hit.count <= limit
       /\ Cardinality(Younger(more, n)) <= hit.count
       /\ Cardinality(Younger(more, n)) <= limit
  BY <1>3, <1>6, <1>7, <1>8, <1>9 DEF Rows
<1>11. WindowAdmits(more, n, limit)
  BY <1>4, <1>5, <1>7, <1>10 DEF WindowAdmits, RowAdmits
<1>12. hit.left # 0
  BY <1>3 DEF Rows
<1> HIDE DEF more, hit
<1>13. RowAdmits(hit, more, limit)
  BY <1>10, <1>11, <1>12 DEF RowAdmits
<1> QED BY <1>13 DEF more, hit

(* A tick later. *)
LEMMA RowTicks ==
    ASSUME NEW limit \in Nat, NEW row \in Rows(limit), NEW span \in Span,
           RowAdmits(row, span, limit)
    PROVE  /\ [row EXCEPT !.left = Less(row.left)] \in Rows(limit)
           /\ Shifted(span) \in Span
           /\ RowAdmits([row EXCEPT !.left = Less(row.left)], Shifted(span), limit)
<1> DEFINE left == Less(row.left)
           later == [row EXCEPT !.left = left]
<1>1. row.left \in 0 .. Window /\ row.count \in Nat
  BY DEF Rows
<1>2. /\ left \in 0 .. Window
      /\ row.left > 0 => left = row.left - 1
      /\ row.left = 0 => left = 0
  BY <1>1, LessIsLess, AccessAssumption
<1> HIDE DEF left
<1>3. later \in Rows(limit) /\ later.left = left /\ later.count = row.count
  BY <1>2 DEF Rows
<1>4. Shifted(span) \in Span /\ Shifted(span)[0] = 0
  BY AccessAssumption DEF Shifted, Span
<1>5. /\ Window - row.left \in 0 .. Window /\ Window - left \in 0 .. Window
      /\ \/ Window - left = (Window - row.left) + 1
         \/ Window - left = Window /\ Window - row.left = Window
  BY <1>1, <1>2, AccessAssumption
<1>6. /\ WindowAdmits(Shifted(span), Window - left, limit)
      /\ Cardinality(Younger(Shifted(span), Window - left))
           <= Cardinality(Younger(span, Window - row.left))
  BY <1>5, WindowsAge DEF RowAdmits
<1>7. /\ Cardinality(Younger(Shifted(span), Window - left)) \in Nat
      /\ Cardinality(Younger(span, Window - row.left)) \in Nat
  BY <1>6, PartsAreFinite DEF RowAdmits, WindowAdmits
<1>8. left > 0 => Cardinality(Younger(Shifted(span), Window - left)) <= row.count
  BY <1>1, <1>2, <1>6, <1>7 DEF RowAdmits
<1> HIDE DEF later
<1>9. RowAdmits(later, Shifted(span), limit)
  BY <1>3, <1>4, <1>6, <1>8 DEF RowAdmits
<1> QED BY <1>3, <1>4, <1>9 DEF later, left

(* No row, when the window is over or the counters are lost. *)
LEMMA RowEmpty ==
    ASSUME NEW limit \in Nat
    PROVE  /\ NoCounter \in Rows(limit) /\ NoAdmission \in Span
           /\ RowAdmits(NoCounter, NoAdmission, limit)
           /\ \A row \in Rows(limit), span \in Span :
                (row.left = 0 /\ RowAdmits(row, span, limit)) =>
                    RowAdmits(NoCounter, span, limit)
<1>1. NoCounter \in Rows(limit)
  BY AccessAssumption DEF NoCounter, Rows
<1>2. NoAdmission \in Span /\ NoAdmission[0] = 0
  BY AccessAssumption DEF NoAdmission, Span
<1>3. Window - 0 = Window /\ Window \in 0 .. Window
  BY AccessAssumption
<1>4. RowAdmits(NoCounter, NoAdmission, limit)
  BY <1>2, <1>3, NothingAdmitted DEF RowAdmits, NoCounter
<1> QED BY <1>1, <1>2, <1>4 DEF RowAdmits, NoCounter

-----------------------------------------------------------------------------
LEMMA RowsTyped ==
    ASSUME CounterTypes, NEW b \in Buckets, NEW c \in Clients
    PROVE  /\ Limit[b] \in Nat
           /\ counter[b][c] \in Rows(Limit[b])
           /\ admitted[b][c] \in Span
BY AccessAssumption DEF CounterTypes, Rows, Span

(* The counters and the spans, row by row. *)
LEMMA EachRow ==
    ASSUME NEW rows, NEW spans,
           rows \in [Buckets -> [Clients -> [count : Nat, left : 0 .. Window]]],
           spans \in [Buckets -> [Clients -> Span]],
           \A b \in Buckets, c \in Clients :
               /\ rows[b][c] \in Rows(Limit[b])
               /\ RowAdmits(rows[b][c], spans[b][c], Limit[b]),
           counter' = rows, admitted' = spans
    PROVE  CounterTypes' /\ WindowsAdmit'
BY DEF CounterTypes, WindowsAdmit, Rows, Span

LEMMA OneRow ==
    ASSUME CounterTypes, WindowsAdmit, NEW b \in Buckets, NEW c \in Clients,
           NEW row \in Rows(Limit[b]), NEW span \in Span,
           RowAdmits(row, span, Limit[b]),
           counter' = [counter EXCEPT ![b][c] = row],
           admitted' = [admitted EXCEPT ![b][c] = span]
    PROVE  CounterTypes' /\ WindowsAdmit'
<1>1. counter' \in [Buckets -> [Clients -> [count : Nat, left : 0 .. Window]]]
  BY DEF CounterTypes, Rows
<1>2. admitted' \in [Buckets -> [Clients -> Span]]
  BY DEF CounterTypes, Span
<1>3. /\ counter'[b][c] = row /\ admitted'[b][c] = span
      /\ \A d \in Buckets, e \in Clients : (d # b \/ e # c) =>
            counter'[d][e] = counter[d][e] /\ admitted'[d][e] = admitted[d][e]
  BY DEF CounterTypes
<1>4. \A d \in Buckets, e \in Clients :
         /\ counter'[d][e] \in Rows(Limit[d])
         /\ RowAdmits(counter'[d][e], admitted'[d][e], Limit[d])
  BY <1>3, RowsTyped DEF WindowsAdmit
<1> QED BY <1>1, <1>2, <1>4, EachRow

LEMMA CountedIsOneRow ==
    ASSUME CounterTypes, NEW b \in Buckets, NEW c \in Clients
    PROVE  Counted(b, c) = [counter EXCEPT ![b][c] = CountedRow(counter[b][c], Limit[b])]
BY DEF CounterTypes, Counted, CountedRow

LEMMA HitStep ==
    ASSUME SignerTypes, CounterTypes, WindowsAdmit, NEW r \in Requests, Hit(r)
    PROVE  CounterTypes' /\ WindowsAdmit' /\ refused' \subseteq refused \cup (Buckets \X Clients)
<1> DEFINE b == Bucket(request[r].kind)
           c == request[r].client
           row == CountedRow(counter[b][c], Limit[b])
           more == [admitted[b][c] EXCEPT ![0] = admitted[b][c][0] + 1]
<1>1. b \in Buckets /\ c \in Clients /\ Limit[b] > 0
  BY DEF SignerTypes, Request, Hit, Limited
<1>2. /\ counter' = Counted(b, c)
      /\ refused' \subseteq refused \cup {<<b, c>>}
      /\ \/ UNCHANGED admitted
         \/ /\ ~(counter'[b][c].count > Limit[b])
            /\ admitted' = [admitted EXCEPT ![b][c][0] = @ + 1]
  BY DEF Hit
<1> HIDE DEF b, c
<1>3. /\ Limit[b] \in Nat /\ counter[b][c] \in Rows(Limit[b]) /\ admitted[b][c] \in Span
      /\ RowAdmits(counter[b][c], admitted[b][c], Limit[b])
  BY <1>1, RowsTyped DEF WindowsAdmit
<1>4. counter' = [counter EXCEPT ![b][c] = row] /\ counter'[b][c] = row
  BY <1>1, <1>2, CountedIsOneRow DEF CounterTypes
<1>5. row \in Rows(Limit[b])
  BY <1>3, HitCounts
<1>6. CASE UNCHANGED admitted
  <2>1. RowAdmits(row, admitted[b][c], Limit[b])
    BY <1>3, RowCounts
  <2>2. admitted' = [admitted EXCEPT ![b][c] = admitted[b][c]]
    BY <1>1, <1>6 DEF CounterTypes
  <2>3. CounterTypes' /\ WindowsAdmit'
    BY <1>1, <1>3, <1>4, <1>5, <2>1, <2>2, OneRow
  <2> QED BY <1>1, <1>2, <2>3
<1>7. CASE /\ ~(counter'[b][c].count > Limit[b])
           /\ admitted' = [admitted EXCEPT ![b][c][0] = @ + 1]
  <2>1. row.count <= Limit[b]
    <3>1. row.count \in Nat /\ ~(row.count > Limit[b])
      BY <1>4, <1>5, <1>7 DEF Rows
    <3> HIDE DEF row
    <3> QED BY <1>3, <3>1
  <2>2. RowAdmits(row, more, Limit[b])
    BY <1>3, <2>1, RowHits
  <2>3. more \in Span
    BY <1>3, SpanGrows
  <2>4. admitted' = [admitted EXCEPT ![b][c] = more]
    BY <1>1, <1>7 DEF CounterTypes
  <2> HIDE DEF row, more
  <2>5. CounterTypes' /\ WindowsAdmit'
    BY <1>1, <1>4, <1>5, <2>2, <2>3, <2>4, OneRow
  <2> QED BY <1>1, <1>2, <2>5
<1> QED BY <1>2, <1>6, <1>7

LEMMA HitFailsStep ==
    ASSUME SignerTypes, CounterTypes, WindowsAdmit, NEW r \in Requests, HitFails(r)
    PROVE  CounterTypes' /\ WindowsAdmit' /\ refused' \subseteq refused
<1> DEFINE b == Bucket(request[r].kind)
           c == request[r].client
           row == CountedRow(counter[b][c], Limit[b])
<1>1. b \in Buckets /\ c \in Clients /\ Limit[b] > 0
  BY DEF SignerTypes, Request, HitFails, Limited
<1>2. /\ counter' = counter \/ counter' = Counted(b, c)
      /\ refused' \subseteq refused /\ UNCHANGED admitted
  BY DEF HitFails
<1> HIDE DEF b, c
<1>3. CASE counter' = counter
  BY <1>2, <1>3 DEF CounterTypes, WindowsAdmit
<1>4. CASE counter' = Counted(b, c)
  <2>1. /\ Limit[b] \in Nat /\ counter[b][c] \in Rows(Limit[b]) /\ admitted[b][c] \in Span
        /\ RowAdmits(counter[b][c], admitted[b][c], Limit[b])
    BY <1>1, RowsTyped DEF WindowsAdmit
  <2>2. counter' = [counter EXCEPT ![b][c] = row]
    BY <1>1, <1>4, CountedIsOneRow
  <2>3. row \in Rows(Limit[b]) /\ RowAdmits(row, admitted[b][c], Limit[b])
    BY <2>1, HitCounts, RowCounts
  <2>4. admitted' = [admitted EXCEPT ![b][c] = admitted[b][c]]
    BY <1>1, <1>2 DEF CounterTypes
  <2> HIDE DEF row
  <2> QED BY <1>1, <1>2, <2>1, <2>2, <2>3, <2>4, OneRow
<1> QED BY <1>2, <1>3, <1>4

LEMMA PruneStep ==
    ASSUME CounterTypes, WindowsAdmit, Prune
    PROVE  CounterTypes' /\ WindowsAdmit'
<1>1. /\ counter' = [b \in Buckets |-> [c \in Clients |->
            IF counter[b][c].left = 0 THEN NoCounter ELSE counter[b][c]]]
      /\ admitted' = admitted
  BY DEF Prune
<1>2. \A b \in Buckets, c \in Clients :
         /\ counter'[b][c] \in Rows(Limit[b])
         /\ RowAdmits(counter'[b][c], admitted'[b][c], Limit[b])
  BY <1>1, RowsTyped, RowEmpty DEF WindowsAdmit
<1>3. counter' \in [Buckets -> [Clients -> [count : Nat, left : 0 .. Window]]]
  BY <1>1, AccessAssumption DEF CounterTypes, NoCounter
<1>4. admitted' \in [Buckets -> [Clients -> Span]]
  BY <1>1 DEF CounterTypes, Span
<1> QED BY <1>2, <1>3, <1>4, EachRow

LEMMA ClockStep ==
    ASSUME CounterTypes, WindowsAdmit, Tick
    PROVE  CounterTypes' /\ WindowsAdmit'
<1>1. /\ counter' = [b \in Buckets |-> [c \in Clients |->
            [counter[b][c] EXCEPT !.left = Less(counter[b][c].left)]]]
      /\ admitted' = [b \in Buckets |-> [c \in Clients |-> Shifted(admitted[b][c])]]
  BY DEF Tick, Shifted
<1>2. ASSUME NEW b \in Buckets, NEW c \in Clients
      PROVE  /\ counter'[b][c] \in Rows(Limit[b])
             /\ admitted'[b][c] \in Span
             /\ RowAdmits(counter'[b][c], admitted'[b][c], Limit[b])
  <2>1. /\ Limit[b] \in Nat /\ counter[b][c] \in Rows(Limit[b]) /\ admitted[b][c] \in Span
        /\ RowAdmits(counter[b][c], admitted[b][c], Limit[b])
    BY RowsTyped DEF WindowsAdmit
  <2>2. /\ counter'[b][c] = [counter[b][c] EXCEPT !.left = Less(counter[b][c].left)]
        /\ admitted'[b][c] = Shifted(admitted[b][c])
    BY <1>1
  <2> QED BY <2>1, <2>2, RowTicks
<1>3. counter' \in [Buckets -> [Clients -> [count : Nat, left : 0 .. Window]]]
  BY <1>1, <1>2 DEF Rows
<1>4. admitted' \in [Buckets -> [Clients -> Span]]
  BY <1>1, <1>2
<1> QED BY <1>2, <1>3, <1>4, EachRow

(* No counters: a new database, or one that has crashed. *)
LEMMA NoCounters ==
    ASSUME counter' = [b \in Buckets |-> [c \in Clients |-> NoCounter]],
           admitted' = [b \in Buckets |-> [c \in Clients |-> NoAdmission]]
    PROVE  CounterTypes' /\ WindowsAdmit'
<1>1. \A b \in Buckets, c \in Clients :
         /\ Limit[b] \in Nat
         /\ counter'[b][c] = NoCounter /\ admitted'[b][c] = NoAdmission
  BY AccessAssumption
<1>2. \A b \in Buckets, c \in Clients :
         /\ counter'[b][c] \in Rows(Limit[b])
         /\ RowAdmits(counter'[b][c], admitted'[b][c], Limit[b])
  BY <1>1, RowEmpty
<1>3. counter' \in [Buckets -> [Clients -> [count : Nat, left : 0 .. Window]]]
  BY AccessAssumption DEF NoCounter
<1>4. admitted' \in [Buckets -> [Clients -> Span]]
  BY DEF NoAdmission, Span
<1> QED BY <1>2, <1>3, <1>4, EachRow

-----------------------------------------------------------------------------
AccessInv ==
    /\ SignerInv
    /\ LimitInv
    /\ ended <= TTL + Timeout
    /\ refused \in SUBSET (Buckets \X Clients)
    /\ crashes \in 0 .. MaxCrashes

LEMMA AccessInitAll == AccessInit => AccessInv
<1> SUFFICES ASSUME AccessInit PROVE AccessInv
  OBVIOUS
<1>1. \A b \in Buckets, c \in Clients :
         /\ Limit[b] \in Nat
         /\ counter[b][c] = NoCounter /\ admitted[b][c] = NoAdmission
  BY AccessAssumption DEF AccessInit
<1>2. \A b \in Buckets, c \in Clients :
         /\ counter[b][c] \in Rows(Limit[b])
         /\ RowAdmits(counter[b][c], admitted[b][c], Limit[b])
  BY <1>1, RowEmpty
<1>3. counter \in [Buckets -> [Clients -> [count : Nat, left : 0 .. Window]]]
  BY AccessAssumption DEF AccessInit, NoCounter
<1>4. admitted \in [Buckets -> [Clients -> Span]]
  BY DEF AccessInit, NoAdmission, Span
<1>5. LimitInv
  BY <1>2, <1>3, <1>4 DEF LimitInv, CounterTypes, WindowsAdmit, Rows, Span
<1> QED
  BY <1>5, AccessInitInv, AccessAssumption DEF AccessInv, AccessInit

(* A step that touches no counter. *)
LEMMA CountersStay ==
    ASSUME LimitInv, UNCHANGED <<counter, admitted>>
    PROVE  LimitInv'
BY DEF LimitInv, CounterTypes, WindowsAdmit

LEMMA AdvanceCounts ==
    ASSUME AccessInv, NEW r \in Requests, Advance(r)
    PROVE  LimitInv' /\ refused' \in SUBSET (Buckets \X Clients)
<1>1. /\ SignerTypes /\ CounterTypes /\ WindowsAdmit
      /\ refused \in SUBSET (Buckets \X Clients)
  BY DEF AccessInv, SignerInv, LimitInv
<1>2. CASE Hit(r)
  BY <1>1, <1>2, HitStep DEF LimitInv
<1>3. CASE HitFails(r)
  BY <1>1, <1>3, HitFailsStep DEF LimitInv
<1>4. CASE UNCHANGED <<counter, admitted, refused>>
  BY <1>1, <1>4, CountersStay DEF LimitInv
<1>5. Hit(r) \/ HitFails(r) \/ UNCHANGED <<counter, admitted, refused>>
  BY DEF Advance, Unlimited, Authenticate, FromCache, AskSigner, AnswerArrives,
         AskFails, FindOrProvision, Serve, OpenRows, ReadRow, CloseRows
<1> QED
  BY <1>2, <1>3, <1>4, <1>5

LEMMA AccessCounts ==
    ASSUME AccessInv, [AccessNext]_vars
    PROVE  LimitInv' /\ refused' \in SUBSET (Buckets \X Clients)
<1>1. CounterTypes /\ WindowsAdmit /\ refused \in SUBSET (Buckets \X Clients)
  BY DEF AccessInv, LimitInv
<1>2. CASE UNCHANGED <<counter, admitted, refused>>
  BY <1>1, <1>2, CountersStay DEF LimitInv
<1>3. CASE Prune
  BY <1>1, <1>3, PruneStep DEF LimitInv, Prune
<1>4. CASE Tick
  BY <1>1, <1>4, ClockStep DEF LimitInv, Tick
<1>5. CASE DatabaseCrash
  BY <1>1, <1>5, NoCounters DEF LimitInv, DatabaseCrash
<1>6. ASSUME NEW r \in Requests, Advance(r)
      PROVE  LimitInv' /\ refused' \in SUBSET (Buckets \X Clients)
  BY <1>6, AdvanceCounts
<1>7. CASE EndSession \/ ServerRestart
  BY <1>2, <1>7 DEF EndSession, ServerRestart
<1>8. ASSUME NEW r \in Requests,
             \/ SignerDecides(r) \/ RelaysKnown(r)
             \/ \E k \in Routes, c \in Clients, d \in Credentials : Arrive(r, k, c, d)
      PROVE  UNCHANGED <<counter, admitted, refused>>
  BY <1>8 DEF SignerDecides, RelaysKnown, Arrive
<1> QED
  BY <1>2, <1>3, <1>4, <1>5, <1>6, <1>7, <1>8 DEF AccessNext, vars

(* The clock that counts from the end of a session stops at its bound, and *)
(* the crashes at theirs.                                                  *)
LEMMA BoundsKept ==
    ASSUME AccessInv, [AccessNext]_vars
    PROVE  ended' <= TTL + Timeout /\ crashes' \in 0 .. MaxCrashes
<1>1. /\ ended \in Int /\ ended >= -1 /\ ended <= TTL + Timeout
      /\ TTL + Timeout \in Nat /\ crashes \in 0 .. MaxCrashes
  BY AccessAssumption DEF AccessInv, SignerInv, SignerTypes
<1>2. CASE UNCHANGED <<ended, crashes>>
  BY <1>1, <1>2
<1>3. CASE Tick
  <2>1. Min({TTL + Timeout, ended + 1}) <= TTL + Timeout
    BY <1>1, MinIsAtMost
  <2>2. {TTL + Timeout, ended + 1} = {ended + 1, TTL + Timeout}
    OBVIOUS
  <2>3. ended' = -1 \/ ended' = Min({TTL + Timeout, ended + 1})
    BY <1>3, <2>2 DEF Tick
  <2>4. crashes' = crashes
    BY <1>3 DEF Tick
  <2> QED
    BY <1>1, <2>1, <2>3, <2>4
<1>4. CASE EndSession
  BY <1>1, <1>4 DEF EndSession
<1>5. CASE DatabaseCrash \/ ServerRestart
  BY <1>1, <1>5, AccessAssumption DEF DatabaseCrash, ServerRestart
<1>6. ASSUME NEW r \in Requests,
             \/ Advance(r) \/ SignerDecides(r) \/ RelaysKnown(r)
             \/ \E k \in Routes, c \in Clients, d \in Credentials : Arrive(r, k, c, d)
      PROVE  UNCHANGED <<ended, crashes>>
  BY <1>6 DEF Advance, SignerDecides, RelaysKnown, Arrive, Unlimited, Hit, HitFails,
              Authenticate, FromCache, AskSigner, AnswerArrives, AskFails,
              FindOrProvision, Serve, OpenRows, ReadRow, CloseRows
<1>7. CASE Prune \/ UNCHANGED vars
  BY <1>2, <1>7 DEF Prune, vars
<1> QED
  BY <1>2, <1>3, <1>4, <1>5, <1>6, <1>7 DEF AccessNext

LEMMA AccessNextAll == AccessInv /\ [AccessNext]_vars => AccessInv'
BY AccessNextInv, AccessCounts, BoundsKept DEF AccessInv

LEMMA AccessAlwaysAll == AccessSpec => []AccessInv
<1>1. AccessSpec => AccessInit /\ [][AccessNext]_vars
  BY PTL DEF AccessSpec
<1> QED
  BY <1>1, AccessInitAll, AccessNextAll, PTL

(* Requests, counters, the cache and the history are of their types. *)
THEOREM AccessTypesCorrect == AccessSpec => []AccessTypeOK
<1>1. AccessInv => AccessTypeOK
  <2> SUFFICES ASSUME AccessInv PROVE AccessTypeOK
    OBVIOUS
  <2>1. \A r \in Requests : request[r] \in Request
    BY DEF AccessInv, SignerInv, SignerTypes
  <2>2. ASSUME NEW b \in Buckets, NEW c \in Clients
        PROVE  /\ counter[b][c] \in [count : 0 .. Limit[b] + 1, left : 0 .. Window]
               /\ admitted[b][c] \in [0 .. Window - 1 -> Nat]
    BY RowsTyped DEF AccessInv, LimitInv, Rows, Span
  <2>3. /\ cached \in 0 .. TTL /\ ended \in -1 .. TTL + Timeout
        /\ refused \in SUBSET (Buckets \X Clients)
        /\ crashes \in 0 .. MaxCrashes
    BY DEF AccessInv, SignerInv, SignerTypes
  <2> QED
    BY <2>1, <2>2, <2>3 DEF AccessTypeOK, Request
<1> QED
  BY <1>1, AccessAlwaysAll, PTL

(* In no span as long as a window does the count admit more than twice the *)
(* limit of a client, for any limits, windows and number of clients: what  *)
(* a span has admitted is of two windows, the one the row counts and one   *)
(* before it.                                                              *)
THEOREM AdmissionsStayBounded == AccessSpec => []AdmissionsBounded
<1>1. AccessInv => AdmissionsBounded
  <2> SUFFICES ASSUME AccessInv, NEW b \in Buckets, NEW c \in Clients
               PROVE  Cardinality(Admissions(admitted[b][c])) <= 2 * Limit[b]
    BY DEF AdmissionsBounded
  <2> DEFINE span == admitted[b][c]
             n == Window - counter[b][c].left
  <2>1. span \in Span /\ Limit[b] \in Nat /\ WindowAdmits(span, n, Limit[b])
    BY RowsTyped DEF AccessInv, LimitInv, WindowsAdmit, RowAdmits
  <2>2. n \in Int
    BY RowsTyped, AccessAssumption DEF AccessInv, LimitInv, Rows
  <2> HIDE DEF span, n
  <2>3. \A p \in Admissions(span) : p[1] \in Int
    BY <2>1, AdmissionsArePairs
  <2>4. Admissions(span) = Younger(span, n) \cup Older(span, n)
    BY <2>2, <2>3 DEF Younger, Older
  <2>5. Younger(span, n) \cap Older(span, n) = {}
    BY <2>2, <2>3 DEF Younger, Older
  <2>6. /\ IsFiniteSet(Younger(span, n)) /\ Cardinality(Younger(span, n)) \in Nat
        /\ IsFiniteSet(Older(span, n)) /\ Cardinality(Older(span, n)) \in Nat
    BY <2>1, PartsAreFinite DEF WindowAdmits
  <2>7. Cardinality(Admissions(span))
           = Cardinality(Younger(span, n)) + Cardinality(Older(span, n))
             - Cardinality(Younger(span, n) \cap Older(span, n))
    BY <2>4, <2>6, FS_Union
  <2>8. Cardinality(Younger(span, n) \cap Older(span, n)) = 0
    BY <2>5, FS_EmptySet
  <2>9. Cardinality(Younger(span, n)) <= Limit[b] /\ Cardinality(Older(span, n)) <= Limit[b]
    BY <2>1 DEF WindowAdmits
  <2> QED
    BY <2>1, <2>6, <2>7, <2>8, <2>9 DEF span
<1> QED
  BY <1>1, AccessAlwaysAll, PTL
=============================================================================
