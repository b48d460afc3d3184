--------------------------- MODULE WebAuthnProofs ---------------------------
(***************************************************************************)
(* Ceremonies, sign counts and deletions of WebAuthn, for any numbers of   *)
(* users, passkeys, challenges and requests.                               *)
(*                                                                         *)
(* Facts never reverses: a challenge is issued once and answered once.     *)
(* The four properties rest on that, each with an invariant of its own     *)
(* about the Finish calls that are on their way.                           *)
(***************************************************************************)
EXTENDS WebAuthn, FiniteSetTheorems, TLAPS

(* Rows and answers are those of challenges that were issued. *)
IssuedFirst ==
    \A h \in Challenges :
        /\ row[h] # "none" => ceremony[h] # NoCeremony
        /\ response[h] # NoResponse => ceremony[h] # NoCeremony
        /\ ceremony[h] # NoCeremony => ceremony[h].kind \in Kinds

(* An answer names a passkey. *)
AnswersNamePasskeys ==
    \A h \in Challenges :
        response[h] # NoResponse => response[h].passkey \in Passkeys

(* A Finish call works on an answer to a challenge of its kind. *)
Finishing(r) == request[r].pc \notin {"idle", "beginning"}

FinishesAnswers ==
    \A r \in Requests :
        /\ request[r].pc = "idle" => request[r] = Idle
        /\ request[r].pc = "beginning" =>
              request[r].challenge = None /\ request[r].kind # None
        /\ Finishing(r) =>
              /\ request[r].challenge \in Challenges
              /\ response[request[r].challenge] # NoResponse
              /\ ceremony[request[r].challenge].kind = request[r].kind
              /\ request[r].kind \in Kinds
        /\ request[r].pc = "creating" => request[r].kind = "registration"
        /\ request[r].pc \in {"loaded", "found", "validated", "updating", "opening"}
              => request[r].kind # "registration"

Facts ==
    /\ WebAuthnTypeOK
    /\ IssuedFirst
    /\ AnswersNamePasskeys
    /\ FinishesAnswers

LEMMA IdleIsARequest ==
    /\ Idle \in Request
    /\ Idle.pc = "idle" /\ Idle.challenge = None /\ Idle.kind = None
BY DEF Idle, Request

LEMMA FactsInit == WebAuthnInit => Facts
<1> SUFFICES ASSUME WebAuthnInit PROVE Facts
  OBVIOUS
<1>1. WebAuthnTypeOK
  BY IdleIsARequest
     DEF WebAuthnInit, WebAuthnTypeOK, NoPasskey, NoCeremony, NoResponse
<1>2. IssuedFirst /\ AnswersNamePasskeys
  BY DEF WebAuthnInit, IssuedFirst, AnswersNamePasskeys
<1>3. FinishesAnswers
  BY IdleIsARequest DEF WebAuthnInit, FinishesAnswers, Finishing
<1> QED
  BY <1>1, <1>2, <1>3 DEF Facts

-----------------------------------------------------------------------------
(* A request that starts, goes on or ends has the shape of a request.      *)
LEMMA GoToType ==
    ASSUME Facts, NEW r \in Requests, NEW pc, GoTo(r, pc),
           pc \in {"idle", "beginning", "loaded", "found", "validated",
                   "updating", "creating", "clearing", "opening"}
    PROVE request' \in [Requests -> Request]
<1>1. request \in [Requests -> Request]
  BY DEF Facts, WebAuthnTypeOK
<1>2. \A record \in Request : [record EXCEPT !.pc = pc] \in Request
  BY DEF Request
<1>3. request' = [request EXCEPT ![r] = [request[r] EXCEPT !.pc = pc]]
  BY <1>1 DEF GoTo
<1> QED
  BY <1>1, <1>2, <1>3

LEMMA DoneType ==
    ASSUME Facts, NEW r \in Requests, Done(r)
    PROVE request' \in [Requests -> Request]
BY IdleIsARequest DEF Facts, WebAuthnTypeOK, Done

LEMMA StartType ==
    ASSUME Facts, NEW r \in Requests, NEW record \in Request, Start(r, record)
    PROVE request' \in [Requests -> Request]
BY DEF Facts, WebAuthnTypeOK, Start

LEMMA WithoutType ==
    ASSUME Facts, NEW hs
    PROVE /\ Without(hs) \in [Challenges -> {"none", "fresh", "lapsed"}]
          /\ \A h \in Challenges : /\ h \in hs => Without(hs)[h] = "none"
                                   /\ h \notin hs => Without(hs)[h] = row[h]
BY DEF Facts, WebAuthnTypeOK, Without

(* Steps that change no request. *)
LEMMA RequestsStay ==
    ASSUME Facts, UNCHANGED request,
           \A h \in Challenges :
              /\ ceremony[h] # NoCeremony => ceremony'[h] = ceremony[h]
              /\ response[h] # NoResponse => response'[h] = response[h]
    PROVE FinishesAnswers'
<1> USE DEF Facts, FinishesAnswers, Finishing
<1>1. \A r \in Requests : Finishing(r) =>
          /\ response'[request[r].challenge] # NoResponse
          /\ ceremony'[request[r].challenge].kind = request[r].kind
  BY DEF IssuedFirst
<1> QED
  BY <1>1

(* Steps of one request that leave ceremonies and answers alone. *)
LEMMA OneRequestMoves ==
    ASSUME Facts, NEW r \in Requests, NEW record,
           UNCHANGED <<ceremony, response>>,
           request' = [request EXCEPT ![r] = record],
           /\ record.pc = "idle" => record = Idle
           /\ record.pc = "beginning" => record.challenge = None /\ record.kind # None
           /\ record.pc \notin {"idle", "beginning"} =>
                 /\ record.challenge \in Challenges
                 /\ response[record.challenge] # NoResponse
                 /\ ceremony[record.challenge].kind = record.kind
                 /\ record.kind \in Kinds
           /\ record.pc = "creating" => record.kind = "registration"
           /\ record.pc \in {"loaded", "found", "validated", "updating", "opening"}
                 => record.kind # "registration"
    PROVE FinishesAnswers'
<1>1. \A q \in Requests : request'[q] = IF q = r THEN record ELSE request[q]
  BY DEF Facts, WebAuthnTypeOK
<1> QED
  BY <1>1 DEF Facts, FinishesAnswers, Finishing

LEMMA DoneIsFine ==
    ASSUME Facts, NEW r \in Requests, Done(r), UNCHANGED <<ceremony, response>>
    PROVE FinishesAnswers'
BY OneRequestMoves, IdleIsARequest DEF Done

(* A Finish call that goes on. *)
LEMMA GoToIsFine ==
    ASSUME Facts, NEW r \in Requests, NEW pc, GoTo(r, pc),
           UNCHANGED <<ceremony, response>>, Finishing(r),
           pc \in {"updating", "clearing", "opening"},
           pc # "clearing" => request[r].kind # "registration"
    PROVE FinishesAnswers'
<1>1. request' = [request EXCEPT ![r] = [request[r] EXCEPT !.pc = pc]]
  BY DEF GoTo, Facts, WebAuthnTypeOK
<1>2. request[r] \in Request
  BY DEF Facts, WebAuthnTypeOK
<1> DEFINE record == [request[r] EXCEPT !.pc = pc]
<1>3. record.pc = pc /\ record.challenge = request[r].challenge
      /\ record.kind = request[r].kind
  BY <1>2 DEF Request
<1>4. /\ request[r].challenge \in Challenges
      /\ response[request[r].challenge] # NoResponse
      /\ ceremony[request[r].challenge].kind = request[r].kind
      /\ request[r].kind \in Kinds
  BY DEF Facts, FinishesAnswers
<1> HIDE DEF record
<1> QED
  BY <1>1, <1>3, <1>4, OneRequestMoves DEF record

(* A Finish call that starts with the answer to h. *)
LEMMA StartIsFine ==
    ASSUME Facts, NEW r \in Requests, NEW record \in Request, Start(r, record),
           NEW h \in Challenges, UNCHANGED <<ceremony, response>>,
           response[h] # NoResponse, record.challenge = h,
           record.kind = ceremony[h].kind,
           \/ record.pc = "creating" /\ record.kind = "registration"
           \/ record.pc \in {"loaded", "found"} /\ record.kind # "registration"
    PROVE FinishesAnswers'
<1>1. ceremony[h].kind \in Kinds
  BY DEF Facts, IssuedFirst
<1> QED
  BY <1>1, OneRequestMoves DEF Start

(* The count a call has read is dropped, or filled in. *)
LEMMA RecordIsFine ==
    ASSUME Facts, NEW r \in Requests, NEW record \in Request,
           request' = [request EXCEPT ![r] = record],
           UNCHANGED <<ceremony, response>>, Finishing(r),
           record.challenge = request[r].challenge,
           record.kind = request[r].kind,
           \/ record.pc = "clearing"
           \/ record.pc = "validated" /\ request[r].kind # "registration"
    PROVE FinishesAnswers'
<1>1. /\ request[r].challenge \in Challenges
      /\ response[request[r].challenge] # NoResponse
      /\ ceremony[request[r].challenge].kind = request[r].kind
      /\ request[r].kind \in Kinds
  BY DEF Facts, FinishesAnswers
<1> QED
  BY <1>1, OneRequestMoves

-----------------------------------------------------------------------------
(* What Facts is made of, step by step. *)
LEMMA LapseFacts ==
    ASSUME Facts, NEW h \in Challenges, Lapse(h)
    PROVE Facts'
<1> USE DEF Facts, Lapse
<1>1. WebAuthnTypeOK'
  BY DEF WebAuthnTypeOK
<1>2. IssuedFirst' /\ AnswersNamePasskeys'
  BY DEF IssuedFirst, AnswersNamePasskeys, WebAuthnTypeOK
<1>3. FinishesAnswers'
  BY RequestsStay
<1> QED
  BY <1>1, <1>2, <1>3

LEMMA BeginFacts ==
    ASSUME Facts, NEW r \in Requests, NEW u \in Users,
           NEW kind \in {"registration", "authentication"}, Begin(r, u, kind)
    PROVE Facts'
<1> DEFINE record == [Idle EXCEPT !.pc = "beginning", !.user = u, !.kind = kind]
<1>1. /\ record \in Request /\ record.pc = "beginning"
      /\ record.challenge = None /\ record.kind = kind
  BY DEF Idle, Request, Kinds
<1>2. Start(r, record) /\ UNCHANGED <<ceremony, response>>
  BY DEF Begin
<1>3. kind \in Kinds /\ kind # None
  BY WebAuthnAssumption DEF Kinds
<1> HIDE DEF record
<1>4. request' \in [Requests -> Request]
  BY <1>1, <1>2, StartType
<1>5. /\ row' \in [Challenges -> {"none", "fresh", "lapsed"}]
      /\ \A h \in Challenges : row'[h] # "none" => row[h] # "none"
  BY WithoutType DEF Begin
<1>6. crowded' \in SUBSET (Users \X Kinds)
  BY <1>3 DEF Begin, Facts, WebAuthnTypeOK
<1>7. WebAuthnTypeOK'
  BY <1>4, <1>5, <1>6 DEF Begin, Facts, WebAuthnTypeOK
<1>8. IssuedFirst' /\ AnswersNamePasskeys'
  BY <1>2, <1>5 DEF Facts, IssuedFirst, AnswersNamePasskeys
<1>9. FinishesAnswers'
  BY <1>1, <1>2, <1>3, OneRequestMoves DEF Start
<1> QED
  BY <1>7, <1>8, <1>9 DEF Facts

LEMMA IssueFacts ==
    ASSUME Facts, NEW r \in Requests, NEW h \in Challenges, Issue(r, h)
    PROVE Facts'
<1>1. request' \in [Requests -> Request]
  BY DoneType DEF Issue
<1>2. /\ request[r].user \in Users \cup {None}
      /\ request[r].kind \in Kinds
  BY DEF Issue, At, Facts, FinishesAnswers, WebAuthnTypeOK, Request
<1>3. WebAuthnTypeOK'
  BY <1>1, <1>2 DEF Issue, Facts, WebAuthnTypeOK
<1>4. IssuedFirst' /\ AnswersNamePasskeys'
  <2>1. ceremony'[h].kind \in Kinds /\ ceremony'[h] # NoCeremony
    BY <1>2, WebAuthnAssumption DEF Issue, Facts, WebAuthnTypeOK, NoCeremony
  <2>2. \A g \in Challenges \ {h} : ceremony'[g] = ceremony[g] /\ row'[g] = row[g]
    BY DEF Issue, Facts, WebAuthnTypeOK
  <2>3. response' = response
    BY DEF Issue
  <2>4. \A g \in Challenges :
           /\ row'[g] # "none" => ceremony'[g] # NoCeremony
           /\ response[g] # NoResponse => ceremony'[g] # NoCeremony
           /\ ceremony'[g] # NoCeremony => ceremony'[g].kind \in Kinds
    BY <2>1, <2>2 DEF Facts, IssuedFirst
  <2> QED
    BY <2>3, <2>4 DEF Facts, IssuedFirst, AnswersNamePasskeys
<1>5. FinishesAnswers'
  <2>1. \A q \in Requests : request'[q] = IF q = r THEN Idle ELSE request[q]
    BY DEF Issue, Done, Facts, WebAuthnTypeOK
  <2>2. \A q \in Requests : Finishing(q) =>
            /\ response'[request[q].challenge] # NoResponse
            /\ ceremony'[request[q].challenge].kind = request[q].kind
    <3> TAKE q \in Requests
    <3> HAVE Finishing(q)
    <3>1. /\ request[q].challenge \in Challenges
          /\ response[request[q].challenge] # NoResponse
          /\ ceremony[request[q].challenge].kind = request[q].kind
      BY DEF Facts, FinishesAnswers
    <3>2. request[q].challenge # h
      BY <3>1 DEF Facts, IssuedFirst, Issue
    <3> QED
      BY <3>1, <3>2 DEF Issue, Facts, WebAuthnTypeOK
  <2> QED
    BY <2>1, <2>2, IdleIsARequest DEF Facts, FinishesAnswers, Finishing
<1> QED
  BY <1>3, <1>4, <1>5 DEF Facts

LEMMA DiscoverableFacts ==
    ASSUME Facts, NEW h \in Challenges, NEW old \in SUBSET Challenges,
           BeginDiscoverable(h, old)
    PROVE Facts'
<1>1. /\ Without(old) \in [Challenges -> {"none", "fresh", "lapsed"}]
      /\ \A g \in Challenges : Without(old)[g] # "none" => row[g] # "none"
  BY WithoutType
<1>2. /\ row' \in [Challenges -> {"none", "fresh", "lapsed"}]
      /\ \A g \in Challenges : g # h /\ row'[g] # "none" => row[g] # "none"
  BY <1>1 DEF BeginDiscoverable
<1>3. ceremony' \in [Challenges -> [user : Users \cup {None}, kind : Kinds \cup {None}]]
  BY DEF BeginDiscoverable, Facts, WebAuthnTypeOK, Kinds
<1>4. WebAuthnTypeOK'
  BY <1>2, <1>3 DEF BeginDiscoverable, Facts, WebAuthnTypeOK
<1>5. /\ ceremony'[h].kind \in Kinds /\ ceremony'[h] # NoCeremony
      /\ \A g \in Challenges \ {h} : ceremony'[g] = ceremony[g]
  BY WebAuthnAssumption
     DEF BeginDiscoverable, Facts, WebAuthnTypeOK, Kinds, NoCeremony
<1>6. response' = response /\ request' = request /\ ceremony[h] = NoCeremony
  BY DEF BeginDiscoverable
<1>7. IssuedFirst' /\ AnswersNamePasskeys'
  <2>1. \A g \in Challenges :
           /\ row'[g] # "none" => ceremony'[g] # NoCeremony
           /\ response[g] # NoResponse => ceremony'[g] # NoCeremony
           /\ ceremony'[g] # NoCeremony => ceremony'[g].kind \in Kinds
    BY <1>2, <1>5 DEF Facts, IssuedFirst
  <2> QED
    BY <2>1, <1>6 DEF Facts, IssuedFirst, AnswersNamePasskeys
<1>8. FinishesAnswers'
  BY <1>5, <1>6, RequestsStay
<1> QED
  BY <1>4, <1>7, <1>8 DEF Facts

LEMMA RespondFacts ==
    ASSUME Facts, NEW h \in Challenges, NEW k \in Passkeys, Respond(h, k)
    PROVE Facts'
<1> DEFINE of == {g \in Challenges : response[g].passkey = k}
<1>1. Cardinality(of) \in Nat
  BY WebAuthnAssumption, FS_Subset, FS_CardinalityType
<1>2. response' = [response EXCEPT ![h] = [passkey |-> k, count |-> Cardinality(of)]]
  BY DEF Respond
<1> HIDE DEF of
<1>3. /\ response' \in [Challenges -> [passkey : Passkeys \cup {None}, count : Nat]]
      /\ response'[h].passkey = k
      /\ \A g \in Challenges \ {h} : response'[g] = response[g]
  BY <1>1, <1>2 DEF Facts, WebAuthnTypeOK
<1>4. WebAuthnTypeOK'
  BY <1>3 DEF Respond, Facts, WebAuthnTypeOK
<1>5. IssuedFirst' /\ AnswersNamePasskeys'
  <2>1. ceremony[h] # NoCeremony /\ UNCHANGED <<ceremony, row>>
    BY DEF Respond
  <2> QED
    BY <2>1, <1>3 DEF Facts, IssuedFirst, AnswersNamePasskeys
<1>6. FinishesAnswers'
  <2>1. UNCHANGED <<request, ceremony>> /\ response[h] = NoResponse
    BY DEF Respond
  <2> QED
    BY <2>1, <1>3, RequestsStay
<1> QED
  BY <1>4, <1>5, <1>6 DEF Facts

(* Rows are only removed, passkeys change, the history grows: IssuedFirst  *)
(* and AnswersNamePasskeys are safe.                                       *)
LEMMA RowsOnlyGo ==
    ASSUME Facts, UNCHANGED <<ceremony, response>>,
           \A h \in Challenges : row'[h] # "none" => row[h] # "none"
    PROVE IssuedFirst' /\ AnswersNamePasskeys'
BY DEF Facts, IssuedFirst, AnswersNamePasskeys

LEMMA ContestedType ==
    ASSUME Facts, NEW k \in Passkeys, ReadsCountOf(k)
    PROVE contested' \in SUBSET Passkeys
BY DEF ReadsCountOf, Facts, WebAuthnTypeOK

LEMMA UnclearedType ==
    ASSUME Facts, NEW r \in Requests, request[r].challenge \in Challenges,
           Uncleared(r)
    PROVE uncleared' \in SUBSET Challenges
BY DEF Uncleared, Facts, WebAuthnTypeOK

(* The passkey a Finish call was sent. *)
LEMMA PresentedType ==
    ASSUME Facts, NEW r \in Requests, Finishing(r)
    PROVE Presented(r) \in Passkeys
BY DEF Facts, FinishesAnswers, AnswersNamePasskeys, Presented

LEMMA ReadForRegistrationFacts ==
    ASSUME Facts, NEW r \in Requests, NEW h \in Challenges,
           ReadForRegistration(r, h)
    PROVE Facts'
<1> DEFINE record == [Idle EXCEPT !.pc = "creating", !.user = ceremony[h].user,
                                  !.kind = "registration", !.challenge = h]
<1>1. /\ record \in Request /\ record.pc = "creating"
      /\ record.challenge = h /\ record.kind = "registration"
  BY DEF Idle, Request, Kinds, Facts, WebAuthnTypeOK
<1>2. /\ Start(r, record) /\ response[h] # NoResponse
      /\ ceremony[h].kind = "registration"
      /\ UNCHANGED <<passkey, row, ceremony, response, opened, uncleared,
                     crowded, contested, deleted>>
  BY DEF ReadForRegistration
<1> HIDE DEF record
<1>3. WebAuthnTypeOK'
  BY <1>1, <1>2, StartType DEF Facts, WebAuthnTypeOK
<1>4. FinishesAnswers'
  BY <1>1, <1>2, StartIsFine
<1> QED
  BY <1>2, <1>3, <1>4, RowsOnlyGo DEF Facts

LEMMA LoadForLoginFacts ==
    ASSUME Facts, NEW r \in Requests, NEW h \in Challenges, LoadForLogin(r, h)
    PROVE Facts'
<1> DEFINE k == response[h].passkey
           record == [pc |-> "loaded", user |-> ceremony[h].user,
                      kind |-> "authentication", challenge |-> h,
                      count |-> passkey[k].count]
<1>0. k \in Passkeys
  BY DEF LoadForLogin, PasskeysOf
<1>1. /\ record \in Request /\ record.pc = "loaded"
      /\ record.challenge = h /\ record.kind = "authentication"
  BY <1>0 DEF Request, Kinds, Facts, WebAuthnTypeOK
<1>2. /\ Start(r, record) /\ response[h] # NoResponse
      /\ ceremony[h].kind = "authentication" /\ ReadsCountOf(k)
      /\ UNCHANGED <<passkey, row, ceremony, response, opened, uncleared,
                     crowded, deleted>>
  BY DEF LoadForLogin
<1> HIDE DEF record
<1>3. WebAuthnTypeOK'
  BY <1>0, <1>1, <1>2, StartType, ContestedType DEF Facts, WebAuthnTypeOK
<1>4. FinishesAnswers'
  BY <1>1, <1>2, StartIsFine
<1> QED
  BY <1>2, <1>3, <1>4, RowsOnlyGo DEF Facts

LEMMA FindFacts ==
    ASSUME Facts, NEW r \in Requests, NEW h \in Challenges, Find(r, h)
    PROVE Facts'
<1> DEFINE record == [Idle EXCEPT !.pc = "found", !.kind = "discoverable",
                                  !.challenge = h]
<1>1. /\ record \in Request /\ record.pc = "found"
      /\ record.challenge = h /\ record.kind = "discoverable"
  BY DEF Idle, Request, Kinds
<1>2. /\ Start(r, record) /\ response[h] # NoResponse
      /\ ceremony[h].kind = "discoverable"
      /\ UNCHANGED <<passkey, row, ceremony, response, opened, uncleared,
                     crowded, contested, deleted>>
  BY DEF Find
<1> HIDE DEF record
<1>3. WebAuthnTypeOK'
  BY <1>1, <1>2, StartType DEF Facts, WebAuthnTypeOK
<1>4. FinishesAnswers'
  BY <1>1, <1>2, StartIsFine
<1> QED
  BY <1>2, <1>3, <1>4, RowsOnlyGo DEF Facts

LEMMA ReadSessionFacts ==
    ASSUME Facts, NEW r \in Requests, ReadSession(r)
    PROVE Facts'
<1>1. Finishing(r) /\ request[r].kind # "registration"
  BY DEF ReadSession, At, Facts, FinishesAnswers, Finishing
<1>2. WebAuthnTypeOK'
  BY GoToType DEF ReadSession, Facts, WebAuthnTypeOK
<1>3. FinishesAnswers'
  BY <1>1, GoToIsFine DEF ReadSession
<1> QED
  BY <1>2, <1>3, RowsOnlyGo DEF ReadSession, Facts

LEMMA FindLapsedFacts ==
    ASSUME Facts, NEW r \in Requests, NEW h \in Challenges, FindLapsed(r, h)
    PROVE Facts'
<1>1. /\ row' \in [Challenges -> {"none", "fresh", "lapsed"}]
      /\ \A g \in Challenges : row'[g] # "none" => row[g] # "none"
  BY WithoutType DEF FindLapsed
<1>2. WebAuthnTypeOK'
  BY <1>1, DoneType DEF FindLapsed, Facts, WebAuthnTypeOK
<1>3. FinishesAnswers'
  BY DoneIsFine DEF FindLapsed
<1> QED
  BY <1>1, <1>2, <1>3, RowsOnlyGo DEF FindLapsed, Facts

LEMMA IdentifyFacts ==
    ASSUME Facts, NEW r \in Requests, Identify(r)
    PROVE Facts'
<1> DEFINE k == Presented(r)
           record == [request[r] EXCEPT !.pc = "validated",
                                        !.user = passkey[k].user,
                                        !.count = passkey[k].count]
<1>1. Finishing(r) /\ request[r].kind # "registration"
  BY DEF Identify, At, Facts, FinishesAnswers, Finishing
<1>2. k \in Passkeys
  BY <1>1, PresentedType
<1>3. request[r] \in Request /\ passkey[k] \in [user : Users \cup {None}, count : Nat]
  BY <1>2 DEF Facts, WebAuthnTypeOK
<1>4. /\ record \in Request /\ record.pc = "validated"
      /\ record.challenge = request[r].challenge
      /\ record.kind = request[r].kind
  BY <1>3 DEF Request
<1>5. /\ request' = [request EXCEPT ![r] = record] /\ ReadsCountOf(k)
      /\ UNCHANGED <<passkey, row, ceremony, response, opened, uncleared,
                     crowded, deleted>>
  BY DEF Identify
<1> HIDE DEF record, k
<1>6. request' \in [Requests -> Request]
  BY <1>4, <1>5 DEF Facts, WebAuthnTypeOK
<1>7. WebAuthnTypeOK'
  BY <1>2, <1>5, <1>6, ContestedType DEF Facts, WebAuthnTypeOK
<1>8. FinishesAnswers'
  BY <1>1, <1>4, <1>5, RecordIsFine
<1> QED
  BY <1>5, <1>7, <1>8, RowsOnlyGo DEF Facts

LEMMA IdentifyAgainFacts ==
    ASSUME Facts, NEW r \in Requests, IdentifyAgain(r)
    PROVE Facts'
<1>1. Finishing(r) /\ request[r].kind # "registration"
  BY DEF IdentifyAgain, At, Facts, FinishesAnswers, Finishing
<1>2. WebAuthnTypeOK'
  BY GoToType DEF IdentifyAgain, Facts, WebAuthnTypeOK
<1>3. FinishesAnswers'
  BY <1>1, GoToIsFine DEF IdentifyAgain
<1> QED
  BY <1>2, <1>3, RowsOnlyGo DEF IdentifyAgain, Facts

LEMMA UpdatedIsFine ==
    ASSUME Facts, NEW r \in Requests, At(r, "updating"), Updated(r),
           UNCHANGED <<ceremony, response>>
    PROVE /\ request' \in [Requests -> Request]
          /\ FinishesAnswers'
<1> DEFINE record == [request[r] EXCEPT !.pc = "clearing", !.count = 0]
<1>1. request[r] \in Request /\ Finishing(r)
  BY DEF Facts, WebAuthnTypeOK, At, Finishing
<1>2. /\ record \in Request /\ record.pc = "clearing"
      /\ record.challenge = request[r].challenge
      /\ record.kind = request[r].kind
  BY <1>1 DEF Request
<1>3. request' = [request EXCEPT ![r] = record]
  BY DEF Updated
<1> HIDE DEF record
<1>4. request' \in [Requests -> Request]
  BY <1>2, <1>3 DEF Facts, WebAuthnTypeOK
<1> QED
  BY <1>1, <1>2, <1>3, <1>4, RecordIsFine

LEMMA NewCountType ==
    ASSUME Facts, NEW r \in Requests, Finishing(r)
    PROVE /\ NewCount(r) \in Nat /\ request[r].count \in Nat
          /\ NewCount(r) >= request[r].count
<1>1. request[r].challenge \in Challenges
  BY DEF Facts, FinishesAnswers
<1>2. response[request[r].challenge].count \in Nat /\ request[r].count \in Nat
  BY <1>1 DEF Facts, WebAuthnTypeOK, Request
<1> QED
  BY <1>2 DEF NewCount

LEMMA UpdateUsageFacts ==
    ASSUME Facts, NEW r \in Requests, UpdateUsage(r)
    PROVE Facts'
<1>1. Finishing(r) /\ Presented(r) \in Passkeys
  BY PresentedType DEF UpdateUsage, At, Finishing
<1>2. /\ NewCount(r) \in Nat
      /\ passkey \in [Passkeys -> [user : Users \cup {None}, count : Nat]]
  BY <1>1, NewCountType DEF Facts, WebAuthnTypeOK
<1>3. passkey' \in [Passkeys -> [user : Users \cup {None}, count : Nat]]
  <2>1. CASE Stored(Presented(r))
    <3>1. passkey' = [passkey EXCEPT ![Presented(r)].count = NewCount(r)]
      BY <2>1 DEF UpdateUsage
    <3> QED
      BY <3>1, <1>1, <1>2
  <2>2. CASE ~Stored(Presented(r))
    BY <2>2, <1>2 DEF UpdateUsage
  <2> QED
    BY <2>1, <2>2
<1>4. request' \in [Requests -> Request] /\ FinishesAnswers'
  BY UpdatedIsFine DEF UpdateUsage
<1>5. WebAuthnTypeOK'
  BY <1>3, <1>4 DEF UpdateUsage, Facts, WebAuthnTypeOK
<1> QED
  BY <1>4, <1>5, RowsOnlyGo DEF UpdateUsage, Facts

LEMMA UpdateUsageFailedFacts ==
    ASSUME Facts, NEW r \in Requests, UpdateUsageFailed(r)
    PROVE Facts'
<1>1. request' \in [Requests -> Request] /\ FinishesAnswers'
  BY UpdatedIsFine DEF UpdateUsageFailed
<1>2. WebAuthnTypeOK'
  BY <1>1 DEF UpdateUsageFailed, Facts, WebAuthnTypeOK
<1> QED
  BY <1>1, <1>2, RowsOnlyGo DEF UpdateUsageFailed, Facts

LEMMA CreatePasskeyFacts ==
    ASSUME Facts, NEW r \in Requests, CreatePasskey(r)
    PROVE Facts'
<1>1. Finishing(r) /\ Presented(r) \in Passkeys
  BY PresentedType DEF CreatePasskey, At, Finishing
<1>2. /\ request[r].challenge \in Challenges
      /\ request[r].user \in Users \cup {None}
  BY <1>1 DEF Facts, WebAuthnTypeOK, FinishesAnswers, Request
<1>3. WebAuthnTypeOK'
  BY <1>1, <1>2, GoToType DEF CreatePasskey, Facts, WebAuthnTypeOK
<1>4. FinishesAnswers'
  BY <1>1, GoToIsFine DEF CreatePasskey
<1> QED
  BY <1>3, <1>4, RowsOnlyGo DEF CreatePasskey, Facts

LEMMA AfterClearingIsFine ==
    ASSUME Facts, NEW r \in Requests, At(r, "clearing"), AfterClearing(r),
           UNCHANGED <<ceremony, response>>
    PROVE /\ request' \in [Requests -> Request]
          /\ FinishesAnswers'
<1>1. Finishing(r)
  BY DEF At, Finishing
<1>2. CASE Done(r)
  BY <1>2, DoneType, DoneIsFine
<1>3. CASE GoTo(r, "opening") /\ request[r].kind # "registration"
  BY <1>1, <1>3, GoToType, GoToIsFine
<1> QED
  BY <1>2, <1>3 DEF AfterClearing

LEMMA ClearFacts ==
    ASSUME Facts, NEW r \in Requests, Clear(r)
    PROVE Facts'
<1>1. /\ row' \in [Challenges -> {"none", "fresh", "lapsed"}]
      /\ \A h \in Challenges : row'[h] # "none" => row[h] # "none"
  BY WithoutType DEF Clear
<1>2. request' \in [Requests -> Request] /\ FinishesAnswers'
  BY AfterClearingIsFine DEF Clear
<1>3. WebAuthnTypeOK'
  BY <1>1, <1>2 DEF Clear, Facts, WebAuthnTypeOK
<1> QED
  BY <1>1, <1>2, <1>3, RowsOnlyGo DEF Clear, Facts

LEMMA ClearFailedFacts ==
    ASSUME Facts, NEW r \in Requests, ClearFailed(r)
    PROVE Facts'
<1>1. request' \in [Requests -> Request] /\ FinishesAnswers'
  BY AfterClearingIsFine DEF ClearFailed
<1>2. request[r].challenge \in Challenges
  BY DEF ClearFailed, At, Facts, FinishesAnswers, Finishing
<1>3. WebAuthnTypeOK'
  BY <1>1, <1>2, UnclearedType DEF ClearFailed, Facts, WebAuthnTypeOK
<1> QED
  BY <1>1, <1>3, RowsOnlyGo DEF ClearFailed, Facts

LEMMA OpenSessionFacts ==
    ASSUME Facts, NEW r \in Requests, OpenSession(r)
    PROVE Facts'
<1>1. request[r].challenge \in Challenges
  BY DEF OpenSession, At, Facts, FinishesAnswers, Finishing
<1>2. WebAuthnTypeOK'
  BY <1>1, DoneType DEF OpenSession, Facts, WebAuthnTypeOK
<1>3. FinishesAnswers'
  BY DoneIsFine DEF OpenSession
<1> QED
  BY <1>2, <1>3, RowsOnlyGo DEF OpenSession, Facts

LEMMA FailFacts ==
    ASSUME Facts, NEW r \in Requests, Fail(r)
    PROVE Facts'
<1>1. uncleared' \in SUBSET Challenges
  <2>1. CASE At(r, "clearing")
    <3>1. request[r].challenge \in Challenges
      BY <2>1 DEF At, Facts, FinishesAnswers, Finishing
    <3> QED
      BY <2>1, <3>1, UnclearedType DEF Fail
  <2>2. CASE ~At(r, "clearing")
    BY <2>2 DEF Fail, Facts, WebAuthnTypeOK
  <2> QED
    BY <2>1, <2>2
<1>2. WebAuthnTypeOK'
  BY <1>1, DoneType DEF Fail, Facts, WebAuthnTypeOK
<1>3. FinishesAnswers'
  BY DoneIsFine DEF Fail
<1> QED
  BY <1>2, <1>3, RowsOnlyGo DEF Fail, Facts

LEMMA DeletePasskeyFacts ==
    ASSUME Facts, NEW k \in Passkeys, DeletePasskey(k)
    PROVE Facts'
<1>1. WebAuthnTypeOK'
  BY DEF DeletePasskey, NoPasskey, Facts, WebAuthnTypeOK
<1>2. FinishesAnswers'
  BY RequestsStay DEF DeletePasskey
<1> QED
  BY <1>1, <1>2, RowsOnlyGo DEF DeletePasskey, Facts

-----------------------------------------------------------------------------
LEMMA StutterFacts ==
    ASSUME Facts, UNCHANGED vars
    PROVE Facts'
<1>1. WebAuthnTypeOK'
  BY DEF Facts, vars, WebAuthnTypeOK
<1>2. FinishesAnswers'
  BY RequestsStay DEF vars
<1> QED
  BY <1>1, <1>2, RowsOnlyGo DEF vars, Facts

LEMMA FactsNext ==
    ASSUME Facts, [WebAuthnNext]_vars
    PROVE Facts'
<1>1. ASSUME NEW r \in Requests, NEW u \in Users,
             BeginRegistration(r, u) \/ BeginLogin(r, u)
      PROVE Facts'
  BY <1>1, BeginFacts DEF BeginRegistration, BeginLogin
<1>2. ASSUME NEW r \in Requests, FinishRegistration(r)
      PROVE Facts'
  BY <1>2, ReadForRegistrationFacts, CreatePasskeyFacts DEF FinishRegistration
<1>3. ASSUME NEW r \in Requests, FinishLogin(r)
      PROVE Facts'
  BY <1>3, LoadForLoginFacts, FindFacts, ReadSessionFacts, IdentifyFacts,
     IdentifyAgainFacts, UpdateUsageFacts, UpdateUsageFailedFacts,
     OpenSessionFacts
     DEF FinishLogin
<1>4. ASSUME NEW r \in Requests, CleanUp(r)
      PROVE Facts'
  BY <1>4, FindLapsedFacts, ClearFacts, ClearFailedFacts DEF CleanUp
<1> QED
  BY <1>1, <1>2, <1>3, <1>4, IssueFacts, DiscoverableFacts, LapseFacts,
     RespondFacts, FailFacts, DeletePasskeyFacts, StutterFacts
     DEF WebAuthnNext

LEMMA AlwaysFacts == WebAuthnSpec => []Facts
<1>1. Facts /\ [WebAuthnNext]_vars => Facts'
  BY FactsNext
<1> QED
  BY <1>1, FactsInit, PTL DEF WebAuthnSpec

(* Passkeys, challenges, answers and requests keep their types.            *)
THEOREM WebAuthnTypesCorrect == WebAuthnSpec => []WebAuthnTypeOK
<1>1. Facts => WebAuthnTypeOK
  BY DEF Facts
<1> QED
  BY <1>1, AlwaysFacts, PTL

-----------------------------------------------------------------------------
(* Who can change what.  Each of these goes through the actions once, so   *)
(* that the invariants below need only look at the steps that concern them.*)
LEMMA DoneOthers ==
    ASSUME Facts, NEW r \in Requests, NEW q \in Requests, Done(r)
    PROVE request'[q] = IF q = r THEN Idle ELSE request[q]
BY DEF Done, Facts, WebAuthnTypeOK

LEMMA StartOthers ==
    ASSUME Facts, NEW r \in Requests, NEW q \in Requests, NEW record,
           Start(r, record)
    PROVE request'[q] = IF q = r THEN record ELSE request[q]
BY DEF Start, Facts, WebAuthnTypeOK

LEMMA GoToOthers ==
    ASSUME Facts, NEW r \in Requests, NEW q \in Requests, NEW pc, GoTo(r, pc)
    PROVE request'[q] = IF q = r THEN [request[r] EXCEPT !.pc = pc] ELSE request[q]
BY DEF GoTo, Facts, WebAuthnTypeOK

LEMMA UpdatedOthers ==
    ASSUME Facts, NEW r \in Requests, NEW q \in Requests, Updated(r)
    PROVE request'[q] = IF q = r
                        THEN [request[r] EXCEPT !.pc = "clearing", !.count = 0]
                        ELSE request[q]
BY DEF Updated, Facts, WebAuthnTypeOK

LEMMA WhoMovesRequests ==
    ASSUME Facts, [WebAuthnNext]_vars, NEW q \in Requests,
           request'[q] # request[q], request'[q] # Idle
    PROVE \/ \E u \in Users, kind \in {"registration", "authentication"} :
               Begin(q, u, kind)
          \/ \E h \in Challenges : \/ ReadForRegistration(q, h)
                                   \/ LoadForLogin(q, h) \/ Find(q, h)
          \/ Identify(q) \/ ReadSession(q) \/ IdentifyAgain(q)
          \/ UpdateUsage(q) \/ UpdateUsageFailed(q) \/ CreatePasskey(q)
          \/ Clear(q) \/ ClearFailed(q)
<1>1. ASSUME NEW r \in Requests, Done(r)
      PROVE FALSE
  BY <1>1, DoneOthers
<1>2. ASSUME UNCHANGED request
      PROVE FALSE
  BY <1>2
<1>3. ASSUME NEW r \in Requests, NEW u \in Users,
             NEW kind \in {"registration", "authentication"}, Begin(r, u, kind)
      PROVE r = q
  <2>1. Start(r, [Idle EXCEPT !.pc = "beginning", !.user = u, !.kind = kind])
    BY <1>3 DEF Begin
  <2> QED
    BY <2>1, StartOthers
<1>4. ASSUME NEW r \in Requests, NEW u \in Users,
             BeginRegistration(r, u) \/ BeginLogin(r, u)
      PROVE \E kind \in {"registration", "authentication"} : Begin(q, u, kind)
  <2>1. PICK kind \in {"registration", "authentication"} : Begin(r, u, kind)
    BY <1>4 DEF BeginRegistration, BeginLogin
  <2> QED
    BY <2>1, <1>3
<1>5. ASSUME NEW r \in Requests, NEW h \in Challenges,
             ReadForRegistration(r, h) \/ LoadForLogin(r, h) \/ Find(r, h)
      PROVE r = q
  <2>1. CASE ReadForRegistration(r, h)
    <3>1. Start(r, [Idle EXCEPT !.pc = "creating", !.user = ceremony[h].user,
                                !.kind = "registration", !.challenge = h])
      BY <2>1 DEF ReadForRegistration
    <3> QED
      BY <3>1, StartOthers
  <2>2. CASE LoadForLogin(r, h)
    <3>1. Start(r, [pc |-> "loaded", user |-> ceremony[h].user,
                    kind |-> "authentication", challenge |-> h,
                    count |-> passkey[response[h].passkey].count])
      BY <2>2 DEF LoadForLogin
    <3> QED
      BY <3>1, StartOthers
  <2>3. CASE Find(r, h)
    <3>1. Start(r, [Idle EXCEPT !.pc = "found", !.kind = "discoverable",
                                !.challenge = h])
      BY <2>3 DEF Find
    <3> QED
      BY <3>1, StartOthers
  <2> QED
    BY <1>5, <2>1, <2>2, <2>3
<1>6. ASSUME NEW r \in Requests, Identify(r)
      PROVE r = q
  BY <1>6 DEF Identify, Facts, WebAuthnTypeOK
<1>7. ASSUME NEW r \in Requests,
             ReadSession(r) \/ IdentifyAgain(r) \/ CreatePasskey(r)
      PROVE r = q
  <2>1. PICK pc : GoTo(r, pc)
    BY <1>7 DEF ReadSession, IdentifyAgain, CreatePasskey
  <2> QED
    BY <2>1, GoToOthers
<1>8. ASSUME NEW r \in Requests, UpdateUsage(r) \/ UpdateUsageFailed(r)
      PROVE r = q
  BY <1>8, UpdatedOthers DEF UpdateUsage, UpdateUsageFailed
<1>9. ASSUME NEW r \in Requests, Clear(r) \/ ClearFailed(r)
      PROVE r = q
  BY <1>1, <1>9, GoToOthers DEF Clear, ClearFailed, AfterClearing
<1>10. ASSUME NEW r \in Requests, FinishRegistration(r)
       PROVE \/ \E h \in Challenges : ReadForRegistration(q, h)
             \/ CreatePasskey(q)
  BY <1>10, <1>5, <1>7 DEF FinishRegistration
<1>11. ASSUME NEW r \in Requests, FinishLogin(r)
       PROVE \/ \E h \in Challenges : LoadForLogin(q, h) \/ Find(q, h)
             \/ Identify(q) \/ ReadSession(q) \/ IdentifyAgain(q)
             \/ UpdateUsage(q) \/ UpdateUsageFailed(q)
  <2>1. ~OpenSession(r)
    BY <1>1 DEF OpenSession
  <2> QED
    BY <2>1, <1>11, <1>5, <1>6, <1>7, <1>8 DEF FinishLogin
<1>12. ASSUME NEW r \in Requests, CleanUp(r)
       PROVE Clear(q) \/ ClearFailed(q)
  <2>1. \A h \in Challenges : ~FindLapsed(r, h)
    BY <1>1 DEF FindLapsed
  <2> QED
    BY <2>1, <1>12, <1>9 DEF CleanUp
<1>13. \A r \in Requests : /\ ~Fail(r)
                           /\ \A h \in Challenges : ~Issue(r, h)
  BY <1>1 DEF Fail, Issue
<1>14. /\ \A h \in Challenges : /\ ~Lapse(h)
                                /\ \A k \in Passkeys : ~Respond(h, k)
                                /\ \A old \in SUBSET Challenges :
                                      ~BeginDiscoverable(h, old)
       /\ \A k \in Passkeys : ~DeletePasskey(k)
       /\ ~UNCHANGED vars
  BY <1>2 DEF Lapse, Respond, BeginDiscoverable, DeletePasskey, vars
<1> QED
  BY <1>4, <1>10, <1>11, <1>12, <1>13, <1>14 DEF WebAuthnNext

LEMMA WhoChangesPasskeys ==
    ASSUME Facts, [WebAuthnNext]_vars, NEW k \in Passkeys,
           passkey'[k] # passkey[k]
    PROVE \/ DeletePasskey(k)
          \/ \E r \in Requests : /\ UpdateUsage(r) \/ CreatePasskey(r)
                               /\ Presented(r) = k
<1>1. ASSUME UNCHANGED passkey
      PROVE FALSE
  BY <1>1
<1>2. ASSUME NEW r \in Requests, UpdateUsage(r)
      PROVE Presented(r) = k
  <2>1. Presented(r) \in Passkeys
    BY <1>2, PresentedType DEF UpdateUsage, At, Finishing
  <2>2. passkey' = [passkey EXCEPT ![Presented(r)].count = NewCount(r)]
    BY <1>2, <1>1 DEF UpdateUsage
  <2> QED
    BY <2>1, <2>2 DEF Facts, WebAuthnTypeOK
<1>3. ASSUME NEW r \in Requests, CreatePasskey(r)
      PROVE Presented(r) = k
  <2>1. Presented(r) \in Passkeys
    BY <1>3, PresentedType DEF CreatePasskey, At, Finishing
  <2>2. passkey' = [passkey EXCEPT ![Presented(r)] = [user |-> request[r].user,
                              count |-> response[request[r].challenge].count]]
    BY <1>3 DEF CreatePasskey
  <2> QED
    BY <2>1, <2>2 DEF Facts, WebAuthnTypeOK
<1>4. ASSUME NEW j \in Passkeys, DeletePasskey(j)
      PROVE j = k
  BY <1>4 DEF DeletePasskey, Facts, WebAuthnTypeOK
<1>5. \A r \in Requests, u \in Users : ~BeginRegistration(r, u) /\ ~BeginLogin(r, u)
  BY <1>1 DEF BeginRegistration, BeginLogin, Begin
<1>6. \A r \in Requests, h \in Challenges :
         /\ ~Issue(r, h) /\ ~ReadForRegistration(r, h) /\ ~LoadForLogin(r, h)
         /\ ~Find(r, h) /\ ~FindLapsed(r, h)
  BY <1>1 DEF Issue, ReadForRegistration, LoadForLogin, Find, FindLapsed
<1>7. \A r \in Requests :
         /\ ~ReadSession(r) /\ ~Identify(r) /\ ~IdentifyAgain(r)
         /\ ~UpdateUsageFailed(r) /\ ~OpenSession(r) /\ ~Clear(r)
         /\ ~ClearFailed(r) /\ ~Fail(r)
  BY <1>1 DEF ReadSession, Identify, IdentifyAgain, UpdateUsageFailed,
              OpenSession, Clear, ClearFailed, Fail
<1>8. /\ \A h \in Challenges : /\ ~Lapse(h)
                               /\ \A j \in Passkeys : ~Respond(h, j)
                               /\ \A old \in SUBSET Challenges :
                                     ~BeginDiscoverable(h, old)
      /\ ~UNCHANGED vars
  BY <1>1 DEF Lapse, Respond, BeginDiscoverable, vars
<1> QED
  BY <1>2, <1>3, <1>4, <1>5, <1>6, <1>7, <1>8
     DEF WebAuthnNext, FinishRegistration, FinishLogin, CleanUp

(* Challenges are issued and answered for good, and what is issued stays   *)
(* away once it is away.                                                   *)
Issuing(h) ==
    \/ \E r \in Requests : Issue(r, h)
    \/ \E old \in SUBSET Challenges : BeginDiscoverable(h, old)

LEMMA IssuedForGood ==
    ASSUME Facts, [WebAuthnNext]_vars, NEW h \in Challenges
    PROVE /\ ceremony'[h] # ceremony[h] => Issuing(h)
          /\ row'[h] # "none" /\ row[h] = "none" => Issuing(h)
          /\ response'[h] # response[h] => \E k \in Passkeys : Respond(h, k)
          /\ ceremony[h] # NoCeremony => ceremony'[h] = ceremony[h]
          /\ response[h] # NoResponse => response'[h] = response[h]
<1> DEFINE Goal == /\ ceremony'[h] # ceremony[h] => Issuing(h)
                   /\ row'[h] # "none" /\ row[h] = "none" => Issuing(h)
                   /\ response'[h] # response[h] => \E k \in Passkeys : Respond(h, k)
<1>1. ASSUME UNCHANGED <<ceremony, response>>,
             row' = row \/ \E hs : row' = Without(hs)
      PROVE Goal
  BY <1>1, WithoutType
<1>2. ASSUME NEW r \in Requests, NEW g \in Challenges, Issue(r, g)
      PROVE Goal
  <2>1. g = h => Issuing(h)
    BY <1>2 DEF Issuing
  <2>2. g # h => ceremony'[h] = ceremony[h] /\ row'[h] = row[h]
    BY <1>2 DEF Issue, Facts, WebAuthnTypeOK
  <2>3. response' = response
    BY <1>2 DEF Issue
  <2> QED
    BY <2>1, <2>2, <2>3
<1>3. ASSUME NEW g \in Challenges, NEW old \in SUBSET Challenges,
             BeginDiscoverable(g, old)
      PROVE Goal
  <2>1. g = h => Issuing(h)
    BY <1>3 DEF Issuing
  <2>2. g # h => ceremony'[h] = ceremony[h]
    BY <1>3 DEF BeginDiscoverable, Facts, WebAuthnTypeOK
  <2>3. g # h => row'[h] = Without(old)[h]
    BY <1>3, WithoutType DEF BeginDiscoverable
  <2>4. response' = response
    BY <1>3 DEF BeginDiscoverable
  <2> QED
    BY <2>1, <2>2, <2>3, <2>4, WithoutType
<1>4. ASSUME NEW g \in Challenges, NEW k \in Passkeys, Respond(g, k)
      PROVE Goal
  <2>1. UNCHANGED <<ceremony, row>>
    BY <1>4 DEF Respond
  <2>2. g # h => response'[h] = response[h]
    BY <1>4 DEF Respond, Facts, WebAuthnTypeOK
  <2> QED
    BY <1>4, <2>1, <2>2
<1>5. ASSUME NEW g \in Challenges, Lapse(g)
      PROVE Goal
  <2>1. UNCHANGED <<ceremony, response>>
    BY <1>5 DEF Lapse
  <2>2. row'[h] # "none" => row[h] # "none"
    BY <1>5 DEF Lapse, Facts, WebAuthnTypeOK
  <2> QED
    BY <2>1, <2>2
<1>6. ASSUME NEW r \in Requests, NEW u \in Users,
             BeginRegistration(r, u) \/ BeginLogin(r, u)
      PROVE Goal
  BY <1>1, <1>6 DEF BeginRegistration, BeginLogin, Begin
<1>7. ASSUME NEW r \in Requests, FinishRegistration(r)
      PROVE Goal
  <2>1. UNCHANGED <<ceremony, response, row>>
    BY <1>7 DEF FinishRegistration, ReadForRegistration, CreatePasskey
  <2> QED
    BY <1>1, <2>1
<1>8. ASSUME NEW r \in Requests, FinishLogin(r)
      PROVE Goal
  <2>1. UNCHANGED <<ceremony, response, row>>
    BY <1>8 DEF FinishLogin, LoadForLogin, Find, ReadSession, Identify,
                IdentifyAgain, UpdateUsage, UpdateUsageFailed, OpenSession
  <2> QED
    BY <1>1, <2>1
<1>9. ASSUME NEW r \in Requests, CleanUp(r)
      PROVE Goal
  <2>1. /\ UNCHANGED <<ceremony, response>>
        /\ row' = row \/ \E hs : row' = Without(hs)
    BY <1>9 DEF CleanUp, FindLapsed, Clear, ClearFailed
  <2> QED
    BY <1>1, <2>1
<1>10. ASSUME \/ \E r \in Requests : Fail(r)
              \/ \E k \in Passkeys : DeletePasskey(k)
              \/ UNCHANGED vars
       PROVE Goal
  <2>1. UNCHANGED <<ceremony, response, row>>
    BY <1>10 DEF Fail, DeletePasskey, vars
  <2> QED
    BY <1>1, <2>1
<1>11. Goal
  <2> HIDE DEF Goal
  <2> QED
    BY <1>2, <1>3, <1>4, <1>5, <1>6, <1>7, <1>8, <1>9, <1>10 DEF WebAuthnNext
<1>12. ceremony[h] # NoCeremony => ~Issuing(h)
  BY DEF Issuing, Issue, BeginDiscoverable
<1>13. response[h] # NoResponse => \A k \in Passkeys : ~Respond(h, k)
  BY DEF Respond
<1> QED
  BY <1>11, <1>12, <1>13

(* The history is only added to.                                           *)
LEMMA HistoryGrows ==
    ASSUME Facts, [WebAuthnNext]_vars
    PROVE /\ uncleared \subseteq uncleared' /\ contested \subseteq contested'
          /\ crowded \subseteq crowded' /\ opened \subseteq opened'
          /\ \A h \in opened' \ opened :
                \E r \in Requests : OpenSession(r) /\ h = request[r].challenge
          /\ \A k \in deleted' \ deleted : k \in Passkeys /\ DeletePasskey(k)
<1> DEFINE Grows ==
             /\ uncleared \subseteq uncleared' /\ contested \subseteq contested'
             /\ crowded \subseteq crowded' /\ opened \subseteq opened'
           Only ==
             /\ \A h \in opened' \ opened :
                  \E r \in Requests : OpenSession(r) /\ h = request[r].challenge
             /\ \A k \in deleted' \ deleted : k \in Passkeys /\ DeletePasskey(k)
<1>1. ASSUME NEW r \in Requests, NEW u \in Users,
             BeginRegistration(r, u) \/ BeginLogin(r, u)
      PROVE Grows /\ UNCHANGED <<opened, deleted>>
  BY <1>1 DEF BeginRegistration, BeginLogin, Begin
<1>2. ASSUME NEW r \in Requests, FinishRegistration(r)
      PROVE Grows /\ UNCHANGED <<opened, deleted>>
  BY <1>2 DEF FinishRegistration, ReadForRegistration, CreatePasskey
<1>3. ASSUME NEW r \in Requests, FinishLogin(r), ~OpenSession(r)
      PROVE Grows /\ UNCHANGED <<opened, deleted>>
  BY <1>3 DEF FinishLogin, LoadForLogin, Find, ReadSession, Identify, ReadsCountOf,
              IdentifyAgain, UpdateUsage, UpdateUsageFailed
<1>4. ASSUME NEW r \in Requests, OpenSession(r)
      PROVE /\ Grows /\ UNCHANGED deleted
            /\ opened' \ opened \subseteq {request[r].challenge}
  BY <1>4 DEF OpenSession
<1>5. ASSUME NEW r \in Requests, CleanUp(r) \/ Fail(r)
      PROVE Grows /\ UNCHANGED <<opened, deleted>>
  BY <1>5 DEF CleanUp, FindLapsed, Clear, ClearFailed, Fail, Uncleared
<1>6. ASSUME NEW h \in Challenges,
             \/ Lapse(h) \/ \E r \in Requests : Issue(r, h)
             \/ \E old \in SUBSET Challenges : BeginDiscoverable(h, old)
             \/ \E k \in Passkeys : Respond(h, k)
      PROVE Grows /\ UNCHANGED <<opened, deleted>>
  BY <1>6 DEF Lapse, Issue, BeginDiscoverable, Respond
<1>7. ASSUME NEW k \in Passkeys, DeletePasskey(k)
      PROVE Grows /\ UNCHANGED opened /\ deleted' \ deleted \subseteq {k}
  BY <1>7 DEF DeletePasskey
<1>8. ASSUME UNCHANGED vars
      PROVE Grows /\ UNCHANGED <<opened, deleted>>
  BY <1>8 DEF vars
<1>9. Grows
  <2> HIDE DEF Grows, Only
  <2> QED
    BY <1>1, <1>2, <1>3, <1>4, <1>5, <1>6, <1>7, <1>8 DEF WebAuthnNext
<1>10. ASSUME UNCHANGED <<opened, deleted>> PROVE Only
  BY <1>10
<1>11. ASSUME NEW r \in Requests, OpenSession(r) PROVE Only
  BY <1>4, <1>11
<1>12. ASSUME NEW k \in Passkeys, DeletePasskey(k) PROVE Only
  BY <1>7, <1>12
<1>13. Only
  <2> HIDE DEF Grows, Only
  <2> QED
    BY <1>1, <1>2, <1>3, <1>5, <1>6, <1>8, <1>10, <1>11, <1>12 DEF WebAuthnNext
<1> QED
  BY <1>9, <1>13

-----------------------------------------------------------------------------
(* Opened ceremonies.  A sign-in about to open its session has removed its *)
(* challenge or failed to.                                                 *)
Over(h) == h \notin uncleared => row[h] = "none"

OpenedInv ==
    /\ \A r \in Requests : At(r, "opening") => Over(request[r].challenge)
    /\ \A h \in opened : h \in Challenges /\ ceremony[h] # NoCeremony /\ Over(h)

LEMMA Issued1 ==
    ASSUME Facts, NEW r \in Requests, Finishing(r)
    PROVE /\ request[r].challenge \in Challenges
          /\ response[request[r].challenge] # NoResponse
          /\ ceremony[request[r].challenge] # NoCeremony
BY DEF Facts, FinishesAnswers, IssuedFirst

LEMMA OverStays ==
    ASSUME Facts, [WebAuthnNext]_vars, NEW h \in Challenges,
           ceremony[h] # NoCeremony, Over(h)
    PROVE Over(h)'
<1>1. ~Issuing(h)
  BY DEF Issuing, Issue, BeginDiscoverable
<1>2. row'[h] # "none" => row[h] # "none"
  BY <1>1, IssuedForGood
<1> QED
  BY <1>2, HistoryGrows DEF Over

LEMMA OpenedStep ==
    ASSUME Facts, OpenedInv, [WebAuthnNext]_vars
    PROVE OpenedInv'
<1>1. ASSUME NEW r \in Requests, At(r, "opening")'
      PROVE Over(request[r].challenge)'
  <2>1. CASE request'[r] = request[r]
    <3>1. At(r, "opening") /\ Finishing(r)
      BY <1>1, <2>1 DEF At, Finishing
    <3>2. Over(request[r].challenge) /\ request[r].challenge \in Challenges
          /\ ceremony[request[r].challenge] # NoCeremony
      BY <3>1, Issued1 DEF OpenedInv
    <3>3. PICK h \in Challenges : h = request[r].challenge
      BY <3>2
    <3>4. Over(h)'
      BY <3>2, <3>3, OverStays
    <3> QED
      BY <2>1, <3>3, <3>4 DEF Over
  <2>2. CASE request'[r] = Idle
    BY <1>1, <2>2, IdleIsARequest DEF At
  <2>3. CASE Clear(r) /\ GoTo(r, "opening")
    <3>1. Finishing(r)
      BY <2>3 DEF Clear, At, Finishing
    <3>2. PICK h \in Challenges : h = request[r].challenge
      BY <3>1, Issued1
    <3>3. h \in ClearedWith(h)
      BY DEF ClearedWith
    <3>4. row'[h] = "none"
      BY <2>3, <3>2, <3>3, WithoutType DEF Clear
    <3>5. request'[r].challenge = h
      BY <2>3, <3>2 DEF GoTo, Facts, WebAuthnTypeOK, Request
    <3> QED
      BY <3>4, <3>5 DEF Over
  <2>4. CASE ClearFailed(r) /\ GoTo(r, "opening")
    <3>1. request'[r].challenge = request[r].challenge
      BY <2>4 DEF GoTo, Facts, WebAuthnTypeOK, Request
    <3> QED
      BY <2>4, <3>1 DEF ClearFailed, Uncleared, Over
  <2>5. CASE Done(r)
    BY <2>5, <2>2, DoneOthers
  <2>6. CASE \E u \in Users, kind \in {"registration", "authentication"} :
               Begin(r, u, kind)
    BY <1>1, <2>6 DEF Begin, Start, Idle, At, Facts, WebAuthnTypeOK
  <2>7. CASE \E h \in Challenges : ReadForRegistration(r, h)
    BY <1>1, <2>7 DEF ReadForRegistration, Start, Idle, At, Facts, WebAuthnTypeOK
  <2>8. CASE \E h \in Challenges : LoadForLogin(r, h)
    BY <1>1, <2>8 DEF LoadForLogin, Start, Idle, At, Facts, WebAuthnTypeOK
  <2>9. CASE \E h \in Challenges : Find(r, h)
    BY <1>1, <2>9 DEF Find, Start, Idle, At, Facts, WebAuthnTypeOK
  <2>10. CASE Identify(r)
    BY <1>1, <2>10 DEF Identify, At, Facts, WebAuthnTypeOK, Request
  <2>11. CASE ReadSession(r) \/ IdentifyAgain(r) \/ CreatePasskey(r)
    BY <1>1, <2>11 DEF ReadSession, IdentifyAgain, CreatePasskey, GoTo, At, Facts,
                       WebAuthnTypeOK, Request
  <2>12. CASE UpdateUsage(r) \/ UpdateUsageFailed(r)
    BY <1>1, <2>12 DEF UpdateUsage, UpdateUsageFailed, Updated, At, Facts,
                       WebAuthnTypeOK, Request
  <2>13. CASE Clear(r) \/ ClearFailed(r)
    BY <2>3, <2>4, <2>5, <2>13 DEF Clear, ClearFailed, AfterClearing
  <2> QED
    BY <2>1, <2>2, <2>6, <2>7, <2>8, <2>9, <2>10, <2>11, <2>12, <2>13,
       WhoMovesRequests
<1>2. ASSUME NEW h \in opened'
      PROVE h \in Challenges /\ ceremony'[h] # NoCeremony /\ Over(h)'
  <2>1. h \in Challenges /\ ceremony[h] # NoCeremony /\ Over(h)
    <3>1. CASE h \in opened
      BY <3>1 DEF OpenedInv
    <3>2. CASE h \notin opened
      <4>1. PICK r \in Requests : OpenSession(r) /\ h = request[r].challenge
        BY <1>2, <3>2, HistoryGrows
      <4>2. At(r, "opening") /\ Finishing(r)
        BY <4>1 DEF OpenSession, At, Finishing
      <4> QED
        BY <4>1, <4>2, Issued1 DEF OpenedInv
    <3> QED
      BY <3>1, <3>2
  <2> QED
    BY <2>1, OverStays, IssuedForGood
<1> QED
  BY <1>1, <1>2 DEF OpenedInv

(* A sign-in by passkey removes its challenge before it opens a session:   *)
(* however many requests repeat an answer, once a session is open the      *)
(* challenge is gone, or its removal had failed.                           *)
THEOREM OpenedMeansOver == WebAuthnSpec => []OpenedCeremoniesAreOver
<1>1. WebAuthnInit => OpenedInv
  <2> SUFFICES ASSUME WebAuthnInit PROVE OpenedInv
    OBVIOUS
  <2> QED
    BY IdleIsARequest DEF WebAuthnInit, OpenedInv, At, Over
<1>2. Facts /\ OpenedInv /\ [WebAuthnNext]_vars => OpenedInv'
  BY OpenedStep
<1>3. OpenedInv => OpenedCeremoniesAreOver
  BY DEF OpenedInv, OpenedCeremoniesAreOver, Over
<1> QED
  BY <1>1, <1>2, <1>3, AlwaysFacts, PTL DEF WebAuthnSpec

-----------------------------------------------------------------------------
(* Sign counts.  A sign-in that has read the count of a passkey is the only*)
(* one under way unless the passkey is contested, so the count it has read *)
(* is still at least the stored one; it may be more, when the passkey was  *)
(* deleted and registered again meanwhile, which stores a zero.            *)
RegistrationsCountNothing ==
    \A h \in Challenges :
        response[h] # NoResponse /\ ceremony[h].kind = "registration"
            => response[h].count = 0

CountsAreCurrent ==
    \A k \in Passkeys : k \notin contested =>
        /\ \A q, r \in SigningIn(k) : q = r
        /\ \A q \in SigningIn(k) : request[q].count >= passkey[k].count

CountInv == RegistrationsCountNothing /\ CountsAreCurrent

LEMMA RegistrationsCountNothingStep ==
    ASSUME Facts, CountInv, [WebAuthnNext]_vars
    PROVE RegistrationsCountNothing'
<1> SUFFICES ASSUME NEW h \in Challenges, response'[h] # NoResponse,
                    ceremony'[h].kind = "registration"
             PROVE response'[h].count = 0
  BY DEF RegistrationsCountNothing, NoResponse
<1>1. CASE response'[h] = response[h]
  <2>1. ceremony[h] # NoCeremony
    BY <1>1 DEF Facts, IssuedFirst
  <2> QED
    BY <1>1, <2>1, IssuedForGood DEF CountInv, RegistrationsCountNothing
<1>2. ASSUME NEW k \in Passkeys, Respond(h, k)
      PROVE response'[h].count = 0
  <2> DEFINE of == {g \in Challenges : response[g].passkey = k}
  <2>1. ceremony' = ceremony /\ (ceremony[h].kind = "registration" => of = {})
    BY <1>2 DEF Respond
  <2>2. response' = [response EXCEPT ![h] = [passkey |-> k, count |-> Cardinality(of)]]
    BY <1>2 DEF Respond
  <2>3. Cardinality(of) = 0
    BY <2>1, FS_EmptySet
  <2> HIDE DEF of
  <2> QED
    BY <2>2, <2>3 DEF Facts, WebAuthnTypeOK
<1> QED
  BY <1>1, <1>2, IssuedForGood

(* A request that is signing in after a step was doing so before, or has   *)
(* just read the count.                                                    *)
Reads(q, k) ==
    /\ ReadsCountOf(k)
    /\ passkey' = passkey
    /\ request'[q].count = passkey[k].count
    /\ \A r \in Requests \ {q} : request'[r] = request[r]
    /\ q \notin SigningIn(k)

Waits(q, k) == q \in SigningIn(k) /\ request'[q].count = request[q].count

LEMMA WhoSignsIn ==
    ASSUME Facts, [WebAuthnNext]_vars, NEW k \in Passkeys, NEW q \in SigningIn(k)'
    PROVE Waits(q, k) \/ Reads(q, k)
<1>0. /\ q \in Requests
      /\ request'[q].pc \in {"loaded", "validated", "updating"}
      /\ request'[q].kind # "registration"
      /\ response'[request'[q].challenge].passkey = k
  BY DEF SigningIn, At, Presented
<1>1. ASSUME request'[q].challenge = request[q].challenge,
             request'[q].count = request[q].count,
             request'[q].kind = request[q].kind,
             request[q].pc \in {"loaded", "validated", "updating"}
      PROVE Waits(q, k)
  <2>1. Finishing(q)
    BY <1>0, <1>1 DEF Finishing
  <2>2. Presented(q) = k
    BY <1>0, <1>1, <2>1, Issued1, IssuedForGood DEF Presented
  <2> QED
    BY <1>0, <1>1, <2>2 DEF Waits, SigningIn, At
<1>2. CASE request'[q] = request[q]
  BY <1>0, <1>1, <1>2
<1>3. CASE request'[q] = Idle
  BY <1>0, <1>3, IdleIsARequest
<1>4. CASE \E u \in Users, kind \in {"registration", "authentication"} :
             Begin(q, u, kind)
  BY <1>0, <1>4 DEF Begin, Start, Idle, Facts, WebAuthnTypeOK
<1>5. CASE \E h \in Challenges : ReadForRegistration(q, h)
  BY <1>0, <1>5 DEF ReadForRegistration, Start, Idle, Facts, WebAuthnTypeOK
<1>6. CASE \E h \in Challenges : Find(q, h)
  BY <1>0, <1>6 DEF Find, Start, Idle, Facts, WebAuthnTypeOK
<1>7. CASE \E h \in Challenges : LoadForLogin(q, h)
  <2>1. PICK h \in Challenges : LoadForLogin(q, h)
    BY <1>7
  <2> DEFINE record == [pc |-> "loaded", user |-> ceremony[h].user,
                        kind |-> "authentication", challenge |-> h,
                        count |-> passkey[response[h].passkey].count]
  <2>2. /\ Start(q, record) /\ response' = response /\ passkey' = passkey
        /\ ReadsCountOf(response[h].passkey)
    BY <2>1 DEF LoadForLogin
  <2>3. record.challenge = h /\ record.count = passkey[response[h].passkey].count
    OBVIOUS
  <2> HIDE DEF record
  <2>4. /\ request'[q] = record
        /\ \A r \in Requests \ {q} : request'[r] = request[r]
    BY <1>0, <2>2, StartOthers
  <2>5. response[h].passkey = k
    BY <1>0, <2>2, <2>3, <2>4
  <2>6. q \notin SigningIn(k)
    BY <2>2 DEF SigningIn, Start, At
  <2> QED
    BY <2>2, <2>3, <2>4, <2>5, <2>6 DEF Reads
<1>8. CASE Identify(q)
  <2> DEFINE j == Presented(q)
             record == [request[q] EXCEPT !.pc = "validated",
                                          !.user = passkey[j].user,
                                          !.count = passkey[j].count]
  <2>1. /\ request' = [request EXCEPT ![q] = record] /\ response' = response
        /\ passkey' = passkey /\ ReadsCountOf(j) /\ request[q].pc = "found"
    BY <1>8 DEF Identify, At
  <2>2. request[q] \in Request /\ request \in [Requests -> Request]
    BY <1>0 DEF Facts, WebAuthnTypeOK
  <2>3. record.challenge = request[q].challenge /\ record.count = passkey[j].count
    BY <2>2 DEF Request
  <2> HIDE DEF record
  <2>4. /\ request'[q] = record
        /\ \A r \in Requests \ {q} : request'[r] = request[r]
    BY <1>0, <2>1, <2>2
  <2>5. j = k
    BY <1>0, <2>1, <2>3, <2>4 DEF Presented
  <2>6. q \notin SigningIn(k)
    BY <2>1 DEF SigningIn, At
  <2> HIDE DEF j
  <2> QED
    BY <2>1, <2>3, <2>4, <2>5, <2>6 DEF Reads
<1>9. CASE ReadSession(q) \/ IdentifyAgain(q)
  <2>1. /\ GoTo(q, "updating")
        /\ request[q].pc \in {"loaded", "validated", "updating"}
    BY <1>9 DEF ReadSession, IdentifyAgain, At
  <2>2. request'[q] = [request[q] EXCEPT !.pc = "updating"]
    BY <1>0, <2>1, GoToOthers
  <2>3. request[q] \in Request
    BY <1>0 DEF Facts, WebAuthnTypeOK
  <2>4. /\ request'[q].challenge = request[q].challenge
        /\ request'[q].count = request[q].count
        /\ request'[q].kind = request[q].kind
    BY <2>2, <2>3 DEF Request
  <2> QED
    BY <1>1, <2>1, <2>4
<1>10. CASE UpdateUsage(q) \/ UpdateUsageFailed(q)
  <2>1. request'[q] = [request[q] EXCEPT !.pc = "clearing", !.count = 0]
    BY <1>0, <1>10, UpdatedOthers DEF UpdateUsage, UpdateUsageFailed
  <2>2. request[q] \in Request
    BY <1>0 DEF Facts, WebAuthnTypeOK
  <2>3. request'[q].pc = "clearing"
    BY <2>1, <2>2 DEF Request
  <2> QED
    BY <1>0, <2>3
<1>11. CASE CreatePasskey(q) \/ Clear(q) \/ ClearFailed(q)
  <2>1. Done(q) \/ GoTo(q, "clearing") \/ GoTo(q, "opening")
    BY <1>11 DEF CreatePasskey, Clear, ClearFailed, AfterClearing
  <2>2. request[q] \in Request
    BY <1>0 DEF Facts, WebAuthnTypeOK
  <2>3. CASE GoTo(q, "clearing")
    <3>1. request'[q] = [request[q] EXCEPT !.pc = "clearing"]
      BY <1>0, <2>3, GoToOthers
    <3>2. request'[q].pc = "clearing"
      BY <2>2, <3>1 DEF Request
    <3> QED
      BY <1>0, <3>2
  <2>4. CASE GoTo(q, "opening")
    <3>1. request'[q] = [request[q] EXCEPT !.pc = "opening"]
      BY <1>0, <2>4, GoToOthers
    <3>2. request'[q].pc = "opening"
      BY <2>2, <3>1 DEF Request
    <3> QED
      BY <1>0, <3>2
  <2>5. CASE Done(q)
    BY <1>0, <1>3, <2>5, DoneOthers
  <2> QED
    BY <2>1, <2>3, <2>4, <2>5
<1> QED
  BY <1>0, <1>2, <1>3, <1>4, <1>5, <1>6, <1>7, <1>8, <1>9, <1>10, <1>11,
     WhoMovesRequests

LEMMA UpdatingSignsIn ==
    ASSUME Facts, NEW r \in Requests, UpdateUsage(r)
    PROVE /\ r \in SigningIn(Presented(r)) /\ Presented(r) \in Passkeys
          /\ request'[r].pc = "clearing"
<1>1. At(r, "updating") /\ Finishing(r) /\ request[r].kind # "registration"
  BY DEF UpdateUsage, At, Facts, FinishesAnswers, Finishing
<1>2. request'[r] = [request[r] EXCEPT !.pc = "clearing", !.count = 0]
  BY UpdatedOthers DEF UpdateUsage
<1>3. request[r] \in Request
  BY DEF Facts, WebAuthnTypeOK
<1> QED
  BY <1>1, <1>2, <1>3, PresentedType DEF SigningIn, Request

LEMMA CreatingCountsNothing ==
    ASSUME Facts, CountInv, NEW r \in Requests, CreatePasskey(r)
    PROVE /\ Presented(r) \in Passkeys
          /\ ~Stored(Presented(r))
          /\ passkey'[Presented(r)].count = 0
<1>1. At(r, "creating") /\ Finishing(r) /\ request[r].kind = "registration"
  BY DEF CreatePasskey, At, Facts, FinishesAnswers, Finishing
<1>2. response[request[r].challenge].count = 0
  BY <1>1 DEF Facts, FinishesAnswers, CountInv, RegistrationsCountNothing
<1>3. passkey' = [passkey EXCEPT ![Presented(r)] = [user |-> request[r].user,
                                                    count |-> 0]]
  BY <1>2 DEF CreatePasskey
<1> QED
  BY <1>1, <1>3, PresentedType DEF CreatePasskey, Facts, WebAuthnTypeOK

LEMMA UpdatingCounts ==
    ASSUME Facts, NEW r \in Requests, UpdateUsage(r), Stored(Presented(r))
    PROVE passkey'[Presented(r)].count = NewCount(r)
<1>1. passkey' = [passkey EXCEPT ![Presented(r)].count = NewCount(r)]
  BY DEF UpdateUsage
<1> QED
  BY <1>1, UpdatingSignsIn DEF Facts, WebAuthnTypeOK

LEMMA CountsAreCurrentStep ==
    ASSUME Facts, CountInv, [WebAuthnNext]_vars
    PROVE CountsAreCurrent'
<1> SUFFICES ASSUME NEW k \in Passkeys, k \notin contested'
             PROVE /\ \A q, r \in SigningIn(k)' : q = r
                   /\ \A q \in SigningIn(k)' :
                         request'[q].count >= passkey'[k].count
  BY DEF CountsAreCurrent
<1>1. k \notin contested
  BY HistoryGrows
<1>2. /\ \A q, r \in SigningIn(k) : q = r
      /\ \A q \in SigningIn(k) : request[q].count >= passkey[k].count
  BY <1>1 DEF CountInv, CountsAreCurrent
<1>3. ASSUME NEW q \in SigningIn(k)', Reads(q, k), NEW r \in SigningIn(k)'
      PROVE q = r
  <2>1. SigningIn(k) = {}
    BY <1>3 DEF Reads, ReadsCountOf
  <2>2. Reads(r, k)
    BY <2>1, WhoSignsIn DEF Waits
  <2>3. q \in Requests /\ r \in Requests
    BY DEF SigningIn
  <2>4. ASSUME q # r PROVE FALSE
    <3>1. request'[r] = request[r]
      BY <1>3, <2>3, <2>4 DEF Reads
    <3>2. /\ request'[r].pc \in {"loaded", "validated", "updating"}
          /\ request'[r].kind # "registration"
          /\ response'[request'[r].challenge].passkey = k
      BY DEF SigningIn, At, Presented
    <3>3. Finishing(r)
      BY <3>1, <3>2 DEF Finishing
    <3>4. Presented(r) = k
      BY <2>3, <3>1, <3>2, <3>3, Issued1, IssuedForGood DEF Presented
    <3>5. r \in SigningIn(k)
      BY <2>3, <3>1, <3>2, <3>4 DEF SigningIn, At
    <3> QED
      BY <2>1, <3>5
  <2> QED
    BY <2>4
<1>4. ASSUME NEW q \in SigningIn(k)', NEW r \in SigningIn(k)'
      PROVE q = r
  BY <1>2, <1>3, WhoSignsIn DEF Waits
<1>5. ASSUME NEW q \in SigningIn(k)'
      PROVE request'[q].count >= passkey'[k].count
  <2>0. /\ passkey[k].count \in Nat /\ passkey'[k].count \in Nat
        /\ q \in Requests /\ request'[q].count \in Nat
    <3>1. Facts'
      BY FactsNext
    <3> QED
      BY <3>1 DEF Facts, WebAuthnTypeOK, SigningIn, Request
  <2>1. CASE Reads(q, k)
    BY <2>0, <2>1 DEF Reads
  <2>2. CASE Waits(q, k) /\ passkey'[k] = passkey[k]
    BY <1>2, <2>2 DEF Waits
  <2>3. CASE Waits(q, k) /\ DeletePasskey(k)
    <3>1. passkey'[k].count = 0
      BY <2>3 DEF DeletePasskey, NoPasskey, Facts, WebAuthnTypeOK
    <3> QED
      BY <2>0, <3>1
  <2>4. ASSUME Waits(q, k), NEW r \in Requests, UpdateUsage(r), Presented(r) = k
        PROVE FALSE
    <3>1. r \in SigningIn(k) /\ request'[r].pc = "clearing"
      BY <2>4, UpdatingSignsIn
    <3>2. q = r
      BY <1>2, <2>4, <3>1 DEF Waits
    <3> QED
      BY <3>1, <3>2 DEF SigningIn, At
  <2>5. ASSUME NEW r \in Requests, CreatePasskey(r), Presented(r) = k
        PROVE passkey'[k].count = 0
    BY <2>5, CreatingCountsNothing
  <2>6. ASSUME passkey'[k].count = 0
        PROVE request'[q].count >= passkey'[k].count
    BY <2>0, <2>6
  <2> QED
    BY <2>1, <2>2, <2>3, <2>4, <2>5, <2>6, WhoSignsIn, WhoChangesPasskeys
<1> QED
  BY <1>4, <1>5

(* The sign count of a passkey, which is what betrays a cloned one, never  *)
(* goes back unless two sign-ins with it overlapped between reading and    *)
(* writing it, whatever order and number of answers.                       *)
THEOREM SignCountsOnlyGrow == WebAuthnSpec => SignCountNeverGoesBack
<1>1. WebAuthnInit => CountInv
  <2> SUFFICES ASSUME WebAuthnInit PROVE CountInv
    OBVIOUS
  <2>1. RegistrationsCountNothing
    BY DEF WebAuthnInit, RegistrationsCountNothing
  <2>2. \A k : SigningIn(k) = {}
    BY IdleIsARequest DEF WebAuthnInit, SigningIn, At
  <2> QED
    BY <2>1, <2>2 DEF CountInv, CountsAreCurrent
<1>2. Facts /\ CountInv /\ [WebAuthnNext]_vars => CountInv'
  BY RegistrationsCountNothingStep, CountsAreCurrentStep DEF CountInv
<1>3. Facts /\ CountInv /\ [WebAuthnNext]_vars =>
          [\A k \in Passkeys :
             Stored(k) /\ Stored(k)' /\ k \notin contested' =>
                 passkey'[k].count >= passkey[k].count]_vars
  <2> SUFFICES ASSUME Facts, CountInv, [WebAuthnNext]_vars,
                      NEW k \in Passkeys, Stored(k), Stored(k)',
                      k \notin contested'
               PROVE passkey'[k].count >= passkey[k].count
    OBVIOUS
  <2>1. passkey[k].count \in Nat
    BY DEF Facts, WebAuthnTypeOK
  <2>2. CASE passkey'[k] = passkey[k]
    BY <2>1, <2>2
  <2>3. ASSUME DeletePasskey(k) PROVE FALSE
    BY <2>3 DEF DeletePasskey, NoPasskey, Stored, Facts, WebAuthnTypeOK
  <2>4. ASSUME NEW r \in Requests, CreatePasskey(r), Presented(r) = k PROVE FALSE
    BY <2>4, CreatingCountsNothing
  <2>5. ASSUME NEW r \in Requests, UpdateUsage(r), Presented(r) = k
        PROVE passkey'[k].count >= passkey[k].count
    <3>1. passkey'[k].count = NewCount(r) /\ r \in SigningIn(k)
      BY <2>5, UpdatingCounts, UpdatingSignsIn
    <3>2. Finishing(r)
      BY <2>5 DEF UpdateUsage, At, Finishing
    <3>3. request[r].count >= passkey[k].count
      BY <3>1, HistoryGrows DEF CountInv, CountsAreCurrent
    <3>4. /\ NewCount(r) \in Nat /\ request[r].count \in Nat
          /\ NewCount(r) >= request[r].count
      BY <3>2, NewCountType
    <3> QED
      BY <2>1, <3>1, <3>3, <3>4
  <2> QED
    BY <2>2, <2>3, <2>4, <2>5, WhoChangesPasskeys
<1> QED
  BY <1>1, <1>2, <1>3, AlwaysFacts, PTL DEF WebAuthnSpec, SignCountNeverGoesBack

-----------------------------------------------------------------------------
(* One ceremony at a time.  A Begin call that has deleted and not inserted *)
(* yet is alone, unless it is crowded, and finds nothing stored.           *)
Beginning(u, kind) ==
    {q \in Requests : /\ At(q, "beginning")
                      /\ request[q].user = u /\ request[q].kind = kind}

StoredFor(u, kind) == {h \in Issued(u, kind) : row[h] # "none"}

BeginsAlone(u, kind) ==
    /\ \A q, r \in Beginning(u, kind) : q = r
    /\ Beginning(u, kind) # {} => StoredFor(u, kind) = {}
    /\ \A g, h \in StoredFor(u, kind) : g = h

BeginInv ==
    \A u \in Users, kind \in {"registration", "authentication"} :
        <<u, kind>> \notin crowded => BeginsAlone(u, kind)

LEMMA WhoBegins ==
    ASSUME Facts, [WebAuthnNext]_vars, NEW u \in Users,
           NEW kind \in {"registration", "authentication"},
           NEW q \in Beginning(u, kind)'
    PROVE \/ q \in Beginning(u, kind) /\ request'[q] = request[q]
          \/ Begin(q, u, kind)
<1>0. /\ q \in Requests /\ request'[q].pc = "beginning"
      /\ request'[q].user = u /\ request'[q].kind = kind
      /\ request[q] \in Request
  BY DEF Beginning, At, Facts, WebAuthnTypeOK
<1>1. CASE request'[q] = request[q]
  BY <1>0, <1>1 DEF Beginning, At
<1>2. CASE request'[q] = Idle
  BY <1>0, <1>2, IdleIsARequest
<1>3. ASSUME NEW v \in Users, NEW type \in {"registration", "authentication"},
             Begin(q, v, type)
      PROVE v = u /\ type = kind
  <2> DEFINE record == [Idle EXCEPT !.pc = "beginning", !.user = v, !.kind = type]
  <2>1. Start(q, record)
    BY <1>3 DEF Begin
  <2>2. record.user = v /\ record.kind = type
    BY DEF Idle
  <2> HIDE DEF record
  <2> QED
    BY <1>0, <2>1, <2>2, StartOthers
<1>4. CASE \E h \in Challenges : ReadForRegistration(q, h)
  BY <1>0, <1>4 DEF ReadForRegistration, Start, Idle, Facts, WebAuthnTypeOK
<1>5. CASE \E h \in Challenges : LoadForLogin(q, h)
  <2>1. PICK h \in Challenges : LoadForLogin(q, h)
    BY <1>5
  <2>2. Start(q, [pc |-> "loaded", user |-> ceremony[h].user,
                  kind |-> "authentication", challenge |-> h,
                  count |-> passkey[response[h].passkey].count])
    BY <2>1 DEF LoadForLogin
  <2>3. request'[q].pc = "loaded"
    BY <1>0, <2>2, StartOthers
  <2> QED
    BY <1>0, <2>3
<1>6. CASE \E h \in Challenges : Find(q, h)
  BY <1>0, <1>6 DEF Find, Start, Idle, Facts, WebAuthnTypeOK
<1>7. CASE Identify(q)
  <2>1. request'[q] = [request[q] EXCEPT !.pc = "validated",
                                         !.user = passkey[Presented(q)].user,
                                         !.count = passkey[Presented(q)].count]
    BY <1>0, <1>7 DEF Identify, Facts, WebAuthnTypeOK
  <2> QED
    BY <1>0, <2>1 DEF Request
<1>8. ASSUME NEW pc \in {"updating", "clearing", "opening"}, GoTo(q, pc)
      PROVE FALSE
  <2>1. request'[q] = [request[q] EXCEPT !.pc = pc]
    BY <1>0, <1>8, GoToOthers
  <2>2. request'[q].pc = pc
    BY <1>0, <2>1 DEF Request
  <2> QED
    BY <1>0, <2>2
<1>9. ASSUME Updated(q) PROVE FALSE
  <2>1. request'[q] = [request[q] EXCEPT !.pc = "clearing", !.count = 0]
    BY <1>0, <1>9, UpdatedOthers
  <2>2. request'[q].pc = "clearing"
    BY <1>0, <2>1 DEF Request
  <2> QED
    BY <1>0, <2>2
<1>10. CASE Done(q)
  BY <1>0, <1>2, <1>10, DoneOthers
<1>11. CASE ReadSession(q) \/ IdentifyAgain(q) \/ CreatePasskey(q)
  BY <1>8, <1>11 DEF ReadSession, IdentifyAgain, CreatePasskey
<1>12. CASE UpdateUsage(q) \/ UpdateUsageFailed(q)
  BY <1>9, <1>12 DEF UpdateUsage, UpdateUsageFailed
<1>13. CASE Clear(q) \/ ClearFailed(q)
  BY <1>8, <1>10, <1>13 DEF Clear, ClearFailed, AfterClearing
<1> QED
  BY <1>0, <1>1, <1>2, <1>3, <1>4, <1>5, <1>6, <1>7, <1>11, <1>12, <1>13,
     WhoMovesRequests

LEMMA WhoStores ==
    ASSUME Facts, [WebAuthnNext]_vars, NEW u \in Users,
           NEW kind \in {"registration", "authentication"},
           NEW h \in StoredFor(u, kind)'
    PROVE \/ h \in StoredFor(u, kind)
          \/ \E r \in Beginning(u, kind) : Issue(r, h)
<1>0. /\ h \in Challenges /\ row'[h] # "none"
      /\ ceremony'[h] = [user |-> u, kind |-> kind]
  BY DEF StoredFor, Issued
<1>1. CASE ~Issuing(h)
  BY <1>0, <1>1, IssuedForGood DEF StoredFor, Issued
<1>2. ASSUME NEW old \in SUBSET Challenges, BeginDiscoverable(h, old)
      PROVE FALSE
  <2>1. ceremony'[h] = [user |-> None, kind |-> "discoverable"]
    BY <1>0, <1>2 DEF BeginDiscoverable, Facts, WebAuthnTypeOK
  <2> QED
    BY <1>0, <2>1
<1>3. ASSUME NEW r \in Requests, Issue(r, h)
      PROVE r \in Beginning(u, kind)
  <2>1. ceremony'[h] = [user |-> request[r].user, kind |-> request[r].kind]
    BY <1>0, <1>3 DEF Issue, Facts, WebAuthnTypeOK
  <2>2. request[r].user = u /\ request[r].kind = kind
    BY <1>0, <2>1
  <2> QED
    BY <1>3, <2>2 DEF Issue, Beginning
<1> QED
  BY <1>1, <1>2, <1>3 DEF Issuing

LEMMA BeginStep ==
    ASSUME Facts, BeginInv, [WebAuthnNext]_vars
    PROVE BeginInv'
<1> SUFFICES ASSUME NEW u \in Users,
                    NEW kind \in {"registration", "authentication"},
                    <<u, kind>> \notin crowded'
             PROVE BeginsAlone(u, kind)'
  BY DEF BeginInv
<1>1. BeginsAlone(u, kind)
  BY HistoryGrows DEF BeginInv
<1>2. ASSUME NEW q \in Requests, Begin(q, u, kind)
      PROVE BeginsAlone(u, kind)'
  <2>1. ~Crowds(u, kind) /\ ceremony' = ceremony
        /\ row' = Without(Issued(u, kind))
    BY <1>2 DEF Begin
  <2>2. Beginning(u, kind) = {}
    BY <2>1 DEF Crowds, Beginning
  <2>3. StoredFor(u, kind)' = {}
    BY <2>1, WithoutType DEF StoredFor, Issued
  <2>4. \A r \in Requests \ {q} : request'[r] = request[r]
    BY <1>2, StartOthers DEF Begin
  <2>5. \A r \in Beginning(u, kind)' : r = q
    BY <2>2, <2>4 DEF Beginning, At
  <2> QED
    BY <2>3, <2>5 DEF BeginsAlone
<1>3. ASSUME \A q \in Requests : ~Begin(q, u, kind)
      PROVE BeginsAlone(u, kind)'
  <2>1. \A q \in Beginning(u, kind)' : q \in Beginning(u, kind)
                                      /\ request'[q] = request[q]
    BY <1>3, WhoBegins DEF Beginning
  <2>2. CASE StoredFor(u, kind)' \subseteq StoredFor(u, kind)
    BY <1>1, <2>1, <2>2 DEF BeginsAlone
  <2>3. ASSUME NEW h \in StoredFor(u, kind)', NEW r \in Beginning(u, kind),
               Issue(r, h)
        PROVE BeginsAlone(u, kind)'
    <3>0. r \in Requests /\ h \in Challenges
      BY DEF Beginning, StoredFor, Issued
    <3>1. request'[r] = Idle
      BY <2>3, <3>0, DoneOthers DEF Issue
    <3>2. r \notin Beginning(u, kind)'
      BY <3>1, IdleIsARequest DEF Beginning, At
    <3>3. Beginning(u, kind)' = {}
      BY <1>1, <2>1, <3>2 DEF BeginsAlone
    <3>4. \A g \in Challenges \ {h} : row'[g] = row[g] /\ ceremony'[g] = ceremony[g]
      BY <2>3 DEF Issue, Facts, WebAuthnTypeOK
    <3>5. StoredFor(u, kind) = {}
      BY <1>1 DEF BeginsAlone
    <3>6. \A g \in StoredFor(u, kind)' : g = h
      BY <3>4, <3>5 DEF StoredFor, Issued
    <3> QED
      BY <3>3, <3>6 DEF BeginsAlone
  <2> QED
    BY <2>2, <2>3, WhoStores
<1> QED
  BY <1>2, <1>3

(* A user has one challenge of a kind, the last one, unless two Begin calls*)
(* for it overlapped.                                                      *)
THEOREM CeremoniesReplaceEachOther == WebAuthnSpec => []OneCeremonyAtATime
<1>1. WebAuthnInit => BeginInv
  <2> SUFFICES ASSUME WebAuthnInit, NEW u, NEW kind
               PROVE BeginsAlone(u, kind)
    BY DEF BeginInv
  <2>1. Beginning(u, kind) = {}
    BY IdleIsARequest DEF WebAuthnInit, Beginning, At
  <2>2. StoredFor(u, kind) = {}
    BY DEF WebAuthnInit, StoredFor, Issued
  <2> QED
    BY <2>1, <2>2 DEF BeginsAlone
<1>2. Facts /\ BeginInv /\ [WebAuthnNext]_vars => BeginInv'
  BY BeginStep
<1>3. BeginInv => OneCeremonyAtATime
  <2> SUFFICES ASSUME BeginInv, NEW u \in Users,
                      NEW kind \in {"registration", "authentication"},
                      <<u, kind>> \notin crowded
               PROVE Cardinality({h \in Issued(u, kind) : row[h] # "none"}) <= 1
    BY DEF OneCeremonyAtATime
  <2>1. \A g, h \in StoredFor(u, kind) : g = h
    BY DEF BeginInv, BeginsAlone
  <2>2. CASE StoredFor(u, kind) = {}
    <3>1. Cardinality(StoredFor(u, kind)) = 0
      BY <2>2, FS_EmptySet
    <3> QED
      BY <3>1 DEF StoredFor
  <2>3. CASE StoredFor(u, kind) # {}
    <3>1. PICK h : StoredFor(u, kind) = {h}
      BY <2>1, <2>3
    <3>2. Cardinality(StoredFor(u, kind)) = 1
      BY <3>1, FS_Singleton
    <3> QED
      BY <3>2 DEF StoredFor
  <2> QED
    BY <2>2, <2>3
<1> QED
  BY <1>1, <1>2, <1>3, AlwaysFacts, PTL DEF WebAuthnSpec

-----------------------------------------------------------------------------
(* Deleted passkeys.  A passkey comes from one registration ceremony.  By  *)
(* the time it is stored and no Finish call is on its way with that answer,*)
(* the challenge is removed, so that the answer registers nothing again.   *)
Registrations(k) ==
    {h \in Challenges : /\ ceremony[h].kind = "registration"
                        /\ response[h].passkey = k}

Registering(h) ==
    {q \in Requests : /\ request[q].kind = "registration"
                      /\ request[q].challenge = h}

FromOneCeremony(k) ==
    /\ \A g, h \in Registrations(k) : g = h
    /\ Stored(k) \/ k \in deleted => Registrations(k) # {}

ClearedOnceStored(k) ==
    Stored(k) => \A h \in Registrations(k) :
                    Over(h) \/ \E q \in Registering(h) : At(q, "clearing")

SpentOnceDeleted(k) ==
    k \in deleted =>
        /\ \A h \in Registrations(k) :
              h \in uncleared \/ (row[h] = "none" /\ Registering(h) = {})
        /\ Stored(k) => \E h \in Registrations(k) : h \in uncleared

DeletedInv ==
    \A k \in Passkeys :
        FromOneCeremony(k) /\ ClearedOnceStored(k) /\ SpentOnceDeleted(k)

LEMMA RegistrationsAreIssued ==
    ASSUME Facts, NEW k \in Passkeys, NEW h \in Registrations(k)
    PROVE /\ h \in Challenges /\ ceremony[h] # NoCeremony
          /\ response[h] # NoResponse
BY WebAuthnAssumption
   DEF Registrations, Facts, IssuedFirst, NoResponse

LEMMA WhoRegistersAnew ==
    ASSUME Facts, [WebAuthnNext]_vars, NEW k \in Passkeys
    PROVE /\ Registrations(k) \subseteq Registrations(k)'
          /\ \A h \in Registrations(k)' :
                h \in Registrations(k) \/ (Respond(h, k) /\ Registrations(k) = {})
          /\ \A h \in Registrations(k)' :
                Registrations(k) = {} => \A g \in Registrations(k)' : g = h
<1>1. Registrations(k) \subseteq Registrations(k)'
  <2> SUFFICES ASSUME NEW h \in Registrations(k)
               PROVE h \in Registrations(k)'
    OBVIOUS
  <2> QED
    BY RegistrationsAreIssued, IssuedForGood DEF Registrations
<1>2. ASSUME NEW h \in Challenges, NEW j \in Passkeys, Respond(h, j)
      PROVE /\ ceremony' = ceremony /\ response'[h].passkey = j
            /\ \A g \in Challenges \ {h} : response'[g] = response[g]
            /\ ceremony[h].kind = "registration" =>
                   \A g \in Challenges : response[g].passkey # j
  BY <1>2 DEF Respond, Facts, WebAuthnTypeOK
<1>3. ASSUME NEW h \in Registrations(k)', h \notin Registrations(k)
      PROVE /\ Respond(h, k) /\ Registrations(k) = {}
            /\ \A g \in Registrations(k)' : g = h
  <2>1. /\ h \in Challenges /\ ceremony'[h].kind = "registration"
        /\ response'[h].passkey = k
    BY DEF Registrations
  <2>2. response'[h] # response[h]
    <3>1. ASSUME response'[h] = response[h] PROVE FALSE
      <4>1. ceremony[h] # NoCeremony
        BY <2>1, <3>1, WebAuthnAssumption DEF Facts, IssuedFirst, NoResponse
      <4> QED
        BY <1>3, <2>1, <3>1, <4>1, IssuedForGood DEF Registrations
    <3> QED
      BY <3>1
  <2>3. PICK j \in Passkeys : Respond(h, j)
    BY <2>1, <2>2, IssuedForGood
  <2>4. j = k /\ ceremony[h].kind = "registration"
    BY <1>2, <2>1, <2>3
  <2> QED
    BY <1>2, <2>1, <2>3, <2>4 DEF Registrations
<1> QED
  BY <1>1, <1>3

LEMMA WhoRegisters ==
    ASSUME Facts, [WebAuthnNext]_vars, NEW h \in Challenges,
           NEW q \in Registering(h)'
    PROVE q \in Registering(h) \/ ReadForRegistration(q, h)
<1>0. /\ q \in Requests /\ request'[q].kind = "registration"
      /\ request'[q].challenge = h /\ h # None
      /\ request[q] \in Request
  BY WebAuthnAssumption DEF Registering, Facts, WebAuthnTypeOK
<1>1. ASSUME request'[q].kind = request[q].kind,
             request'[q].challenge = request[q].challenge
      PROVE q \in Registering(h)
  BY <1>0, <1>1 DEF Registering
<1>2. CASE request'[q] = Idle
  BY <1>0, <1>2, IdleIsARequest
<1>3. ASSUME NEW u \in Users, NEW kind \in {"registration", "authentication"},
             Begin(q, u, kind)
      PROVE FALSE
  <2> DEFINE record == [Idle EXCEPT !.pc = "beginning", !.user = u, !.kind = kind]
  <2>1. Start(q, record) /\ record.challenge = None
    BY <1>3 DEF Begin, Idle
  <2> HIDE DEF record
  <2> QED
    BY <1>0, <2>1, StartOthers
<1>4. ASSUME NEW g \in Challenges, ReadForRegistration(q, g)
      PROVE g = h
  <2> DEFINE record == [Idle EXCEPT !.pc = "creating", !.user = ceremony[g].user,
                                    !.kind = "registration", !.challenge = g]
  <2>1. Start(q, record) /\ record.challenge = g
    BY <1>4 DEF ReadForRegistration, Idle
  <2> HIDE DEF record
  <2> QED
    BY <1>0, <2>1, StartOthers
<1>5. ASSUME NEW g \in Challenges, LoadForLogin(q, g) PROVE FALSE
  <2> DEFINE record == [pc |-> "loaded", user |-> ceremony[g].user,
                        kind |-> "authentication", challenge |-> g,
                        count |-> passkey[response[g].passkey].count]
  <2>1. Start(q, record) /\ record.kind = "authentication"
    BY <1>5 DEF LoadForLogin
  <2> HIDE DEF record
  <2> QED
    BY <1>0, <2>1, StartOthers
<1>6. ASSUME NEW g \in Challenges, Find(q, g) PROVE FALSE
  <2> DEFINE record == [Idle EXCEPT !.pc = "found", !.kind = "discoverable",
                                    !.challenge = g]
  <2>1. Start(q, record) /\ record.kind = "discoverable"
    BY <1>6 DEF Find, Idle
  <2> HIDE DEF record
  <2> QED
    BY <1>0, <2>1, StartOthers
<1>7. CASE Identify(q)
  <2>1. request'[q] = [request[q] EXCEPT !.pc = "validated",
                                         !.user = passkey[Presented(q)].user,
                                         !.count = passkey[Presented(q)].count]
    BY <1>0, <1>7 DEF Identify, Facts, WebAuthnTypeOK
  <2> QED
    BY <1>0, <1>1, <2>1 DEF Request
<1>8. ASSUME NEW pc, GoTo(q, pc)
      PROVE q \in Registering(h)
  <2>1. request'[q] = [request[q] EXCEPT !.pc = pc]
    BY <1>0, <1>8, GoToOthers
  <2> QED
    BY <1>0, <1>1, <2>1 DEF Request
<1>9. ASSUME Updated(q) PROVE q \in Registering(h)
  <2>1. request'[q] = [request[q] EXCEPT !.pc = "clearing", !.count = 0]
    BY <1>0, <1>9, UpdatedOthers
  <2> QED
    BY <1>0, <1>1, <2>1 DEF Request
<1>10. CASE Done(q)
  BY <1>0, <1>2, <1>10, DoneOthers
<1>11. CASE ReadSession(q) \/ IdentifyAgain(q) \/ CreatePasskey(q)
  BY <1>8, <1>11 DEF ReadSession, IdentifyAgain, CreatePasskey
<1>12. CASE UpdateUsage(q) \/ UpdateUsageFailed(q)
  BY <1>9, <1>12 DEF UpdateUsage, UpdateUsageFailed
<1>13. CASE Clear(q) \/ ClearFailed(q)
  BY <1>8, <1>10, <1>13 DEF Clear, ClearFailed, AfterClearing
<1> QED
  BY <1>0, <1>1, <1>2, <1>3, <1>4, <1>5, <1>6, <1>7, <1>11, <1>12, <1>13,
     WhoMovesRequests

(* A Finish call about to clear its challenge does so, or fails to. *)
LEMMA ClearingEndsOver ==
    ASSUME Facts, [WebAuthnNext]_vars, NEW q \in Requests, At(q, "clearing"),
           request'[q] # request[q], NEW h \in Challenges,
           h = request[q].challenge
    PROVE Over(h)'
<1>0. request[q].pc = "clearing" /\ request[q] # Idle
  BY IdleIsARequest DEF At
<1>1. h \in ClearedWith(h)
  BY DEF ClearedWith
<1>2. CASE Clear(q)
  BY <1>1, <1>2, WithoutType DEF Clear, Over
<1>3. CASE ClearFailed(q) \/ Fail(q)
  BY <1>3 DEF ClearFailed, Fail, At, Uncleared, Over
<1>4. CASE request'[q] = Idle
  <2>1. ASSUME NEW r \in Requests, Done(r) PROVE r = q
    BY <1>0, <1>4, <2>1, DoneOthers
  <2>2. \A r \in Requests, g \in Challenges :
           ~Issue(r, g) /\ ~FindLapsed(r, g)
    BY <1>0, <2>1, IdleIsARequest DEF Issue, FindLapsed, At
  <2>3. \A r \in Requests : ~OpenSession(r)
    BY <1>0, <2>1 DEF OpenSession, At
  <2>4. ASSUME NEW r \in Requests, Clear(r) \/ ClearFailed(r) \/ Fail(r)
        PROVE r = q
    <3>1. CASE Done(r)
      BY <2>1, <3>1
    <3>2. CASE GoTo(r, "opening")
      <4>1. request[r] \in Request
        BY DEF Facts, WebAuthnTypeOK
      <4>2. request'[r] = [request[r] EXCEPT !.pc = "opening"]
        BY <3>2, GoToOthers
      <4>3. request'[r].pc = "opening"
        BY <4>1, <4>2 DEF Request
      <4> QED
        BY <1>0, <1>4, <3>2, GoToOthers
    <3> QED
      BY <2>4, <3>1, <3>2 DEF Clear, ClearFailed, Fail, AfterClearing
  <2>5. ASSUME NEW r \in Requests, NEW record, Start(r, record) PROVE FALSE
    BY <1>0, <1>4, <2>5, StartOthers DEF Start, At
  <2>6. \A r \in Requests, u \in Users :
           ~BeginRegistration(r, u) /\ ~BeginLogin(r, u)
    BY <2>5 DEF BeginRegistration, BeginLogin, Begin
  <2>7. \A r \in Requests, g \in Challenges :
           ~ReadForRegistration(r, g) /\ ~LoadForLogin(r, g) /\ ~Find(r, g)
    BY <2>5 DEF ReadForRegistration, LoadForLogin, Find
  <2>8. ASSUME NEW r \in Requests, request[r].pc # "clearing",
               \A p \in Requests \ {r} : request'[p] = request[p]
        PROVE FALSE
    BY <1>0, <2>8
  <2>9. \A r \in Requests : ~ReadSession(r) /\ ~IdentifyAgain(r) /\ ~CreatePasskey(r)
    BY <2>8, GoToOthers DEF ReadSession, IdentifyAgain, CreatePasskey, At
  <2>10. \A r \in Requests : ~Identify(r)
    BY <2>8 DEF Identify, At, Facts, WebAuthnTypeOK
  <2>11. \A r \in Requests : ~UpdateUsage(r) /\ ~UpdateUsageFailed(r)
    BY <2>8, UpdatedOthers DEF UpdateUsage, UpdateUsageFailed, At
  <2>12. /\ \A g \in Challenges : /\ ~Lapse(g)
                                  /\ \A k \in Passkeys : ~Respond(g, k)
                                  /\ \A old \in SUBSET Challenges :
                                        ~BeginDiscoverable(g, old)
         /\ \A k \in Passkeys : ~DeletePasskey(k)
         /\ ~UNCHANGED vars
    BY DEF Lapse, Respond, BeginDiscoverable, DeletePasskey, vars
  <2> QED
    BY <1>2, <1>3, <2>2, <2>3, <2>4, <2>6, <2>7, <2>9, <2>10, <2>11, <2>12
       DEF WebAuthnNext, FinishRegistration, FinishLogin, CleanUp
<1>5. CASE \E u \in Users, kind \in {"registration", "authentication"} :
             Begin(q, u, kind)
  BY <1>0, <1>5 DEF Begin, Start, At
<1>6. CASE \E g \in Challenges : \/ ReadForRegistration(q, g)
                               \/ LoadForLogin(q, g) \/ Find(q, g)
  BY <1>0, <1>6 DEF ReadForRegistration, LoadForLogin, Find, Start, At
<1>7. CASE \/ Identify(q) \/ ReadSession(q) \/ IdentifyAgain(q)
           \/ UpdateUsage(q) \/ UpdateUsageFailed(q) \/ CreatePasskey(q)
  BY <1>0, <1>7 DEF Identify, ReadSession, IdentifyAgain, UpdateUsage,
                    UpdateUsageFailed, CreatePasskey, At
<1> QED
  BY <1>2, <1>3, <1>4, <1>5, <1>6, <1>7, WhoMovesRequests

(* A passkey comes to be stored by a Finish call of its registration. *)
LEMMA WhoStoresPasskeys ==
    ASSUME Facts, [WebAuthnNext]_vars, NEW k \in Passkeys, Stored(k)', ~Stored(k)
    PROVE \E r \in Requests :
             /\ CreatePasskey(r)
             /\ request[r].challenge \in Registrations(k)
             /\ r \in Registering(request[r].challenge)
             /\ request'[r].kind = "registration"
             /\ request'[r].challenge = request[r].challenge
             /\ request'[r].pc = "clearing"
<1>1. passkey'[k] # passkey[k]
  BY DEF Stored
<1>2. ~DeletePasskey(k)
  BY DEF DeletePasskey
<1>3. ASSUME NEW r \in Requests, UpdateUsage(r), Presented(r) = k PROVE FALSE
  BY <1>1, <1>3 DEF UpdateUsage
<1>4. PICK r \in Requests : CreatePasskey(r) /\ Presented(r) = k
  BY <1>1, <1>2, <1>3, WhoChangesPasskeys
<1>5. /\ request[r].kind = "registration" /\ request[r].challenge \in Challenges
      /\ ceremony[request[r].challenge].kind = "registration"
  BY <1>4 DEF CreatePasskey, At, Facts, FinishesAnswers, Finishing
<1>6. /\ request'[r] = [request[r] EXCEPT !.pc = "clearing"]
      /\ request[r] \in Request
  BY <1>4, GoToOthers DEF CreatePasskey, Facts, WebAuthnTypeOK
<1>7. /\ request'[r].pc = "clearing" /\ request'[r].kind = request[r].kind
      /\ request'[r].challenge = request[r].challenge
  BY <1>6 DEF Request
<1>8. r \in Registering(request[r].challenge)
  BY <1>5 DEF Registering
<1> QED
  BY <1>4, <1>5, <1>7, <1>8 DEF Registrations, Presented

LEMMA FromOneCeremonyStep ==
    ASSUME Facts, DeletedInv, [WebAuthnNext]_vars, NEW k \in Passkeys
    PROVE FromOneCeremony(k)'
<1>1. FromOneCeremony(k)
  BY DEF DeletedInv
<1>2. \A g, h \in Registrations(k)' : g = h
  BY <1>1, WhoRegistersAnew DEF FromOneCeremony
<1>3. ASSUME Stored(k)' \/ k \in deleted'
      PROVE Registrations(k) # {}
  <2>1. CASE Stored(k) \/ k \in deleted
    BY <1>1, <2>1 DEF FromOneCeremony
  <2>2. CASE Stored(k)' /\ ~Stored(k)
    BY <2>2, WhoStoresPasskeys
  <2>3. CASE k \in deleted' \ deleted
    BY <1>1, <2>3, HistoryGrows DEF DeletePasskey, FromOneCeremony
  <2> QED
    BY <1>3, <2>1, <2>2, <2>3
<1> QED
  BY <1>2, <1>3, WhoRegistersAnew DEF FromOneCeremony

LEMMA ClearedOnceStoredStep ==
    ASSUME Facts, DeletedInv, [WebAuthnNext]_vars, NEW k \in Passkeys
    PROVE ClearedOnceStored(k)'
<1> SUFFICES ASSUME Stored(k)', NEW h \in Registrations(k)'
             PROVE Over(h)' \/ \E q \in Registering(h)' : At(q, "clearing")'
  BY DEF ClearedOnceStored
<1>1. FromOneCeremony(k) /\ ClearedOnceStored(k)
  BY DEF DeletedInv
<1>2. Registrations(k) # {}
  BY <1>1, WhoStoresPasskeys DEF FromOneCeremony
<1>3. h \in Registrations(k) /\ h \in Challenges /\ ceremony[h] # NoCeremony
  BY <1>2, WhoRegistersAnew, RegistrationsAreIssued
<1>4. CASE Over(h)
  BY <1>3, <1>4, OverStays
<1>5. ASSUME NEW q \in Registering(h), At(q, "clearing")
      PROVE Over(h)' \/ \E p \in Registering(h)' : At(p, "clearing")'
  <2>1. q \in Requests /\ request[q].challenge = h
    BY DEF Registering
  <2>2. CASE request'[q] = request[q]
    BY <1>5, <2>2 DEF Registering, At
  <2>3. CASE request'[q] # request[q]
    BY <1>3, <1>5, <2>1, <2>3, ClearingEndsOver
  <2> QED
    BY <2>2, <2>3
<1>6. CASE ~Stored(k)
  <2>1. PICK r \in Requests :
             /\ request[r].challenge \in Registrations(k)
             /\ request'[r].kind = "registration"
             /\ request'[r].challenge = request[r].challenge
             /\ request'[r].pc = "clearing"
    BY <1>6, WhoStoresPasskeys
  <2>2. request[r].challenge = h
    BY <1>1, <1>3, <2>1 DEF FromOneCeremony
  <2>3. r \in Registering(h)'
    BY <2>1, <2>2 DEF Registering
  <2> QED
    BY <2>1, <2>3 DEF At
<1> QED
  BY <1>1, <1>3, <1>4, <1>5, <1>6 DEF ClearedOnceStored

LEMMA SpentOnceDeletedStep ==
    ASSUME Facts, DeletedInv, [WebAuthnNext]_vars, NEW k \in Passkeys
    PROVE SpentOnceDeleted(k)'
<1> SUFFICES ASSUME k \in deleted'
             PROVE /\ \A h \in Registrations(k)' :
                         \/ h \in uncleared'
                         \/ row'[h] = "none" /\ Registering(h)' = {}
                   /\ Stored(k)' =>
                         \E h \in Registrations(k)' : h \in uncleared'
  BY DEF SpentOnceDeleted
<1>0. FromOneCeremony(k) /\ ClearedOnceStored(k) /\ SpentOnceDeleted(k)
  BY DEF DeletedInv
<1>1. CASE k \in deleted
  <2>0. Registrations(k)' = Registrations(k)
    BY <1>0, <1>1, WhoRegistersAnew DEF FromOneCeremony
  <2>1. ASSUME NEW h \in Registrations(k), h \notin uncleared'
        PROVE row'[h] = "none" /\ Registering(h)' = {}
    <3>1. row[h] = "none" /\ Registering(h) = {}
      BY <1>0, <1>1, <2>1, HistoryGrows DEF SpentOnceDeleted
    <3>2. h \in Challenges /\ ceremony[h] # NoCeremony /\ Over(h)
      BY <3>1, RegistrationsAreIssued DEF Over
    <3>3. row'[h] = "none"
      BY <2>1, <3>2, OverStays DEF Over
    <3>4. \A q : ~ReadForRegistration(q, h)
      BY <3>1 DEF ReadForRegistration
    <3> QED
      BY <3>1, <3>2, <3>3, <3>4, WhoRegisters
  <2>2. ASSUME Stored(k)'
        PROVE \E h \in Registrations(k) : h \in uncleared
    <3>1. CASE Stored(k)
      BY <1>0, <1>1, <3>1 DEF SpentOnceDeleted
    <3>2. CASE ~Stored(k)
      <4>1. PICK r \in Requests :
                 /\ request[r].challenge \in Registrations(k)
                 /\ r \in Registering(request[r].challenge)
        BY <2>2, <3>2, WhoStoresPasskeys
      <4> QED
        BY <1>0, <1>1, <4>1 DEF SpentOnceDeleted
    <3> QED
      BY <3>1, <3>2
  <2> QED
    BY <2>0, <2>1, <2>2, HistoryGrows
<1>2. CASE k \notin deleted
  <2>1. DeletePasskey(k)
    BY <1>2, HistoryGrows
  <2>2. /\ UNCHANGED <<row, ceremony, response, request, uncleared>>
        /\ Stored(k) /\ passkey'[k] = NoPasskey
    BY <2>1 DEF DeletePasskey, Facts, WebAuthnTypeOK
  <2>3. ~Stored(k)'
    BY <2>2 DEF Stored, NoPasskey
  <2>4. \A q \in Requests :
           ~(/\ request[q].kind = "registration"
             /\ request[q].challenge # None
             /\ Presented(q) = k)
    BY <1>2, <2>1 DEF DeletePasskey
  <2>5. ASSUME NEW h \in Registrations(k)
        PROVE Registering(h) = {} /\ Over(h)
    <3>1. h \in Challenges /\ response[h].passkey = k /\ h # None
      BY WebAuthnAssumption DEF Registrations
    <3>2. Registering(h) = {}
      BY <2>4, <3>1 DEF Registering, Presented
    <3> QED
      BY <1>0, <2>2, <3>2 DEF ClearedOnceStored
  <2>6. /\ Registrations(k)' = Registrations(k)
        /\ \A h : Registering(h)' = Registering(h)
    BY <2>2 DEF Registrations, Registering
  <2> QED
    BY <2>2, <2>3, <2>5, <2>6 DEF Over
<1> QED
  BY <1>1, <1>2

(* A passkey its user has deleted does not come back, although an answer   *)
(* that registers it may be sent any number of times, unless a Finish call *)
(* with that answer was on its way or its challenge could not be removed.  *)
THEOREM DeletedMeansDeleted == WebAuthnSpec => []DeletedPasskeysStayDeleted
<1>1. WebAuthnInit => DeletedInv
  <2> SUFFICES ASSUME WebAuthnInit, NEW k \in Passkeys
               PROVE FromOneCeremony(k) /\ ClearedOnceStored(k) /\ SpentOnceDeleted(k)
    BY DEF DeletedInv
  <2>1. Registrations(k) = {}
    BY WebAuthnAssumption DEF WebAuthnInit, Registrations, NoResponse
  <2>2. ~Stored(k) /\ k \notin deleted
    BY DEF WebAuthnInit, Stored, NoPasskey
  <2> QED
    BY <2>1, <2>2 DEF FromOneCeremony, ClearedOnceStored, SpentOnceDeleted
<1>2. Facts /\ DeletedInv /\ [WebAuthnNext]_vars => DeletedInv'
  <2> SUFFICES ASSUME Facts, DeletedInv, [WebAuthnNext]_vars, NEW k \in Passkeys
               PROVE /\ FromOneCeremony(k)' /\ ClearedOnceStored(k)'
                     /\ SpentOnceDeleted(k)'
    BY DEF DeletedInv
  <2> QED
    BY FromOneCeremonyStep, ClearedOnceStoredStep, SpentOnceDeletedStep
<1>3. Facts /\ DeletedInv => DeletedPasskeysStayDeleted
  <2> SUFFICES ASSUME Facts, DeletedInv, NEW k \in deleted, Stored(k)
               PROVE \E h \in uncleared : response[h].passkey = k
    BY DEF DeletedPasskeysStayDeleted
  <2>1. k \in Passkeys
    BY DEF Facts, WebAuthnTypeOK
  <2> QED
    BY <2>1 DEF DeletedInv, SpentOnceDeleted, Registrations
<1> QED
  BY <1>1, <1>2, <1>3, AlwaysFacts, PTL DEF WebAuthnSpec

=============================================================================
