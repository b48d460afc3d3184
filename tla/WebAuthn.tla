------------------------------ MODULE WebAuthn ------------------------------
(***************************************************************************)
(* Signing in with passkeys (internal/auth/webauthn.go): registration and  *)
(* sign-in ceremonies over the tables webauthn_credentials and             *)
(* webauthn_sessions.  A Begin call stores the challenge it hands out, a   *)
(* Finish call reads it back, has the library check the response, writes   *)
(* the passkey or its sign count and removes the challenge, one statement  *)
(* at a time and without a transaction, on any number of replicas.         *)
(*                                                                         *)
(* A response is what it proves: the passkey, the challenge and the        *)
(* authenticator's signature counter.  An authenticator answers a          *)
(* challenge once; its answer may arrive late, twice or never.  Responses  *)
(* the library refuses change nothing and are left out, as are names and   *)
(* transports.                                                             *)
(***************************************************************************)
EXTENDS Integers, FiniteSets

CONSTANTS
    Users,      \* accounts
    Passkeys,   \* credential ids authenticators can mint
    Challenges, \* challenge values: random bytes, none comes up twice
    Requests,   \* requests in progress
    None,       \* no user, no passkey, no challenge
    MaxUncleared \* bound on the challenges a Finish call fails to remove

(* ceremony_type *)
Kinds == {"registration", "authentication", "discoverable"}

ASSUME WebAuthnAssumption ==
    /\ None \notin Users \cup Passkeys \cup Challenges \cup Kinds
    /\ IsFiniteSet(Challenges)
    /\ MaxUncleared \in Nat

VARIABLES
    passkey,   \* webauthn_credentials: user and sign count of each passkey
    row,       \* webauthn_sessions: the row of each challenge
    ceremony,  \* user and kind each challenge was issued for, for good
    response,  \* the authenticators' answers: passkey and counter
    request,   \* the requests in progress
    opened,    \* history: challenges a session was opened with
    uncleared, \* history: challenges a Finish call failed to remove
    crowded,   \* history: users and kinds two Begin calls overlapped for
    contested, \* history: passkeys two sign-ins overlapped for
    deleted    \* history: passkeys deleted while none of their Finish calls
               \* was in progress

vars == <<passkey, row, ceremony, response, request, opened, uncleared,
          crowded, contested, deleted>>

NoPasskey == [user |-> None, count |-> 0]
NoCeremony == [user |-> None, kind |-> None]
NoResponse == [passkey |-> None, count |-> 0]

(* beginning: a Begin call between DELETE and INSERT.  A Finish call has   *)
(* loaded: read the user's passkeys; found: read a discoverable challenge; *)
(* validated: passed the library's check; it is updating, creating,        *)
(* clearing, opening: about to write the sign count, insert the passkey,   *)
(* remove the challenge, insert the session.                               *)
Request == [pc        : {"idle", "beginning", "loaded", "found", "validated",
                         "updating", "creating", "clearing", "opening"},
            user      : Users \cup {None},
            kind      : Kinds \cup {None},
            challenge : Challenges \cup {None},
            count     : Nat]

Idle == [pc |-> "idle", user |-> None, kind |-> None, challenge |-> None,
         count |-> 0]

WebAuthnTypeOK ==
    /\ passkey \in [Passkeys -> [user : Users \cup {None}, count : Nat]]
    /\ row \in [Challenges -> {"none", "fresh", "lapsed"}]
    /\ ceremony \in [Challenges -> [user : Users \cup {None},
                                    kind : Kinds \cup {None}]]
    /\ response \in [Challenges -> [passkey : Passkeys \cup {None},
                                    count : Nat]]
    /\ request \in [Requests -> Request]
    /\ opened \in SUBSET Challenges
    /\ uncleared \in SUBSET Challenges
    /\ crowded \in SUBSET (Users \X Kinds)
    /\ contested \in SUBSET Passkeys
    /\ deleted \in SUBSET Passkeys

WebAuthnInit ==
    /\ passkey = [k \in Passkeys |-> NoPasskey]
    /\ row = [h \in Challenges |-> "none"]
    /\ ceremony = [h \in Challenges |-> NoCeremony]
    /\ response = [h \in Challenges |-> NoResponse]
    /\ request = [r \in Requests |-> Idle]
    /\ opened = {}
    /\ uncleared = {}
    /\ crowded = {}
    /\ contested = {}
    /\ deleted = {}

Stored(k) == passkey[k].user # None
PasskeysOf(u) == {k \in Passkeys : passkey[k].user = u}
At(r, pc) == request[r].pc = pc
GoTo(r, pc) == request' = [request EXCEPT ![r].pc = pc]
Start(r, record) == At(r, "idle") /\ request' = [request EXCEPT ![r] = record]
Done(r) == request' = [request EXCEPT ![r] = Idle]

(* The passkey in the response a Finish call was sent. *)
Presented(r) == response[request[r].challenge].passkey

(* The challenges issued for the user and the kind. *)
Issued(u, kind) == {h \in Challenges : ceremony[h] = [user |-> u, kind |-> kind]}

(* DELETE FROM webauthn_sessions, without the challenges hs. *)
Without(hs) == [h \in Challenges |-> IF h \in hs THEN "none" ELSE row[h]]

(* Each replica stamps and compares expiry times with its own clock: rows  *)
(* lapse in any order.                                                     *)
Lapse(h) ==
    /\ row[h] = "fresh"
    /\ row' = [row EXCEPT ![h] = "lapsed"]
    /\ UNCHANGED <<passkey, ceremony, response, request, opened, uncleared,
                   crowded, contested, deleted>>

-----------------------------------------------------------------------------
Crowds(u, kind) ==
    \E q \in Requests : /\ At(q, "beginning")
                        /\ request[q].user = u /\ request[q].kind = kind

(* Mutant: the previous challenge stays. *)
BeginBeside(r, u, kind) ==
    /\ Start(r, [Idle EXCEPT !.pc = "beginning", !.user = u, !.kind = kind])
    /\ crowded' = IF Crowds(u, kind) THEN crowded \cup {<<u, kind>>}
                  ELSE crowded
    /\ UNCHANGED <<passkey, row, ceremony, response, opened, uncleared,
                   contested, deleted>>

(* storeWebAuthnSession: DELETE ... *)
Begin(r, u, kind) ==
    /\ Start(r, [Idle EXCEPT !.pc = "beginning", !.user = u, !.kind = kind])
    /\ row' = Without(Issued(u, kind))
    /\ crowded' = IF Crowds(u, kind) THEN crowded \cup {<<u, kind>>}
                  ELSE crowded
    /\ UNCHANGED <<passkey, ceremony, response, opened, uncleared, contested,
                   deleted>>

(* Whether the user has passkeys does not matter to a registration. *)
BeginRegistration(r, u) == Begin(r, u, "registration")
BeginLogin(r, u) == PasskeysOf(u) # {} /\ Begin(r, u, "authentication")

(* ... and INSERT. *)
Issue(r, h) ==
    /\ At(r, "beginning")
    /\ ceremony[h] = NoCeremony
    /\ ceremony' = [ceremony EXCEPT ![h] = [user |-> request[r].user,
                                            kind |-> request[r].kind]]
    /\ row' = [row EXCEPT ![h] = "fresh"]
    /\ Done(r)
    /\ UNCHANGED <<passkey, response, opened, uncleared, crowded, contested,
                   deleted>>

(* BeginWebAuthnDiscoverableLogin: storeDiscoverableSession prunes rows an *)
(* hour past their expiry, anybody's, and inserts.                         *)
BeginDiscoverable(h, old) ==
    /\ old \subseteq {g \in Challenges : row[g] = "lapsed"}
    /\ ceremony[h] = NoCeremony
    /\ ceremony' = [ceremony EXCEPT ![h] = [user |-> None,
                                            kind |-> "discoverable"]]
    /\ row' = [Without(old) EXCEPT ![h] = "fresh"]
    /\ UNCHANGED <<passkey, response, request, opened, uncleared, crowded,
                   contested, deleted>>

(* The authenticator answers: a registration with a passkey it mints for   *)
(* the challenge, a sign-in with one it holds for the user and its counter,*)
(* which it has increased since its last answer.                           *)
Respond(h, k) ==
    LET of == {g \in Challenges : response[g].passkey = k} IN
    /\ ceremony[h] # NoCeremony
    /\ response[h] = NoResponse
    /\ IF ceremony[h].kind = "registration" THEN of = {}
       ELSE \E g \in of : /\ ceremony[g].kind = "registration"
                          /\ ceremony[h].user \in {ceremony[g].user, None}
    /\ response' = [response EXCEPT ![h] = [passkey |-> k,
                                            count |-> Cardinality(of)]]
    /\ UNCHANGED <<passkey, row, ceremony, request, opened, uncleared, crowded,
                   contested, deleted>>

-----------------------------------------------------------------------------
(* Sign-ins that have read the sign count and not written it. *)
SigningIn(k) == {q \in Requests : /\ At(q, "loaded") \/ At(q, "validated")
                                       \/ At(q, "updating")
                                  /\ request[q].kind # "registration"
                                  /\ Presented(q) = k}

ReadsCountOf(k) ==
    contested' = IF SigningIn(k) # {} THEN contested \cup {k} ELSE contested

(* FinishWebAuthnRegistration is sent the response to h and finds h in a  *)
(* fresh row; the passkeys it has read before do not matter to it.         *)
ReadForRegistration(r, h) ==
    /\ response[h] # NoResponse
    /\ ceremony[h].kind = "registration" /\ row[h] = "fresh"
    /\ Start(r, [Idle EXCEPT !.pc = "creating", !.user = ceremony[h].user,
                             !.kind = "registration", !.challenge = h])
    /\ UNCHANGED <<passkey, row, ceremony, response, opened, uncleared, crowded,
                   contested, deleted>>

(* FinishWebAuthnLogin: getWebAuthnCredentials returns the passkey used. *)
LoadForLogin(r, h) ==
    LET k == response[h].passkey IN
    /\ response[h] # NoResponse /\ ceremony[h].kind = "authentication"
    /\ k \in PasskeysOf(ceremony[h].user)
    /\ Start(r, [pc |-> "loaded", user |-> ceremony[h].user,
                 kind |-> "authentication", challenge |-> h,
                 count |-> passkey[k].count])
    /\ ReadsCountOf(k)
    /\ UNCHANGED <<passkey, row, ceremony, response, opened, uncleared, crowded,
                   deleted>>

(* getWebAuthnSession: the row, any of them if there are several, is fresh *)
(* and its challenge is the one the response answers.                      *)
ReadSession(r) ==
    /\ At(r, "loaded")
    /\ row[request[r].challenge] = "fresh"
    /\ GoTo(r, "updating")
    /\ UNCHANGED <<passkey, row, ceremony, response, opened, uncleared, crowded,
                   contested, deleted>>

(* What a cleanup after h removes: deleteWebAuthnSession every row of its  *)
(* user and kind, newer ones too, deleteDiscoverableSession the row of h.  *)
ClearedWith(h) ==
    IF ceremony[h].kind = "discoverable" THEN {h}
    ELSE {g \in Challenges : ceremony[g] = ceremony[h]}

(* A Finish call finds a lapsed row, cleans up and ends. *)
FindLapsed(r, h) ==
    /\ row[h] = "lapsed"
    /\ IF ceremony[h].kind = "authentication"
       THEN At(r, "loaded") /\ request[r].user = ceremony[h].user
       ELSE At(r, "idle")
    /\ row' = Without(ClearedWith(h))
    /\ Done(r)
    /\ UNCHANGED <<passkey, ceremony, response, opened, uncleared, crowded,
                   contested, deleted>>

(* FinishWebAuthnDiscoverableLogin reads the challenge first, ... *)
Find(r, h) ==
    /\ response[h] # NoResponse
    /\ ceremony[h].kind = "discoverable" /\ row[h] = "fresh"
    /\ Start(r, [Idle EXCEPT !.pc = "found", !.kind = "discoverable",
                             !.challenge = h])
    /\ UNCHANGED <<passkey, row, ceremony, response, opened, uncleared, crowded,
                   contested, deleted>>

(* Mutant: the stored sign count is not loaded. *)
IdentifyWithoutCount(r) ==
    LET k == Presented(r) IN
    /\ At(r, "found")
    /\ Stored(k)
    /\ request' = [request EXCEPT ![r] =
                     [request[r] EXCEPT !.pc = "validated",
                                        !.user = passkey[k].user]]
    /\ ReadsCountOf(k)
    /\ UNCHANGED <<passkey, row, ceremony, response, opened, uncleared, crowded,
                   deleted>>

(* ... then the user by the passkey and the passkeys by the user, ... *)
Identify(r) ==
    LET k == Presented(r) IN
    /\ At(r, "found")
    /\ Stored(k)
    /\ request' = [request EXCEPT ![r] =
                     [request[r] EXCEPT !.pc = "validated",
                                        !.user = passkey[k].user,
                                        !.count = passkey[k].count]]
    /\ ReadsCountOf(k)
    /\ UNCHANGED <<passkey, row, ceremony, response, opened, uncleared, crowded,
                   deleted>>

(* ... and the user by the passkey once more. *)
IdentifyAgain(r) ==
    /\ At(r, "validated")
    /\ Stored(Presented(r))
    /\ GoTo(r, "updating")
    /\ UNCHANGED <<passkey, row, ceremony, response, opened, uncleared, crowded,
                   contested, deleted>>

-----------------------------------------------------------------------------
(* The library keeps the stored counter when the authenticator's is not    *)
(* greater, and only sets a warning, which the code does not read.         *)
NewCount(r) ==
    LET sent == response[request[r].challenge].count IN
    IF sent > request[r].count THEN sent ELSE request[r].count

(* The count read is of no further use. *)
Updated(r) ==
    request' = [request EXCEPT ![r] = [request[r] EXCEPT !.pc = "clearing",
                                                         !.count = 0]]

(* updateCredentialUsage, if the passkey is still there; an error is only  *)
(* logged.                                                                 *)
UpdateUsage(r) ==
    LET k == Presented(r) IN
    /\ At(r, "updating")
    /\ passkey' = IF Stored(k) THEN [passkey EXCEPT ![k].count = NewCount(r)]
                  ELSE passkey
    /\ Updated(r)
    /\ UNCHANGED <<row, ceremony, response, opened, uncleared, crowded,
                   contested, deleted>>

UpdateUsageFailed(r) ==
    /\ At(r, "updating")
    /\ Updated(r)
    /\ UNCHANGED <<passkey, row, ceremony, response, opened, uncleared, crowded,
                   contested, deleted>>

(* storeWebAuthnCredential: credential_id is unique. *)
CreatePasskey(r) ==
    LET k == Presented(r) IN
    /\ At(r, "creating")
    /\ ~Stored(k)
    /\ passkey' = [passkey EXCEPT ![k] = [user |-> request[r].user,
                              count |-> response[request[r].challenge].count]]
    /\ GoTo(r, "clearing")
    /\ UNCHANGED <<row, ceremony, response, opened, uncleared, crowded,
                   contested, deleted>>

(* Mutant: the ceremony is forgotten before the session is opened. *)
AfterForgetting(r) ==
    IF request[r].kind = "registration" THEN Done(r)
    ELSE request' = [request EXCEPT ![r] = [Idle EXCEPT !.pc = "opening"]]

(* A registration is answered then, a sign-in opens its session. *)
AfterClearing(r) ==
    IF request[r].kind = "registration" THEN Done(r) ELSE GoTo(r, "opening")

(* Mutant: sign-ins clear by user and kind, discoverable ones too. *)
ClearByUser(r) ==
    /\ At(r, "clearing")
    /\ row' = Without(Issued(request[r].user, request[r].kind))
    /\ AfterClearing(r)
    /\ UNCHANGED <<passkey, ceremony, response, opened, uncleared, crowded,
                   contested, deleted>>

(* Mutant: a registration leaves its challenge. *)
ClearLogins(r) ==
    /\ At(r, "clearing")
    /\ row' = IF request[r].kind = "registration" THEN row
              ELSE Without(ClearedWith(request[r].challenge))
    /\ AfterClearing(r)
    /\ UNCHANGED <<passkey, ceremony, response, opened, uncleared, crowded,
                   contested, deleted>>

Clear(r) ==
    /\ At(r, "clearing")
    /\ row' = Without(ClearedWith(request[r].challenge))
    /\ AfterClearing(r)
    /\ UNCHANGED <<passkey, ceremony, response, opened, uncleared, crowded,
                   contested, deleted>>

(* The DELETE fails; that is logged and the call goes on. *)
Uncleared(r) ==
    /\ uncleared' = uncleared \cup {request[r].challenge}
    /\ Cardinality(uncleared') <= MaxUncleared

ClearFailed(r) ==
    /\ At(r, "clearing")
    /\ Uncleared(r)
    /\ AfterClearing(r)
    /\ UNCHANGED <<passkey, row, ceremony, response, opened, crowded, contested,
                   deleted>>

(* getUserByID and createSession. *)
OpenSession(r) ==
    /\ At(r, "opening")
    /\ opened' = opened \cup {request[r].challenge}
    /\ Done(r)
    /\ UNCHANGED <<passkey, row, ceremony, response, uncleared, crowded,
                   contested, deleted>>

(* A query fails, the response is for another challenge, the passkey is    *)
(* taken or the replica stops: the request ends where it is.               *)
Fail(r) ==
    /\ ~At(r, "idle")
    /\ Done(r)
    /\ IF At(r, "clearing") THEN Uncleared(r) ELSE UNCHANGED uncleared
    /\ UNCHANGED <<passkey, row, ceremony, response, opened, crowded, contested,
                   deleted>>

(* DeleteWebAuthnCredential. *)
DeletePasskey(k) ==
    /\ Stored(k)
    /\ passkey' = [passkey EXCEPT ![k] = NoPasskey]
    /\ deleted' = IF \E q \in Requests : /\ request[q].kind = "registration"
                                         /\ request[q].challenge # None
                                         /\ Presented(q) = k
                  THEN deleted ELSE deleted \cup {k}
    /\ UNCHANGED <<row, ceremony, response, request, opened, uncleared, crowded,
                   contested>>

-----------------------------------------------------------------------------
(* WebAuthnFinishRegistration *)
FinishRegistration(r) ==
    \/ \E h \in Challenges : ReadForRegistration(r, h)
    \/ CreatePasskey(r)

(* WebAuthnFinishLogin: with a session_id the discoverable kind of call,   *)
(* else with an email.                                                     *)
FinishLogin(r) ==
    \/ \E h \in Challenges : LoadForLogin(r, h) \/ Find(r, h)
    \/ ReadSession(r) \/ Identify(r) \/ IdentifyAgain(r)
    \/ UpdateUsage(r) \/ UpdateUsageFailed(r) \/ OpenSession(r)

CleanUp(r) ==
    \/ \E h \in Challenges : FindLapsed(r, h)
    \/ Clear(r) \/ ClearFailed(r)

WebAuthnNext ==
    \/ \E r \in Requests, u \in Users :
         BeginRegistration(r, u) \/ BeginLogin(r, u)
    \/ \E r \in Requests, h \in Challenges : Issue(r, h)
    \/ \E h \in Challenges, old \in SUBSET Challenges : BeginDiscoverable(h, old)
    \/ \E h \in Challenges : Lapse(h)
    \/ \E h \in Challenges, k \in Passkeys : Respond(h, k)
    \/ \E r \in Requests :
         FinishRegistration(r) \/ FinishLogin(r) \/ CleanUp(r) \/ Fail(r)
    \/ \E k \in Passkeys : DeletePasskey(k)

WebAuthnSpec == WebAuthnInit /\ [][WebAuthnNext]_vars

-----------------------------------------------------------------------------
(* A challenge that has opened a session is no longer stored, unless its   *)
(* removal failed: FinishWebAuthnLogin and its discoverable twin clear the *)
(* ceremony before they call createSession, so that a repeated Finish call *)
(* gets in only while the first is in progress.                            *)
OpenedCeremoniesAreOver ==
    \A h \in opened \ uncleared : row[h] = "none"

(* A user has one challenge of a kind at a time, and a new Begin call      *)
(* replaces it, unless two Begin calls overlapped between the DELETE and   *)
(* the INSERT of storeWebAuthnSession.                                     *)
OneCeremonyAtATime ==
    \A u \in Users, kind \in {"registration", "authentication"} :
        <<u, kind>> \notin crowded =>
            Cardinality({h \in Issued(u, kind) : row[h] # "none"}) <= 1

(* The counter that detects cloned authenticators never goes back, in      *)
(* whatever order answers arrive, unless two sign-ins by the passkey       *)
(* overlapped between reading and writing it (updateCredentialUsage).      *)
SignCountNeverGoesBack ==
    [][\A k \in Passkeys :
          Stored(k) /\ Stored(k)' /\ k \notin contested' =>
              passkey'[k].count >= passkey[k].count]_vars

(* A deleted passkey stays deleted: a registration that is sent again does *)
(* not bring it back, unless it was in progress when the passkey was       *)
(* deleted or its challenge could not be removed.                          *)
DeletedPasskeysStayDeleted ==
    \A k \in deleted :
        Stored(k) => \E h \in uncleared : response[h].passkey = k
=============================================================================
