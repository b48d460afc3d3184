--------------------------- MODULE AccountsProofs ---------------------------
(***************************************************************************)
(* What holds of Accounts for every number of accounts, requests, codes,   *)
(* secrets and tokens.  The inductive invariant follows a recovery code    *)
(* from the batch it is generated in, through the request that spends it,  *)
(* to the reset it pays for: at each moment it is in one of these places.  *)
(*                                                                         *)
(* The second part is of AccountVault, one account with its row: that the  *)
(* vault opens with the secret that signs in, and that the composition     *)
(* implements Accounts and VaultStore, so that what is proved of each      *)
(* holds of the two together.                                              *)
(***************************************************************************)
EXTENDS AccountVault, FiniteSetTheorems, TLAPS

(* What a request carries is there once it is under way. *)
RequestsCarry ==
    \A r \in Requests : request[r].pc # "idle" =>
        /\ request[r].email \in Emails
        /\ request[r].pc \in {"creating", "upgrading"} => request[r].key \in Secrets
        /\ request[r].pc \in {"matched", "spent", "resetting"} => request[r].code \in Codes
        /\ request[r].pc = "resetting" => request[r].key \in Secrets

(* A code that is unused, or has paid for a reset, was generated, and is   *)
(* not both; and no two accounts share an unused code.                     *)
CodesApart ==
    /\ \A e \in Emails : unused[e] \subseteq generated /\ resetBy[e] \subseteq generated
    /\ \A e, f \in Emails : unused[e] \cap resetBy[f] = {}
    /\ \A e, f \in Emails : e # f => unused[e] \cap unused[f] = {}

(* A recovery between the spending of its code and its commit.             *)
Paying(r) == request[r].pc \in {"spent", "resetting"}

(* A code a recovery has spent and not yet used up is held by it alone.    *)
SpentCodesHeld ==
    /\ \A r \in Requests : Paying(r) =>
          /\ request[r].code \in generated
          /\ \A e \in Emails : request[r].code \notin unused[e] \cup resetBy[e]
    /\ \A r, q \in Requests :
          (r # q /\ Paying(r) /\ Paying(q)) => request[r].code # request[q].code

(* CodesResetOnce, with the finiteness that makes cardinalities add up.    *)
ResetLedger ==
    \A e \in Emails : IsFiniteSet(resetBy[e]) /\ Cardinality(resetBy[e]) = resets[e]

(* RevokedSessionsAreGone, and why a commit makes it so: of the sessions   *)
(* that were there when its DELETE ran, it removes every one.              *)
SessionsRevoked ==
    /\ \A s \in sessions : s.token \in issued
    /\ \A e \in Emails : revoked[e] \subseteq issued
    /\ \A r \in Requests :
          /\ request[r].before \subseteq issued
          /\ request[r].pc = "resetting" =>
               \A s \in sessions :
                  (s.email = request[r].email /\ s.token \in request[r].before)
                      => s \in request[r].rows
    /\ RevokedSessionsAreGone

AccountsInv ==
    /\ TypeOK
    /\ RequestsCarry
    /\ CodesApart
    /\ SpentCodesHeld
    /\ ResetLedger
    /\ SessionsRevoked

-----------------------------------------------------------------------------
LEMMA IdleTyped == Idle \in Request
BY DEF Idle, Request

(* The invariant holds at the start. *)
LEMMA InitInv == Init => AccountsInv
<1> SUFFICES ASSUME Init PROVE AccountsInv
  OBVIOUS
<1>1. TypeOK
  BY IdleTyped DEF Init, TypeOK, Account, NoAccount
<1>2. RequestsCarry /\ SpentCodesHeld
  BY DEF Init, RequestsCarry, SpentCodesHeld, Paying, Idle
<1>3. CodesApart
  BY DEF Init, CodesApart
<1>4. ResetLedger
  BY FS_EmptySet DEF Init, ResetLedger
<1>5. SessionsRevoked
  BY DEF Init, SessionsRevoked, RevokedSessionsAreGone, Idle
<1> QED
  BY <1>1, <1>2, <1>3, <1>4, <1>5 DEF AccountsInv

(* Every step is one of the named actions. *)
LEMMA NextActions ==
    ASSUME Next
    PROVE \/ \E r \in Requests, e \in Emails, key \in Secrets : Register(r, e, key)
          \/ \E r \in Requests, e \in Emails, key, password \in Secrets \cup {None} :
                Login(r, e, key, password)
          \/ \E r \in Requests, e \in Emails, code \in Codes,
                key \in Secrets \cup {None} : Recover(r, e, code, key)
          \/ \E r \in Requests, s \in sessions : Regenerate(r, s)
          \/ \E r \in Requests :
                \/ CreateAccount(r) \/ CreateRefused(r)
                \/ Upgrade(r) \/ OpenSession(r)
                \/ MarkUsed(r) \/ CodeGone(r) \/ NewKeyRefused(r)
                \/ DeleteSessions(r) \/ Reset(r)
                \/ DeleteCodes(r) \/ CommitCodes(r) \/ Fail(r)
          \/ \E s \in sessions : CloseSession(s)
BY DEF Next, Arrive, Proceed

(* A request that goes on to another stage is still a request. *)
LEMMA GoToTyped ==
    ASSUME request \in [Requests -> Request], NEW r \in Requests,
           NEW pc \in {"creating", "upgrading", "opening", "matched", "spent",
                      "resetting", "regenerating", "deleted"},
           GoTo(r, pc)
    PROVE request' \in [Requests -> Request]
<1> DEFINE state == [request[r] EXCEPT !.pc = pc]
<1>1. request[r] \in Request
  OBVIOUS
<1>2. state \in Request
  BY <1>1, SMTT(30) DEF Request
<1>3. request' = [request EXCEPT ![r] = state]
  BY DEF GoTo
<1> HIDE DEF state
<1> QED
  BY <1>2, <1>3

(* A step that only gives one request another state, in which it pays with *)
(* no code, keeps the invariant when that state is well formed.            *)
LEMMA RequestStep ==
    ASSUME AccountsInv, NEW r \in Requests, NEW state \in Request,
           request' = [request EXCEPT ![r] = state],
           state.pc \notin {"spent", "resetting"}, state.before \subseteq issued,
           state.pc # "idle" =>
              /\ state.email \in Emails
              /\ state.pc \in {"creating", "upgrading"} => state.key \in Secrets
              /\ state.pc = "matched" => state.code \in Codes,
           UNCHANGED <<account, unused, used, generated, sessions, issued,
                       resets, resetBy, revoked>>
    PROVE AccountsInv'
<1> USE DEF AccountsInv
<1>1. TypeOK'
  BY DEF TypeOK
<1>2. request'[r] = state /\ \A q \in Requests \ {r} : request'[q] = request[q]
  BY DEF TypeOK
<1>3. RequestsCarry'
  BY <1>2 DEF RequestsCarry
<1>4. CodesApart'
  BY DEF CodesApart
<1>5. SpentCodesHeld'
  BY <1>2 DEF SpentCodesHeld, Paying
<1>6. ResetLedger'
  BY DEF ResetLedger
<1>7. SessionsRevoked'
  BY <1>2 DEF SessionsRevoked, RevokedSessionsAreGone
<1> QED
  BY <1>1, <1>3, <1>4, <1>5, <1>6, <1>7

(* What does not reset, and hands out no session, revokes as before.       *)
LEMMA RevokedKept ==
    ASSUME SessionsRevoked, UNCHANGED <<sessions, issued, revoked>>,
           \A q \in Requests :
              /\ request'[q].before \subseteq issued
              /\ request'[q].pc = "resetting" => request'[q] = request[q]
    PROVE  SessionsRevoked'
BY DEF SessionsRevoked, RevokedSessionsAreGone

(* Generating a batch for an account: its codes are new to every ledger.   *)
LEMMA BatchStep ==
    ASSUME AccountsInv, NEW e \in Emails, NEW batch \in FreshBatches,
           NEW keep \in SUBSET unused[e],
           unused' = [unused EXCEPT ![e] = keep \cup batch],
           generated' = generated \cup batch,
           UNCHANGED resetBy
    PROVE CodesApart'
<1> USE DEF AccountsInv, TypeOK
<1>1. batch \subseteq Codes /\ batch \cap generated = {}
  BY DEF FreshBatches
<1>2. unused'[e] = keep \cup batch /\ \A f \in Emails \ {e} : unused'[f] = unused[f]
  OBVIOUS
<1>3. \A f \in Emails : unused'[f] \subseteq generated' /\ resetBy'[f] \subseteq generated'
  BY <1>2 DEF CodesApart
<1>4. \A f, g \in Emails : unused'[f] \cap resetBy'[g] = {}
  BY <1>1, <1>2 DEF CodesApart
<1>5. \A f, g \in Emails : f # g => unused'[f] \cap unused'[g] = {}
  BY <1>1, <1>2 DEF CodesApart
<1> QED
  BY <1>3, <1>4, <1>5 DEF CodesApart

LEMMA CreateAccountStep ==
    ASSUME AccountsInv, NEW r \in Requests, CreateAccount(r)
    PROVE AccountsInv'
<1> DEFINE e == request[r].email
<1> USE DEF AccountsInv
<1>1. e \in Emails /\ request[r].key \in Secrets
  BY DEF CreateAccount, At, RequestsCarry
<1>2. PICK batch \in FreshBatches : /\ unused' = [unused EXCEPT ![e] = batch]
                                   /\ generated' = generated \cup batch
  BY DEF CreateAccount
<1>3. batch \subseteq Codes /\ batch \cap generated = {}
  BY <1>2 DEF FreshBatches
<1>4. request'[r] = [request[r] EXCEPT !.pc = "opening"]
      /\ \A q \in Requests \ {r} : request'[q] = request[q]
  BY DEF CreateAccount, GoTo, TypeOK
<1>5. request' \in [Requests -> Request]
  BY GoToTyped DEF CreateAccount, TypeOK
<1>6. account' \in [Emails -> Account \cup {NoAccount}]
  BY <1>1 DEF CreateAccount, TypeOK, Account
<1>7. TypeOK'
  BY <1>2, <1>3, <1>5, <1>6 DEF CreateAccount, TypeOK
<1>8. RequestsCarry'
  BY <1>1, <1>4 DEF RequestsCarry, TypeOK, Request
<1>9. CodesApart'
  <2> DEFINE keep == {}
  <2>1. unused' = [unused EXCEPT ![e] = keep \cup batch]
    BY <1>2
  <2>2. keep \in SUBSET unused[e]
    OBVIOUS
  <2>3. UNCHANGED resetBy
    BY DEF CreateAccount
  <2> HIDE DEF keep
  <2> QED
    BY <1>1, <1>2, <2>1, <2>2, <2>3, BatchStep
<1>10. SpentCodesHeld'
  BY <1>1, <1>2, <1>3, <1>4 DEF CreateAccount, SpentCodesHeld, Paying, TypeOK, Request
<1>11. ResetLedger'
  BY DEF CreateAccount, ResetLedger
<1>12. SessionsRevoked'
  BY <1>4, RevokedKept DEF CreateAccount, SessionsRevoked, TypeOK, Request
<1> QED
  BY <1>7, <1>8, <1>9, <1>10, <1>11, <1>12

LEMMA UpgradeStep ==
    ASSUME AccountsInv, NEW r \in Requests, Upgrade(r)
    PROVE AccountsInv'
<1> USE DEF AccountsInv
<1>1. request[r].email \in Emails /\ request[r].key \in Secrets
  BY DEF Upgrade, At, RequestsCarry
<1>2. request'[r] = [request[r] EXCEPT !.pc = "opening"]
      /\ \A q \in Requests \ {r} : request'[q] = request[q]
  BY DEF Upgrade, GoTo, TypeOK
<1>3. request' \in [Requests -> Request]
  BY GoToTyped DEF Upgrade, TypeOK
<1>4. account' \in [Emails -> Account \cup {NoAccount}]
  BY <1>1 DEF Upgrade, TypeOK, Account
<1>5. TypeOK'
  BY <1>3, <1>4 DEF Upgrade, TypeOK
<1>6. RequestsCarry'
  BY <1>1, <1>2 DEF RequestsCarry, TypeOK, Request
<1>7. CodesApart' /\ ResetLedger'
  BY DEF Upgrade, CodesApart, ResetLedger
<1>8. SpentCodesHeld'
  BY <1>2 DEF Upgrade, SpentCodesHeld, Paying, TypeOK, Request
<1>9. SessionsRevoked'
  BY <1>2, RevokedKept DEF Upgrade, SessionsRevoked, TypeOK, Request
<1> QED
  BY <1>5, <1>6, <1>7, <1>8, <1>9

LEMMA OpenSessionStep ==
    ASSUME AccountsInv, NEW r \in Requests, OpenSession(r)
    PROVE AccountsInv'
<1> DEFINE e == request[r].email
<1> USE DEF AccountsInv
<1>1. e \in Emails
  BY DEF OpenSession, At, RequestsCarry
<1>2. PICK token \in Tokens \ issued :
          /\ sessions' = sessions \cup {[token |-> token, email |-> e,
                                         proved |-> request[r].epoch]}
          /\ issued' = issued \cup {token}
  BY DEF OpenSession
<1>3. request'[r] = Idle /\ \A q \in Requests \ {r} : request'[q] = request[q]
  BY DEF OpenSession, Done, TypeOK
<1>4. request' \in [Requests -> Request]
  BY IdleTyped DEF OpenSession, Done, TypeOK
<1>5. [token |-> token, email |-> e, proved |-> request[r].epoch] \in Session
  BY <1>1 DEF TypeOK, Request, Session
<1>6. TypeOK'
  BY <1>2, <1>4, <1>5 DEF OpenSession, TypeOK
<1>7. RequestsCarry' /\ SpentCodesHeld'
  BY <1>3 DEF OpenSession, RequestsCarry, SpentCodesHeld, Paying, Idle
<1>8. CodesApart' /\ ResetLedger'
  BY DEF OpenSession, CodesApart, ResetLedger
<1>9. SessionsRevoked'
  <2>1. \A s \in sessions' : s \in sessions \/ (s.token = token /\ s.email = e)
    BY <1>2
  <2>2. token \notin issued /\ UNCHANGED revoked
    BY <1>2 DEF OpenSession
  <2>3. \A q \in Requests :
           /\ request'[q].before \subseteq issued
           /\ request'[q].pc = "resetting" => request'[q] = request[q]
    BY <1>3 DEF SessionsRevoked, Idle
  <2>4. \A s \in sessions' : s.token \in issued'
    BY <1>2, <2>1 DEF SessionsRevoked
  <2>5. \A q \in Requests : request'[q].pc = "resetting" =>
           \A s \in sessions' :
              (s.email = request'[q].email /\ s.token \in request'[q].before)
                  => s \in request'[q].rows
    <3> SUFFICES ASSUME NEW q \in Requests, request'[q].pc = "resetting",
                        NEW s \in sessions',
                        s.email = request'[q].email, s.token \in request'[q].before
                 PROVE  s \in request'[q].rows
      OBVIOUS
    <3>1. request'[q] = request[q] /\ s.token \in issued
      BY <2>3
    <3>2. s \in sessions
      BY <2>1, <2>2, <3>1
    <3> QED
      BY <3>1, <3>2 DEF SessionsRevoked
  <2>6. ASSUME NEW s \in sessions' PROVE s.token \notin revoked'[s.email]
    <3>1. CASE s \in sessions
      BY <2>2, <3>1 DEF SessionsRevoked, RevokedSessionsAreGone
    <3>2. CASE s.token = token /\ s.email = e
      BY <1>1, <2>2, <3>2 DEF SessionsRevoked
    <3> QED
      BY <2>1, <3>1, <3>2
  <2> QED
    BY <1>2, <2>2, <2>3, <2>4, <2>5, <2>6 DEF SessionsRevoked, RevokedSessionsAreGone
<1> QED
  BY <1>6, <1>7, <1>8, <1>9

LEMMA MarkUsedStep ==
    ASSUME AccountsInv, NEW r \in Requests, MarkUsed(r)
    PROVE AccountsInv'
<1> DEFINE e == request[r].email
           code == request[r].code
<1> USE DEF AccountsInv
<1>1. e \in Emails /\ code \in Codes /\ code \in unused[e]
  BY DEF MarkUsed, At, RequestsCarry
<1>2. unused'[e] = unused[e] \ {code}
      /\ \A f \in Emails \ {e} : unused'[f] = unused[f]
  BY <1>1 DEF MarkUsed, TypeOK
<1>3. request'[r] = [request[r] EXCEPT !.pc = "spent"]
      /\ \A q \in Requests \ {r} : request'[q] = request[q]
  BY DEF MarkUsed, GoTo, TypeOK
<1>4. request' \in [Requests -> Request]
  BY GoToTyped DEF MarkUsed, TypeOK
<1>5. TypeOK'
  BY <1>1, <1>4 DEF MarkUsed, TypeOK
<1>6. RequestsCarry'
  BY <1>1, <1>3 DEF RequestsCarry, TypeOK, Request
<1>7. CodesApart'
  BY <1>2 DEF MarkUsed, CodesApart
<1>8. SpentCodesHeld'
  <2>1. request'[r].code = code /\ request'[r].pc = "spent"
    BY <1>3 DEF TypeOK, Request
  <2>2. code \in generated'
    BY <1>1 DEF MarkUsed, CodesApart
  <2>3. \A f \in Emails : code \notin unused'[f] \cup resetBy'[f]
    BY <1>1, <1>2 DEF MarkUsed, CodesApart
  <2>4. \A q \in Requests \ {r} : Paying(q) =>
           /\ request[q].code \in generated'
           /\ request[q].code # code
           /\ \A f \in Emails : request[q].code \notin unused'[f] \cup resetBy'[f]
    BY <1>1, <1>2 DEF MarkUsed, SpentCodesHeld, Paying
  <2>a. \A q \in Requests \ {r} : Paying(q)' => Paying(q)
    BY <1>3 DEF Paying
  <2>5. ASSUME NEW q \in Requests, Paying(q)'
        PROVE /\ request'[q].code \in generated'
              /\ \A f \in Emails : request'[q].code \notin unused'[f] \cup resetBy'[f]
    <3>1. CASE q = r
      BY <3>1, <2>1, <2>2, <2>3
    <3>2. CASE q # r
      BY <3>2, <2>5, <2>4, <2>a, <1>3
    <3> QED
      BY <3>1, <3>2
  <2>6. ASSUME NEW p \in Requests, NEW q \in Requests, p # q,
               Paying(p)', Paying(q)'
        PROVE request'[p].code # request'[q].code
    <3>1. CASE p = r
      BY <3>1, <2>6, <2>1, <2>4, <2>a, <1>3
    <3>2. CASE q = r
      BY <3>2, <2>6, <2>1, <2>4, <2>a, <1>3
    <3>3. CASE p # r /\ q # r
      BY <3>3, <2>6, <2>a, <1>3 DEF SpentCodesHeld
    <3> QED
      BY <3>1, <3>2, <3>3
  <2> QED
    BY <2>5, <2>6 DEF SpentCodesHeld, Paying
<1>9. ResetLedger'
  BY DEF MarkUsed, ResetLedger
<1>10. SessionsRevoked'
  BY <1>3, RevokedKept DEF MarkUsed, SessionsRevoked, TypeOK, Request
<1> QED
  BY <1>5, <1>6, <1>7, <1>8, <1>9, <1>10

LEMMA DeleteSessionsStep ==
    ASSUME AccountsInv, NEW r \in Requests, DeleteSessions(r)
    PROVE AccountsInv'
<1> DEFINE e == request[r].email
           rows == {s \in sessions : s.email = e}
           state == [request[r] EXCEPT !.pc = "resetting", !.rows = rows,
                                       !.before = issued]
<1> USE DEF AccountsInv
<1>1. /\ e \in Emails /\ request[r].code \in Codes /\ request[r].key \in Secrets
      /\ Paying(r)
  BY DEF DeleteSessions, At, RequestsCarry, TypeOK, Request, Paying
<1>2. /\ state.pc = "resetting" /\ state.email = e /\ state.rows = rows
      /\ state.before = issued /\ state.code = request[r].code
      /\ state.key = request[r].key
  BY DEF TypeOK, Request
<1>3. rows \subseteq Session
  BY DEF TypeOK
<1>4. state \in Request
  <2>1. request[r] \in Request /\ issued \in SUBSET Tokens
    BY DEF TypeOK
  <2> HIDE DEF rows
  <2> QED
    BY <1>3, <2>1 DEF Request
<1>5. request'[r] = state /\ \A q \in Requests \ {r} : request'[q] = request[q]
  BY DEF DeleteSessions, TypeOK
<1>6. UNCHANGED <<account, unused, used, generated, sessions, issued, resets,
                  resetBy, revoked>>
  BY DEF DeleteSessions
<1> HIDE DEF state
<1>7. TypeOK'
  <2>1. request' = [request EXCEPT ![r] = state]
    BY DEF DeleteSessions, state
  <2> QED
    BY <1>4, <1>6, <2>1 DEF TypeOK
<1>8. RequestsCarry'
  BY <1>1, <1>2, <1>5 DEF RequestsCarry
<1>9. CodesApart' /\ ResetLedger'
  BY <1>6 DEF CodesApart, ResetLedger
<1>10. \A q \in Requests : Paying(q)' => Paying(q) /\ request'[q].code = request[q].code
  BY <1>1, <1>2, <1>5 DEF Paying
<1>11. SpentCodesHeld'
  BY <1>6, <1>10 DEF SpentCodesHeld
<1>12. SessionsRevoked'
  <2>1. \A s \in sessions : s.email = e => s \in rows
    OBVIOUS
  <2> HIDE DEF rows
  <2> QED
    BY <1>2, <1>5, <1>6, <2>1 DEF SessionsRevoked, RevokedSessionsAreGone
<1> QED
  BY <1>7, <1>8, <1>9, <1>11, <1>12

LEMMA ResetStep ==
    ASSUME AccountsInv, NEW r \in Requests, Reset(r)
    PROVE AccountsInv'
<1> DEFINE e == request[r].email
           code == request[r].code
<1> USE DEF AccountsInv
<1>1. e \in Emails /\ code \in Codes /\ request[r].key \in Secrets
  BY DEF Reset, At, RequestsCarry, TypeOK, Request
<1>2. code \in generated /\ \A f \in Emails : code \notin unused[f] \cup resetBy[f]
  BY DEF Reset, At, SpentCodesHeld, Paying
<1>3. resetBy'[e] = resetBy[e] \cup {code}
      /\ \A f \in Emails \ {e} : resetBy'[f] = resetBy[f]
  BY <1>1 DEF Reset, TypeOK
<1>4. resets'[e] = resets[e] + 1
      /\ \A f \in Emails \ {e} : resets'[f] = resets[f]
  BY <1>1 DEF Reset, TypeOK
<1>5. request'[r] = [request[r] EXCEPT !.pc = "opening", !.epoch = resets[e] + 1,
                                       !.rows = {}, !.before = {}]
      /\ \A q \in Requests \ {r} : request'[q] = request[q]
  BY DEF Reset, TypeOK
<1>6. request' \in [Requests -> Request]
  <2> DEFINE state == [request[r] EXCEPT !.pc = "opening", !.epoch = resets[e] + 1,
                                         !.rows = {}, !.before = {}]
  <2>1. resets[e] + 1 \in Nat /\ request[r] \in Request
    BY <1>1 DEF TypeOK
  <2>2. state \in Request
    BY <2>1 DEF Request
  <2>3. request' = [request EXCEPT ![r] = state]
    BY DEF Reset
  <2> HIDE DEF state
  <2> QED
    BY <2>2, <2>3 DEF TypeOK
<1>7. account' \in [Emails -> Account \cup {NoAccount}]
  BY <1>1 DEF Reset, TypeOK, Account
<1>8. TypeOK'
  <2>1. request[r].before \in SUBSET Tokens
    BY DEF TypeOK, Request
  <2>2. revoked' \in [Emails -> SUBSET Tokens]
    BY <2>1 DEF Reset, TypeOK
  <2>3. /\ resets' \in [Emails -> Nat] /\ resetBy' \in [Emails -> SUBSET Codes]
        /\ sessions' \in SUBSET Session
    BY <1>1 DEF Reset, TypeOK
  <2>4. UNCHANGED <<unused, used, generated, issued>>
    BY DEF Reset
  <2> QED
    BY <1>6, <1>7, <2>2, <2>3, <2>4 DEF TypeOK
<1>9. RequestsCarry'
  <2>1. request'[r].pc = "opening" /\ request'[r].email = e
    BY <1>5 DEF TypeOK, Request
  <2> QED
    BY <1>1, <1>5, <2>1 DEF RequestsCarry
<1>10. CodesApart'
  <2>1. UNCHANGED <<unused, generated>>
    BY DEF Reset
  <2>2. \A f \in Emails : resetBy'[f] \subseteq generated
    BY <1>2, <1>3 DEF CodesApart
  <2>3. \A f, g \in Emails : unused[f] \cap resetBy'[g] = {}
    BY <1>1, <1>2, <1>3 DEF CodesApart
  <2> QED
    BY <2>1, <2>2, <2>3 DEF CodesApart
<1>11. SpentCodesHeld'
  <2>1. ~Paying(r)'
    BY <1>5 DEF Paying, TypeOK, Request
  <2>2. \A q \in Requests \ {r} : Paying(q) => request[q].code # code
    BY DEF Reset, At, SpentCodesHeld, Paying
  <2>3. \A q \in Requests : Paying(q)' => q # r /\ request'[q] = request[q] /\ Paying(q)
    BY <1>5, <2>1 DEF Paying
  <2>4. UNCHANGED <<unused, generated>>
    BY DEF Reset
  <2>5. \A q \in Requests : Paying(q)' =>
           /\ request'[q].code \in generated'
           /\ \A f \in Emails : request'[q].code \notin unused'[f] \cup resetBy'[f]
    BY <1>1, <1>3, <2>2, <2>3, <2>4 DEF SpentCodesHeld
  <2> QED
    BY <2>3, <2>5 DEF SpentCodesHeld
<1>12. ResetLedger'
  <2>1. IsFiniteSet(resetBy[e]) /\ Cardinality(resetBy[e]) = resets[e]
        /\ code \notin resetBy[e]
    BY <1>1, <1>2 DEF ResetLedger
  <2>2. IsFiniteSet(resetBy'[e]) /\ Cardinality(resetBy'[e]) = resets'[e]
    <3>1. IsFiniteSet(resetBy[e] \cup {code})
          /\ Cardinality(resetBy[e] \cup {code}) = Cardinality(resetBy[e]) + 1
      BY <2>1, FS_AddElement
    <3> QED
      BY <1>3, <1>4, <2>1, <3>1
  <2> QED
    BY <1>3, <1>4, <2>2 DEF ResetLedger
<1>13. SessionsRevoked'
  <2>1. /\ sessions' = sessions \ request[r].rows
        /\ revoked' = [revoked EXCEPT ![e] = request[r].before]
        /\ UNCHANGED issued /\ request[r].pc = "resetting"
    BY DEF Reset, At
  <2>2. /\ request'[r].before = {} /\ request'[r].pc = "opening"
        /\ \A q \in Requests \ {r} : request'[q] = request[q]
    BY <1>5 DEF TypeOK, Request
  <2>3. revoked'[e] = request[r].before
        /\ \A f \in Emails \ {e} : revoked'[f] = revoked[f]
    BY <1>1, <2>1 DEF TypeOK
  <2>4. \A f \in Emails : revoked'[f] \subseteq issued'
    BY <2>1, <2>3 DEF SessionsRevoked
  <2>5. ASSUME NEW s \in sessions' PROVE s.token \notin revoked'[s.email]
    <3>1. s \in sessions /\ s \notin request[r].rows /\ s.email \in Emails
      BY <2>1 DEF TypeOK, Session
    <3>2. CASE s.email = e
      BY <2>1, <2>3, <3>1, <3>2 DEF SessionsRevoked
    <3>3. CASE s.email # e
      BY <2>3, <3>1, <3>3 DEF SessionsRevoked, RevokedSessionsAreGone
    <3> QED
      BY <3>2, <3>3
  <2>6. \A s \in sessions' : s.token \in issued'
    BY <2>1 DEF SessionsRevoked
  <2>7. \A q \in Requests :
           /\ request'[q].before \subseteq issued'
           /\ request'[q].pc = "resetting" =>
                \A s \in sessions' :
                   (s.email = request'[q].email /\ s.token \in request'[q].before)
                       => s \in request'[q].rows
    BY <2>1, <2>2 DEF SessionsRevoked
  <2> QED
    BY <2>4, <2>5, <2>6, <2>7 DEF SessionsRevoked, RevokedSessionsAreGone
<1> QED
  BY <1>8, <1>9, <1>10, <1>11, <1>12, <1>13

LEMMA CommitCodesStep ==
    ASSUME AccountsInv, NEW r \in Requests, CommitCodes(r)
    PROVE AccountsInv'
<1> DEFINE e == request[r].email
           keep == unused[e] \ request[r].old
<1> USE DEF AccountsInv
<1>1. e \in Emails
  BY DEF CommitCodes, At, RequestsCarry
<1>2. PICK batch \in FreshBatches :
          /\ unused' = [unused EXCEPT ![e] = keep \cup batch]
          /\ generated' = generated \cup batch
  BY DEF CommitCodes
<1>3. batch \subseteq Codes /\ batch \cap generated = {}
  BY <1>2 DEF FreshBatches
<1>4. request'[r] = Idle /\ \A q \in Requests \ {r} : request'[q] = request[q]
  BY DEF CommitCodes, Done, TypeOK
<1>5. request' \in [Requests -> Request]
  BY IdleTyped DEF CommitCodes, Done, TypeOK
<1>6. TypeOK'
  BY <1>1, <1>2, <1>3, <1>5 DEF CommitCodes, TypeOK
<1>7. RequestsCarry'
  BY <1>4 DEF RequestsCarry, Idle
<1>8. CodesApart'
  BY <1>1, <1>2, BatchStep, keep \subseteq unused[e], ZenonT(30) DEF CommitCodes
<1>9. SpentCodesHeld'
  BY <1>1, <1>2, <1>3, <1>4 DEF CommitCodes, SpentCodesHeld, Paying, TypeOK, Idle
<1>10. ResetLedger'
  BY DEF CommitCodes, ResetLedger
<1>11. SessionsRevoked'
  BY <1>4, RevokedKept DEF CommitCodes, SessionsRevoked, Idle
<1> QED
  BY <1>6, <1>7, <1>8, <1>9, <1>10, <1>11

LEMMA DeleteCodesStep ==
    ASSUME AccountsInv, NEW r \in Requests, DeleteCodes(r)
    PROVE AccountsInv'
<1> DEFINE e == request[r].email
           state == [request[r] EXCEPT !.pc = "deleted",
                                       !.old = unused[e] \cup used[e]]
<1>1. e \in Emails
  BY DEF DeleteCodes, At, AccountsInv, RequestsCarry
<1>a. /\ request[r] \in Request /\ unused[e] \cup used[e] \in SUBSET Codes
      /\ request[r].before \subseteq issued
  BY <1>1 DEF AccountsInv, TypeOK, SessionsRevoked
<1>2. /\ state \in Request /\ state.pc = "deleted" /\ state.email = e
      /\ state.before \subseteq issued
  <2> DEFINE mid == [request[r] EXCEPT !.pc = "deleted"]
             all == unused[e] \cup used[e]
  <2>1. mid \in Request /\ mid.pc = "deleted" /\ mid.email = e
        /\ mid.before \subseteq issued
    BY <1>a DEF Request
  <2>2. state = [mid EXCEPT !.old = all]
    OBVIOUS
  <2>3. all \in SUBSET Codes
    BY <1>a
  <2> HIDE DEF mid, all, state
  <2> QED
    BY <2>1, <2>2, <2>3 DEF Request
<1>3. request' = [request EXCEPT ![r] = state]
  BY DEF DeleteCodes
<1>4. UNCHANGED <<account, unused, used, generated, sessions, issued, resets,
                  resetBy, revoked>>
  BY DEF DeleteCodes
<1> HIDE DEF state
<1> QED
  BY <1>1, <1>2, <1>3, <1>4, RequestStep

(* A request that arrives, after the reads its handler starts with.        *)
LEMMA StartStep ==
    ASSUME AccountsInv, NEW r \in Requests, NEW pc, NEW e \in Emails,
           NEW key \in Secrets \cup {None}, NEW code \in Codes \cup {None},
           pc \in {"creating", "upgrading", "opening", "matched", "regenerating"},
           pc \in {"creating", "upgrading"} => key \in Secrets,
           pc = "matched" => code \in Codes,
           Start(r, pc, e, key, code),
           UNCHANGED <<account, unused, used, generated, sessions, issued,
                       resets, resetBy, revoked>>
    PROVE AccountsInv'
<1> DEFINE state == [pc |-> pc, email |-> e, key |-> key, code |-> code,
                     epoch |-> resets[e], old |-> {}, rows |-> {}, before |-> {}]
<1>1. state \in Request
  BY DEF AccountsInv, TypeOK, Request
<1>2. request' = [request EXCEPT ![r] = state]
  BY DEF Start
<1>3. /\ state.pc = pc /\ state.email = e /\ state.key = key /\ state.code = code
      /\ state.before = {}
  OBVIOUS
<1> HIDE DEF state
<1> QED
  BY <1>1, <1>2, <1>3, RequestStep

(* A request that is given up or answered without another effect. *)
LEMMA DoneStep ==
    ASSUME AccountsInv, NEW r \in Requests, Done(r),
           UNCHANGED <<account, unused, used, generated, sessions, issued,
                       resets, resetBy, revoked>>
    PROVE AccountsInv'
<1>1. Idle.pc = "idle" /\ Idle.before = {}
  BY DEF Idle
<1> QED
  BY <1>1, IdleTyped, RequestStep DEF Done

LEMMA CloseSessionStep ==
    ASSUME AccountsInv, NEW s \in sessions, CloseSession(s)
    PROVE AccountsInv'
<1> USE DEF AccountsInv
<1>1. sessions' \subseteq sessions
      /\ UNCHANGED <<account, unused, used, generated, issued, request,
                     resets, resetBy, revoked>>
  BY DEF CloseSession
<1>2. TypeOK'
  BY <1>1 DEF TypeOK
<1>3. RequestsCarry' /\ CodesApart' /\ SpentCodesHeld'
  BY <1>1 DEF RequestsCarry, CodesApart, SpentCodesHeld, Paying
<1>4. ResetLedger' /\ SessionsRevoked'
  BY <1>1 DEF ResetLedger, SessionsRevoked, RevokedSessionsAreGone
<1> QED
  BY <1>2, <1>3, <1>4

(* Every step keeps the invariant. *)
LEMMA NextInv == AccountsInv /\ [Next]_vars => AccountsInv'
<1> SUFFICES ASSUME AccountsInv, [Next]_vars PROVE AccountsInv'
  OBVIOUS
<1>1. CASE UNCHANGED vars
  BY <1>1 DEF vars, AccountsInv, TypeOK, RequestsCarry, CodesApart,
              SpentCodesHeld, Paying, ResetLedger, SessionsRevoked,
              RevokedSessionsAreGone
<1>2. ASSUME NEW r \in Requests, NEW e \in Emails, NEW key \in Secrets,
             Register(r, e, key)
      PROVE AccountsInv'
  BY <1>2, StartStep DEF Register
<1>3. ASSUME NEW r \in Requests, NEW e \in Emails,
             NEW key \in Secrets \cup {None},
             NEW password \in Secrets \cup {None}, Login(r, e, key, password)
      PROVE AccountsInv'
  <2>1. PICK pc \in {"opening", "upgrading"} :
            Start(r, pc, e, key, None) /\ (pc = "upgrading" => key \in Secrets)
    BY <1>3 DEF Login
  <2>2. UNCHANGED <<account, unused, used, generated, sessions, issued, resets,
                    resetBy, revoked>>
    BY <1>3 DEF Login
  <2> QED
    BY <2>1, <2>2, StartStep
<1>4. ASSUME NEW r \in Requests, NEW e \in Emails, NEW code \in Codes,
             NEW key \in Secrets \cup {None}, Recover(r, e, code, key)
      PROVE AccountsInv'
  BY <1>4, StartStep DEF Recover
<1>5. ASSUME NEW r \in Requests, NEW s \in sessions, Regenerate(r, s)
      PROVE AccountsInv'
  <2>1. s.email \in Emails
    BY DEF AccountsInv, TypeOK, Session
  <2> QED
    BY <1>5, <2>1, StartStep DEF Regenerate
<1>6. ASSUME NEW r \in Requests,
             CreateRefused(r) \/ CodeGone(r) \/ NewKeyRefused(r) \/ Fail(r)
      PROVE AccountsInv'
  BY <1>6, DoneStep DEF CreateRefused, CodeGone, NewKeyRefused, Fail
<1>7. ASSUME NEW s \in sessions, CloseSession(s)
      PROVE AccountsInv'
  BY <1>7, CloseSessionStep
<1> QED
  BY <1>1, <1>2, <1>3, <1>4, <1>5, <1>6, <1>7, NextActions, CreateAccountStep,
     UpgradeStep, OpenSessionStep, MarkUsedStep, DeleteSessionsStep, ResetStep,
     DeleteCodesStep, CommitCodesStep

(* The inductive invariant holds in every reachable state. *)
THEOREM Invariance == Spec => []AccountsInv
<1>1. Init => AccountsInv
  BY InitInv
<1>2. AccountsInv /\ [Next]_vars => AccountsInv'
  BY NextInv
<1> QED
  BY <1>1, <1>2, PTL DEF Spec

-----------------------------------------------------------------------------
(* The tables and the requests have their types, for any instance.         *)
THEOREM TypeCorrect == Spec => []TypeOK
<1>1. AccountsInv => TypeOK
  BY DEF AccountsInv
<1> QED
  BY <1>1, Invariance, PTL

(* No recovery code ever pays for two resets (ConsumeCode, RecoverAccount, *)
(* RegenerateCodes), for any number of concurrent requests.                *)
THEOREM RecoveryCodesSingleUse == Spec => []CodesResetOnce
<1>1. AccountsInv => CodesResetOnce
  BY DEF AccountsInv, ResetLedger, CodesResetOnce
<1> QED
  BY <1>1, Invariance, PTL

(* No session is left that was opened before the last completed recovery   *)
(* of its account deleted the sessions (createSession, RecoverAccount).    *)
THEOREM RecoveryRevokesSessions == Spec => []RevokedSessionsAreGone
<1>1. AccountsInv => RevokedSessionsAreGone
  BY DEF AccountsInv, SessionsRevoked
<1> QED
  BY <1>1, Invariance, PTL

(* The verifier of an upgraded account changes only by a recovery that     *)
(* paid with a code of its own (upgradeToAuthKey, registerEmailUser,       *)
(* RecoverAccount).                                                        *)
THEOREM UpgradedKeysReplacedOnlyByRecovery == Spec => KeyReplacedOnlyByRecovery
<1> DEFINE Replaced(e) == account[e].version = 2 /\ account'[e] # account[e]
           Paid(e) ==
              /\ account'[e].version = 2
              /\ \E r \in Requests :
                   /\ request[r].pc = "resetting" /\ request[r].email = e
                   /\ request[r].code \notin resetBy[e]
                   /\ resetBy'[e] = resetBy[e] \cup {request[r].code}
<1>1. ASSUME AccountsInv, Next, NEW e \in Emails, Replaced(e)
      PROVE Paid(e)
  <2>1. PICK r \in Requests : CreateAccount(r) \/ Upgrade(r) \/ Reset(r)
    BY <1>1, NextActions
       DEF Register, Login, Recover, Regenerate, CreateRefused, OpenSession,
           MarkUsed, CodeGone, NewKeyRefused, DeleteSessions, DeleteCodes,
           CommitCodes, Fail, CloseSession
  <2>2. CASE CreateAccount(r)
    BY <1>1, <2>2 DEF CreateAccount, Registered, NoAccount, AccountsInv, TypeOK
  <2>3. CASE Upgrade(r)
    BY <1>1, <2>3 DEF Upgrade, AccountsInv, TypeOK
  <2>4. CASE Reset(r)
    <3>1. request[r].email = e
      BY <1>1, <2>4 DEF Reset, AccountsInv, TypeOK
    <3>2. request[r].pc = "resetting" /\ request[r].code \notin resetBy[e]
      BY <1>1, <2>4 DEF Reset, At, AccountsInv, SpentCodesHeld, Paying
    <3>3. account'[e].version = 2
          /\ resetBy'[e] = resetBy[e] \cup {request[r].code}
      BY <1>1, <2>4, <3>1 DEF Reset, AccountsInv, TypeOK
    <3> QED
      BY <3>1, <3>2, <3>3
  <2> QED
    BY <2>1, <2>2, <2>3, <2>4
<1>2. AccountsInv /\ [Next]_vars => [\A e \in Emails : Replaced(e) => Paid(e)]_vars
  BY <1>1
<1> QED
  BY <1>2, Invariance, PTL DEF Spec, KeyReplacedOnlyByRecovery

-----------------------------------------------------------------------------
(* The types of the row, of its saves and of the clients.                  *)
SealTypes ==
    /\ vault \in [version : Nat, blob : Secrets] /\ writes \in Nat
    /\ save \in [Saves -> [pc   : {"idle", "received", "checked"} \cup Answered,
                           base : Nat, blob : Secrets, seen : Nat]]
    /\ client \in [Saves -> Client]

(* An upgrade under way stores the secret the account has: the web client  *)
(* sends the key derived from the password it signs in with.               *)
UpgradesKeepSecret ==
    \A r \in Requests :
        (request[r].pc = "upgrading" /\ account[request[r].email].version = 1)
            => request[r].key = account[request[r].email].secret

(* The save of an open client has the seal the client opened the vault with.*)
SavesSealAsOpened ==
    \A c \in Saves : (client[c].session # None /\ save[c].pc # "idle") =>
                         save[c].blob = client[c].secret

(* Whoever may still write over the row as it is seals it as it is sealed: *)
(* version v names one seal for as long as no two writes overlapped.       *)
CurrentSealsOnly ==
    /\ vault.version = writes + 1
    /\ \A c \in Saves :
        /\ client[c].session # None =>
              /\ client[c].version <= vault.version
              /\ client[c].version = vault.version => client[c].secret = vault.blob
        /\ save[c].pc = "received" =>
              /\ save[c].base <= vault.version
              /\ save[c].base = vault.version => save[c].blob = vault.blob
        /\ save[c].pc = "checked" =>
              /\ save[c].seen <= writes /\ save[c].base = save[c].seen + 1
              /\ save[c].seen = writes => save[c].blob = vault.blob
        /\ save[c].pc = "ok" =>
              /\ save[c].base + 1 <= vault.version
              /\ save[c].base + 1 = vault.version => save[c].blob = vault.blob

SealInv ==
    /\ AccountsInv
    /\ SealTypes
    /\ UpgradesKeepSecret
    /\ SavesSealAsOpened
    /\ history = "serial" => CurrentSealsOnly
    /\ SerialVaultOpensWithSecret

LEMMA SealInitInv == AccountVaultInit => SealInv
<1> SUFFICES ASSUME AccountVaultInit PROVE SealInv
  OBVIOUS
<1> USE AccountVaultAssumption DEF AccountVaultInit, StoreInit
<1>1. AccountsInv
  BY InitInv
<1>2. SealTypes
  BY DEF SealTypes, NoSave, Answered, Away, Client
<1>3. UpgradesKeepSecret
  BY DEF Init, UpgradesKeepSecret, Idle
<1>4. SavesSealAsOpened /\ CurrentSealsOnly
  BY DEF SavesSealAsOpened, CurrentSealsOnly, NoSave, Away
<1>5. SerialVaultOpensWithSecret
  BY DEF SerialVaultOpensWithSecret
<1> QED BY <1>1, <1>2, <1>3, <1>4, <1>5 DEF SealInv

(* A step of the composition is a step of the account or leaves it alone.  *)
LEMMA AccountVaultSteps == AccountVaultNext => [Next]_vars
<1> SUFFICES ASSUME AccountVaultNext PROVE [Next]_vars
  OBVIOUS
<1>1. ASSUME NEW r \in Requests, ArriveFromClient(r) PROVE Arrive(r)
  BY <1>1 DEF ArriveFromClient, Arrive
<1>2. CASE AccountStep
  BY <1>1, <1>2 DEF AccountStep, Next, Proceed
<1>3. ASSUME NEW r \in Requests, ResetWithVault(r) PROVE Next
  BY <1>3 DEF ResetWithVault, Next, Proceed
<1>4. ASSUME NEW c \in Saves,
             \/ \E s \in sessions : OpenVault(c, s)
             \/ CloseVault(c)
             \/ SendSave(c) \/ ServeSave(c) \/ SaveAnswered(c)
      PROVE  UNCHANGED vars
  BY <1>4 DEF OpenVault, CloseVault, SendSave, ServeSave, SaveAnswered
<1> QED BY <1>2, <1>3, <1>4 DEF AccountVaultNext

(* Nothing but a recovery changes the secret of an account, since the web  *)
(* client upgrades to the key of the password it has signed in with.       *)
LEMMA SecretsStay ==
    ASSUME AccountsInv, UpgradesKeepSecret, AccountStep
    PROVE  /\ UpgradesKeepSecret'
           /\ \A e \in Emails : account'[e].secret = account[e].secret
<1> USE DEF AccountsInv, TypeOK
<1>1. ASSUME NEW r \in Requests, ArriveFromClient(r)
      PROVE  UpgradesKeepSecret' /\ account' = account
  <2>1. ASSUME NEW e \in Emails, NEW p \in Secrets,
               \/ Login(r, e, p, None) \/ Login(r, e, None, p) \/ Login(r, e, p, p)
        PROVE  UpgradesKeepSecret' /\ account' = account
    <3>1. account' = account /\ account[e] \in Account
      BY <2>1 DEF Login, Registered
    <3>2. account[e].secret # None
      BY <3>1, AccountsAssumption DEF Account
    <3>3. request'[r].pc = "upgrading" =>
             request'[r].email = e /\ request'[r].key = account[e].secret
      BY <2>1, <3>2 DEF Login, Start
    <3>4. \A q \in Requests \ {r} : request'[q] = request[q]
      BY <2>1 DEF Login, Start
    <3> QED BY <3>1, <3>3, <3>4 DEF UpgradesKeepSecret
  <2>2. ASSUME NEW e \in Emails, NEW code \in Codes,
               NEW key \in Secrets \cup {None}, Recover(r, e, code, key)
        PROVE  UpgradesKeepSecret' /\ account' = account
    BY <2>2 DEF Recover, Start, UpgradesKeepSecret
  <2> QED BY <1>1, <2>1, <2>2 DEF ArriveFromClient
<1>2. ASSUME NEW r \in Requests, Upgrade(r)
      PROVE  /\ UpgradesKeepSecret'
             /\ \A e \in Emails : account'[e].secret = account[e].secret
  <2>1. request[r].email \in Emails /\ request[r].pc = "upgrading"
    BY <1>2 DEF Upgrade, At, RequestsCarry
  <2>2. \A e \in Emails : account'[e].secret = account[e].secret
    BY <1>2, <2>1 DEF Upgrade, UpgradesKeepSecret
  <2>3. \A e \in Emails : account'[e].version = 1 => account'[e] = account[e]
    BY <1>2, <2>1 DEF Upgrade
  <2>4. \A q \in Requests : request'[q].pc = "upgrading" =>
            request'[q] = request[q] /\ request[q].email \in Emails
    BY <1>2 DEF Upgrade, GoTo, RequestsCarry
  <2> QED BY <2>2, <2>3, <2>4 DEF UpgradesKeepSecret
<1>3. ASSUME NEW r \in Requests,
             \/ OpenSession(r) \/ CodeGone(r) \/ NewKeyRefused(r) \/ Fail(r)
      PROVE  UpgradesKeepSecret' /\ account' = account
  BY <1>3 DEF OpenSession, CodeGone, NewKeyRefused, Fail, Done, Idle,
              UpgradesKeepSecret
<1>4. ASSUME NEW r \in Requests, MarkUsed(r) \/ DeleteSessions(r)
      PROVE  UpgradesKeepSecret' /\ account' = account
  <2>1. /\ request'[r].pc # "upgrading"
        /\ \A q \in Requests \ {r} : request'[q] = request[q]
    <3>1. CASE MarkUsed(r)
      BY <3>1 DEF MarkUsed, GoTo, Request
    <3>2. CASE DeleteSessions(r)
      <4>1. PICK new : new.pc = "resetting" /\ request' = [request EXCEPT ![r] = new]
        BY <3>2 DEF DeleteSessions, Request
      <4> QED
        BY <4>1
    <3> QED
      BY <1>4, <3>1, <3>2
  <2>2. account' = account
    BY <1>4 DEF MarkUsed, DeleteSessions
  <2>3. \A q \in Requests : request'[q].pc = "upgrading" => request'[q] = request[q]
    BY <2>1
  <2> QED
    BY <2>2, <2>3 DEF UpgradesKeepSecret
<1>5. ASSUME NEW s \in sessions, CloseSession(s)
      PROVE  UpgradesKeepSecret' /\ account' = account
  BY <1>5 DEF CloseSession, UpgradesKeepSecret
<1> QED BY <1>1, <1>2, <1>3, <1>4, <1>5 DEF AccountStep

(* RecoverAccount puts a new version over every seal and every save that   *)
(* was based on the old one.                                               *)
LEMMA RecoverySeals ==
    ASSUME SealInv, NEW r \in Requests, ResetWithVault(r)
    PROVE  /\ UpgradesKeepSecret'
           /\ SerialVaultOpensWithSecret'
           /\ SealTypes' /\ SavesSealAsOpened'
           /\ (history = "serial" => CurrentSealsOnly)'
<1> USE DEF SealInv, AccountsInv, TypeOK
<1>1. request[r].email \in Emails /\ request[r].pc = "resetting"
  BY DEF ResetWithVault, Reset, At, RequestsCarry
<1>2. account' = [account EXCEPT ![request[r].email] =
                     [version |-> 2, secret |-> request[r].key]]
  BY DEF ResetWithVault, Reset
<1>3. UpgradesKeepSecret'
  <2>1. \A q \in Requests : request'[q].pc = "upgrading" =>
            request'[q] = request[q] /\ request[q].email \in Emails
    BY DEF ResetWithVault, Reset, RequestsCarry
  <2>2. \A e \in Emails : account'[e].version = 1 => account'[e] = account[e]
    BY <1>1, <1>2
  <2> QED BY <2>1, <2>2 DEF UpgradesKeepSecret
<1>4. SerialVaultOpensWithSecret'
  <2>1. vault'.blob = request[r].key
    BY DEF ResetWithVault, RecoverRow
  <2>2. \A e \in Emails : account'[e].secret = request[r].key
    BY <1>1, <1>2, AccountVaultAssumption
  <2> QED BY <2>1, <2>2 DEF SerialVaultOpensWithSecret
<1>5. SealTypes' /\ SavesSealAsOpened'
  <2>1. request[r].key \in Secrets
    BY <1>1 DEF RequestsCarry
  <2> QED BY <2>1 DEF ResetWithVault, RecoverRow, SealTypes, SavesSealAsOpened
<1>6. (history = "serial" => CurrentSealsOnly)'
  <2>1. /\ vault'.version = vault.version + 1 /\ writes' = writes + 1
        /\ UNCHANGED <<save, history, client>>
    BY DEF ResetWithVault, RecoverRow
  <2> QED BY <2>1 DEF SealTypes, CurrentSealsOnly, Client
<1> QED BY <1>3, <1>4, <1>5, <1>6

(* A client that opens or closes the vault. *)
LEMMA ClientSeals ==
    ASSUME SealInv, NEW c \in Saves,
           \/ \E s \in sessions : OpenVault(c, s)
           \/ CloseVault(c)
    PROVE  /\ SealTypes' /\ SavesSealAsOpened'
           /\ (history = "serial" => CurrentSealsOnly)'
           /\ UNCHANGED <<account, vault, history>>
<1> USE DEF SealInv
<1>1. UNCHANGED <<account, vault, save, writes, history>>
  BY DEF OpenVault, CloseVault, vars, store
<1>2. CASE CloseVault(c)
  BY <1>1, <1>2, AccountVaultAssumption
     DEF CloseVault, Away, Client, SealTypes, SavesSealAsOpened, CurrentSealsOnly
<1>3. ASSUME NEW s \in sessions, OpenVault(c, s)
      PROVE  /\ SealTypes' /\ SavesSealAsOpened'
             /\ (history = "serial" => CurrentSealsOnly)'
  <2>1. SealTypes'
    BY <1>1, <1>3 DEF OpenVault, Client, SealTypes, AccountsInv, TypeOK
  <2>2. SavesSealAsOpened'
    BY <1>1, <1>3 DEF OpenVault, SealTypes, SavesSealAsOpened
  <2>3. (history = "serial" => CurrentSealsOnly)'
    BY <1>1, <1>3 DEF OpenVault, SealTypes, CurrentSealsOnly
  <2> QED BY <2>1, <2>2, <2>3
<1> QED BY <1>1, <1>2, <1>3

(* A save on its way: only its UPDATE writes the row, and in a serial      *)
(* history it writes the seal the row has.                                 *)
LEMMA SaveSeals ==
    ASSUME SealInv, NEW c \in Saves, SendSave(c) \/ ServeSave(c) \/ SaveAnswered(c)
    PROVE  /\ SealTypes' /\ SavesSealAsOpened'
           /\ (history = "serial" => CurrentSealsOnly)'
           /\ SerialVaultOpensWithSecret'
<1> USE DEF SealInv
<1>1. account' = account
  BY DEF SendSave, ServeSave, SaveAnswered, vars
<1>2. CASE SendSave(c)
  <2>1. /\ UNCHANGED <<vault, writes, history, client>>
        /\ client[c].session # None
    BY <1>2, AccountVaultAssumption
       DEF SendSave, Receive, AccountsInv, TypeOK, Session
  <2>2. SealTypes'
    BY <1>2, <2>1 DEF SendSave, Receive, SealTypes, Client, Answered
  <2>3. SavesSealAsOpened'
    BY <1>2, <2>1 DEF SendSave, Receive, SealTypes, SavesSealAsOpened
  <2>4. (history = "serial" => CurrentSealsOnly)'
    BY <1>2, <2>1 DEF SendSave, Receive, SealTypes, SavesSealAsOpened,
                      CurrentSealsOnly, Client
  <2>5. SerialVaultOpensWithSecret'
    BY <1>1, <2>1 DEF SerialVaultOpensWithSecret
  <2> QED BY <2>2, <2>3, <2>4, <2>5
<1>3. CASE SaveAnswered(c)
  <2>1. UNCHANGED <<vault, writes, history>>
    BY <1>3 DEF SaveAnswered, Respond, NoSave
  <2>2. SealTypes'
    BY <1>3, <2>1, AccountVaultAssumption
       DEF SaveAnswered, Respond, NoSave, SealTypes, Client, Answered
  <2>3. SavesSealAsOpened'
    BY <1>3, <2>1 DEF SaveAnswered, Respond, NoSave, SealTypes, SavesSealAsOpened
  <2>4. (history = "serial" => CurrentSealsOnly)'
    BY <1>3, <2>1 DEF SaveAnswered, Respond, NoSave, SealTypes, SavesSealAsOpened,
                      CurrentSealsOnly, Client
  <2>5. SerialVaultOpensWithSecret'
    BY <1>1, <2>1 DEF SerialVaultOpensWithSecret
  <2> QED BY <2>2, <2>3, <2>4, <2>5
<1>4. CASE CheckVersion(c) /\ UNCHANGED client
  <2>1. UNCHANGED <<vault, writes, history, client>> /\ save[c].pc = "received"
    BY <1>4 DEF CheckVersion
  <2>2. SealTypes'
    <3>1. CASE vault.version = save[c].base
      BY <1>4, <2>1, <3>1, ZenonT(30) DEF CheckVersion, SealTypes
    <3>2. CASE vault.version # save[c].base
      BY <1>4, <2>1, <3>2, ZenonT(30) DEF CheckVersion, SealTypes, Answered
    <3> QED BY <3>1, <3>2
  <2>3. /\ \A d \in Saves \ {c} : save'[d] = save[d]
        /\ save'[c].pc \in {"checked", "conflict"}
        /\ save'[c].pc = "checked" => vault.version = save[c].base
    BY <1>4 DEF CheckVersion, SealTypes
  <2>4. /\ save'[c].base = save[c].base /\ save'[c].blob = save[c].blob
        /\ save'[c].seen = writes
    BY <1>4 DEF CheckVersion, SealTypes
  <2>5. SavesSealAsOpened'
    BY <2>1, <2>3, <2>4 DEF SavesSealAsOpened
  <2>6. (history = "serial" => CurrentSealsOnly)'
    BY <2>1, <2>3, <2>4 DEF SealTypes, CurrentSealsOnly
  <2>7. SerialVaultOpensWithSecret'
    BY <1>1, <2>1 DEF SerialVaultOpensWithSecret
  <2> QED BY <2>2, <2>5, <2>6, <2>7
<1>5. CASE SaveError(c) /\ UNCHANGED client
  BY <1>1, <1>5
     DEF SaveError, Answer, SealTypes, SavesSealAsOpened, CurrentSealsOnly,
         SerialVaultOpensWithSecret, Answered
<1>6. CASE WriteRow(c) /\ UNCHANGED client
  <2>1. /\ vault'.version = save[c].base + 1 /\ vault'.blob = save[c].blob
        /\ writes' = writes + 1 /\ save[c].pc = "checked"
        /\ save' = [save EXCEPT ![c].pc = "ok"]
        /\ client' = client
        /\ history' = "serial" => history = "serial" /\ save[c].seen = writes
    BY <1>6 DEF WriteRow, Answer
  <2>2. SealTypes'
    BY <1>6, <2>1 DEF WriteRow, SealTypes, Answered
  <2>3. SavesSealAsOpened'
    BY <2>1 DEF SealTypes, SavesSealAsOpened
  <2>4. ASSUME history' = "serial" PROVE save[c].blob = vault.blob
    BY <2>1, <2>4 DEF CurrentSealsOnly
  <2>5. (history = "serial" => CurrentSealsOnly)'
    BY <2>1, <2>4 DEF SealTypes, CurrentSealsOnly, Client
  <2>6. SerialVaultOpensWithSecret'
    BY <1>1, <2>1, <2>4 DEF SerialVaultOpensWithSecret
  <2> QED BY <2>2, <2>3, <2>5, <2>6
<1> QED BY <1>2, <1>3, <1>4, <1>5, <1>6 DEF ServeSave, HandleSave

LEMMA SealStepInv == SealInv /\ [AccountVaultNext]_allVars => SealInv'
<1> SUFFICES ASSUME SealInv, [AccountVaultNext]_allVars PROVE SealInv'
  OBVIOUS
<1>1. AccountsInv'
  BY AccountVaultSteps, NextInv DEF SealInv, allVars
<1>2. CASE UNCHANGED allVars
  BY <1>1, <1>2
     DEF allVars, vars, store, SealInv, SealTypes, UpgradesKeepSecret, SavesSealAsOpened,
         CurrentSealsOnly, SerialVaultOpensWithSecret
<1>3. CASE AccountStep
  <2>1. UNCHANGED <<store, client>>
    BY <1>3 DEF AccountStep
  <2> QED BY <1>1, <1>3, <2>1, SecretsStay
             DEF store, SealInv, SealTypes, SavesSealAsOpened, CurrentSealsOnly,
                 SerialVaultOpensWithSecret
<1>4. ASSUME NEW r \in Requests, ResetWithVault(r) PROVE SealInv'
  BY <1>1, <1>4, RecoverySeals DEF SealInv
<1>5. ASSUME NEW c \in Saves, \/ \E s \in sessions : OpenVault(c, s)
                              \/ CloseVault(c)
      PROVE  SealInv'
  <2>1. UpgradesKeepSecret'
    BY <1>5 DEF OpenVault, CloseVault, vars, SealInv, UpgradesKeepSecret
  <2> QED BY <1>1, <1>5, <2>1, ClientSeals DEF SealInv, SerialVaultOpensWithSecret
<1>6. ASSUME NEW c \in Saves, SendSave(c) \/ ServeSave(c) \/ SaveAnswered(c)
      PROVE  SealInv'
  <2>1. UpgradesKeepSecret'
    BY <1>6 DEF SendSave, ServeSave, SaveAnswered, vars, SealInv, UpgradesKeepSecret
  <2> QED BY <1>1, <1>6, <2>1, SaveSeals DEF SealInv
<1> QED BY <1>2, <1>3, <1>4, <1>5, <1>6 DEF AccountVaultNext

(* Until two writes of the row overlap, the stored vault opens with the    *)
(* secret that signs in, for any number of clients, sign-ins, upgrades and *)
(* recoveries: RecoverAccount replaces verifier and vault in one           *)
(* transaction, and its new version refuses every save sealed before it.   *)
THEOREM VaultOpensWithSecret == AccountVaultSpec => []SerialVaultOpensWithSecret
<1>1. SealInv => SerialVaultOpensWithSecret
  BY DEF SealInv
<1> QED BY <1>1, SealInitInv, SealStepInv, PTL DEF AccountVaultSpec

-----------------------------------------------------------------------------
(* No version a client or a save knows passes the bound, so that every PUT *)
(* the composition sends is one VaultStore knows.                          *)
VersionsInBounds ==
    /\ vault.version \in Versions
    /\ \A c \in Saves : client[c].version \in Versions
    /\ \A c \in Saves : save[c].pc = "ok" => save[c].base + 1 \in Versions

ComposedInv ==
    /\ AccountVaultTypeOK
    /\ VersionsInBounds

LEMMA ComposedInit == AccountVaultInit => ComposedInv
<1> SUFFICES ASSUME AccountVaultInit PROVE ComposedInv
  OBVIOUS
<1> USE AccountVaultAssumption
<1>1. TypeOK
  BY InitInv DEF AccountVaultInit, AccountsInv
<1>2. StoreTypeOK
  BY DEF AccountVaultInit, StoreInit, StoreTypeOK, NoSave, SaveState, Versions
<1>3. client \in [Saves -> Client]
  BY DEF AccountVaultInit, Away, Client
<1>4. VersionsInBounds
  BY DEF AccountVaultInit, StoreInit, NoSave, Away, VersionsInBounds, Versions
<1> QED BY <1>1, <1>2, <1>3, <1>4 DEF ComposedInv, AccountVaultTypeOK

(* Of the steps of one client, each either leaves the row and its saves    *)
(* alone or is a step of VaultStore.                                       *)
LEMMA ClientStores ==
    ASSUME ComposedInv, NEW c \in Saves,
           \/ \E s \in sessions : OpenVault(c, s)
           \/ CloseVault(c)
           \/ SendSave(c) \/ ServeSave(c) \/ SaveAnswered(c)
    PROVE  [StoreNext]_store
<1>1. CASE (\E s \in sessions : OpenVault(c, s)) \/ CloseVault(c)
  BY <1>1 DEF OpenVault, CloseVault, store
<1>2. CASE SendSave(c)
  <2>1. client[c].version \in Versions /\ client[c].secret \in Secrets
    BY DEF ComposedInv, AccountVaultTypeOK, VersionsInBounds, Client
  <2> QED BY <1>2, <2>1 DEF SendSave, StoreNext
<1>3. CASE ServeSave(c)
  BY <1>3 DEF ServeSave, HandleSave, StoreNext
<1>4. CASE SaveAnswered(c)
  BY <1>4 DEF SaveAnswered, StoreNext
<1> QED BY <1>1, <1>2, <1>3, <1>4

(* The key RecoverAccount seals the row with is one of the secrets.        *)
LEMMA ResetStores ==
    ASSUME AccountsInv, NEW r \in Requests, ResetWithVault(r)
    PROVE  request[r].key \in Secrets /\ RecoverRow(request[r].key)
BY DEF AccountsInv, RequestsCarry, ResetWithVault, Reset, At

LEMMA StoreSteps ==
    AccountsInv /\ ComposedInv /\ [AccountVaultNext]_allVars => [StoreNext]_store
<1> SUFFICES ASSUME AccountsInv, ComposedInv, [AccountVaultNext]_allVars
             PROVE  [StoreNext]_store
  OBVIOUS
<1>1. CASE UNCHANGED allVars
  BY <1>1 DEF allVars
<1>2. CASE AccountStep
  BY <1>2 DEF AccountStep
<1>3. ASSUME NEW r \in Requests, ResetWithVault(r) PROVE StoreNext
  BY <1>3, ResetStores DEF StoreNext
<1> QED BY <1>1, <1>2, <1>3, ClientStores DEF AccountVaultNext

(* What a step of the row and its saves keeps: their types, and the bound. *)
LEMMA StoreStepTyped ==
    ASSUME ComposedInv, StoreNext
    PROVE  /\ StoreTypeOK' /\ vault'.version \in Versions
           /\ \A c \in Saves : save'[c].pc = "ok" => save'[c].base + 1 \in Versions
<1> USE AccountVaultAssumption DEF ComposedInv, VersionsInBounds,
        AccountVaultTypeOK, StoreTypeOK
<1> DEFINE Kept == /\ StoreTypeOK' /\ vault'.version \in Versions
                   /\ \A c \in Saves : save'[c].pc = "ok" => save'[c].base + 1 \in Versions
<1>1. ASSUME NEW s \in Saves, NEW base \in Versions, NEW blob \in Secrets,
             Receive(s, base, blob)
      PROVE  Kept
  BY <1>1 DEF Receive, SaveState
<1>2. ASSUME NEW s \in Saves, CheckVersion(s) PROVE Kept
  <2>1. /\ UNCHANGED <<vault, writes, history>>
        /\ \A c \in Saves \ {s} : save'[c] = save[c]
    BY <1>2 DEF CheckVersion
  <2>2. PICK pc \in {"checked", "conflict"} :
           save' = [save EXCEPT ![s].pc = pc, ![s].seen = writes]
    BY <1>2 DEF CheckVersion
  <2>a. save[s] \in SaveState /\ writes \in Nat
    OBVIOUS
  <2>b. [save[s] EXCEPT !.pc = pc, !.seen = writes] \in SaveState
    BY ONLY <2>a, pc \in {"checked", "conflict"} DEF SaveState, Answered
  <2>3. save'[s] \in SaveState /\ save'[s].pc \in {"checked", "conflict"}
    BY <2>2, <2>a, <2>b DEF SaveState
  <2>4. save' \in [Saves -> SaveState]
    BY <1>2, <2>1, <2>3 DEF CheckVersion
  <2> QED BY <2>1, <2>3, <2>4
<1>3. ASSUME NEW s \in Saves, WriteRow(s) PROVE Kept
  <2>1. save[s] \in SaveState /\ save[s].base + 1 \in Versions
    BY <1>3 DEF WriteRow, SaveState, Versions
  <2> QED BY <1>3, <2>1 DEF WriteRow, Answer, SaveState, Answered, Versions
<1>4. ASSUME NEW s \in Saves, SaveError(s) PROVE Kept
  BY <1>4 DEF SaveError, Answer, SaveState, Answered
<1>5. ASSUME NEW s \in Saves, Respond(s) PROVE Kept
  BY <1>5 DEF Respond, NoSave, SaveState, Versions
<1>6. ASSUME NEW blob \in Secrets, RecoverRow(blob) PROVE Kept
  BY <1>6 DEF RecoverRow, Versions
<1> QED BY <1>1, <1>2, <1>3, <1>4, <1>5, <1>6 DEF StoreNext, HandleSave

(* A client learns versions of the row, or the one its save was given.     *)
LEMMA ClientsTyped ==
    ASSUME ComposedInv, [AccountVaultNext]_allVars
    PROVE  /\ client' \in [Saves -> Client]
           /\ \A c \in Saves : client'[c].version \in Versions
<1> USE AccountVaultAssumption DEF ComposedInv, AccountVaultTypeOK,
        VersionsInBounds, StoreTypeOK
<1> DEFINE Kept == /\ client' \in [Saves -> Client]
                   /\ \A c \in Saves : client'[c].version \in Versions
<1>1. CASE UNCHANGED client
  BY <1>1
<1>2. ASSUME NEW c \in Saves, NEW s \in sessions, OpenVault(c, s) PROVE Kept
  <2>1. s \in Session /\ vault.blob \in Secrets /\ vault.version \in Nat
    BY DEF TypeOK
  <2> QED BY <1>2, <2>1 DEF OpenVault, Client
<1>3. ASSUME NEW c \in Saves, CloseVault(c) PROVE Kept
  BY <1>3 DEF CloseVault, Away, Client, Versions
<1>4. ASSUME NEW c \in Saves, SaveAnswered(c) PROVE Kept
  <2>1. CASE save[c].pc = "ok" /\ client[c].session # None
    <3>1. save[c].base + 1 \in Nat /\ save[c].base + 1 \in Versions
      BY <2>1 DEF SaveState, Versions
    <3> QED BY <1>4, <2>1, <3>1 DEF SaveAnswered, Client
  <2> QED BY <1>1, <1>4, <2>1 DEF SaveAnswered
<1>5. ASSUME NEW c \in Saves, SendSave(c) \/ ServeSave(c) PROVE UNCHANGED client
  BY <1>5 DEF SendSave, ServeSave
<1>6. ASSUME NEW r \in Requests, ResetWithVault(r) PROVE UNCHANGED client
  BY <1>6 DEF ResetWithVault
<1> QED BY <1>1, <1>2, <1>3, <1>4, <1>5, <1>6
           DEF AccountVaultNext, AccountStep, allVars

(* The account of the composition behaves as Accounts says, whatever its   *)
(* clients do: what is proved of Accounts holds of it.                     *)
THEOREM CompositionImplementsAccounts == AccountVaultSpec => Spec
<1>1. AccountVaultInit => Init
  BY DEF AccountVaultInit
<1>2. [AccountVaultNext]_allVars => [Next]_vars
  BY AccountVaultSteps DEF allVars
<1> QED BY <1>1, <1>2, PTL DEF AccountVaultSpec, Spec

LEMMA ComposedStep == AccountsInv /\ ComposedInv /\ [AccountVaultNext]_allVars
                          => ComposedInv'
<1> SUFFICES ASSUME AccountsInv, ComposedInv, [AccountVaultNext]_allVars
             PROVE  ComposedInv'
  OBVIOUS
<1>1. TypeOK'
  <2>1. [Next]_vars
    BY AccountVaultSteps DEF allVars
  <2> QED BY <2>1, NextInv DEF AccountsInv
<1>2. /\ StoreTypeOK' /\ vault'.version \in Versions
      /\ \A c \in Saves : save'[c].pc = "ok" => save'[c].base + 1 \in Versions
  <2>1. CASE StoreNext
    BY <2>1, StoreStepTyped
  <2>2. CASE UNCHANGED store
    BY <2>2 DEF store, ComposedInv, AccountVaultTypeOK, VersionsInBounds, StoreTypeOK
  <2> QED BY <2>1, <2>2, StoreSteps
<1> QED BY <1>1, <1>2, ClientsTyped
           DEF ComposedInv, AccountVaultTypeOK, VersionsInBounds, Versions

LEMMA ComposedInvariance == AccountVaultSpec => []ComposedInv
<1>1. AccountVaultSpec => []AccountsInv
  BY CompositionImplementsAccounts, Invariance, PTL
<1>2. AccountVaultSpec => ComposedInv /\ [][AccountVaultNext]_allVars
  BY ComposedInit, PTL DEF AccountVaultSpec
<1> QED BY <1>1, <1>2, ComposedStep, PTL

(* The row of the composition behaves as VaultStore says: a recovery and   *)
(* the saves of clients that hold a session write it as VaultStore allows, *)
(* so that what is proved of VaultStore holds of it.                       *)
THEOREM CompositionImplementsStore == AccountVaultSpec => StoreSpec
<1>1. AccountVaultInit => StoreInit
  BY DEF AccountVaultInit
<1>2. AccountsInv /\ ComposedInv /\ [AccountVaultNext]_allVars
          => [StoreNext]_storeVars
  BY StoreSteps DEF store, storeVars
<1>3. AccountVaultSpec => []AccountsInv
  BY CompositionImplementsAccounts, Invariance, PTL
<1> QED BY <1>1, <1>2, <1>3, ComposedInvariance, PTL DEF AccountVaultSpec, StoreSpec

(* The tables, the row, the requests and the clients have their types.     *)
THEOREM CompositionTypeCorrect == AccountVaultSpec => []AccountVaultTypeOK
<1>1. ComposedInv => AccountVaultTypeOK
  BY DEF ComposedInv
<1> QED BY <1>1, ComposedInvariance, PTL
=============================================================================
