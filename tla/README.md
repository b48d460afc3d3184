# Cloistr Vault in TLA+

This directory is a specification of Cloistr Vault: TLA+ modules that follow
the Go backend and the web client statement by statement, TLC configurations
that check them on small instances, and TLAPS proofs of what matters most for
instances of every size. `PROJECT.json` lists components, runs, mutants, the
map from definitions to source lines, findings, hazards and theorems.

Run a check or a proof from this directory:

    tlc -workers 2 -config VaultStore.cfg MCVaultStore
    tlapm StoreProofs.tla

## 1. The system and its parts

Cloistr Vault is a zero-knowledge password manager. The server (Go, gin,
Postgres, any number of replicas) stores for each user one encrypted blob with
a version number, verifiers for signing in, one-time recovery codes, passkeys,
sessions and a newer relational vault (folders, entries, secrets, sharing).
Clients derive keys from a master password or from a passkey and do all
encryption.

| component | state it keeps | operations | who it meets |
|---|---|---|---|
| vault row (`internal/vault/vault.go`) | blob, version | GET, PUT with a version check, creation, replacement by recovery | every tab and device of the user, recovery |
| web vault client (`VaultContext.tsx`, `ImportModal.tsx`, `vault-crypto`) | session ref (envelope and DEK array), version ref, entries on screen, blob peeked at by the lock screen | unlock by password or passkey, add, import, enrol and revoke a passkey, auto-lock | the vault row; its own callbacks across awaits |
| email accounts and sessions (`auth/auth.go`) | verifier and its version, session rows | register, sign in, one-time upgrade, validate, revoke, recover | recovery codes, vault row |
| recovery codes (`internal/recovery`) | hashed codes, used or not | generate, consume, regenerate | accounts |
| Nostr sign-in (`auth/nostr.go`, `challenge_store.go`) | challenges with expiry, accounts by public key | issue, prune, verify, consume, create the account on three paths | auth middleware, names |
| NIP-05 names (`auth/nip05.go`) | the verified address of an account | verify an address, answer for the domains served here | Nostr accounts, documents of other domains, other servers that ask |
| WebAuthn (`auth/webauthn.go`) | ceremony rows, passkeys with sign counts | begin and finish registration, sign-in and discoverable sign-in, delete, prune | sessions |
| auth middleware (`api/middleware.go`) | cache of signer sessions | resolve a request to a user, by token or by the signer | all handlers, the signer |
| rate limiting (`internal/ratelimit`, `api/ratelimit.go`) | fixed-window counters in an UNLOGGED table | hit, prune, fail open | every request |
| connection pool (`internal/database`) | connections | take, give back | everything that queries |
| folders (`vault/folders.go`) | tree of folders, filings | create, move, reorder, both deletes | entries |
| entries, secrets, tags, attachments (`vault/entries.go`, `secrets.go`, `tags.go`, `attachments.go`) | rows, tag counts, positions, rotation stamps | create, update, delete, reorder, upload | each other, by foreign keys and a trigger |
| listing and search (`vault/search.go`, `entries.go`) | none | list, search, recent, frequent | entries |
| sharing and teams (`vault/sharing.go`) | teams, roles, invitations, shares, folder keys | invite, accept, share, revoke, check access | folders |
| passwords (`password_generator.go`, `internal/security`) | none | generate, score, count into a vault's score, ask for breaches | secrets |
| others | | local storage, provider interface, Lightning, payments, identity, configuration, extension, mobile, desktop, SDK | section 8 |

### What is hard, and what makes each part correct

* **Vault row.** Saves from several devices overlap with each other and with a
  recovery. The row has a version for this, but the check and the write are two
  statements. Correct: versions never run ahead of writes, a save replaces what
  it was based on, and what is stored opens with the secret that signs in.
* **Web client.** Everything happens between awaits: the auto-lock fires while
  a save, a prompt or scrypt is pending; values live partly in refs (read when
  used) and partly in closures (read when made); answers get lost. Correct: the
  stored vault can always be opened, and no save drops what another tab stored;
  the code keeps neither in every interleaving, and the properties say which
  interleaving it takes.
* **Accounts.** Sign-ins take long (scrypt) between reading the row and
  inserting the session; recoveries change everything underneath. Correct: a
  code resets once, the sessions a recovery found are gone when it commits, an
  upgraded verifier is never taken back, and nobody waits for ever.
* **Nostr sign-in and names.** Check and consumption of a challenge are separate
  statements on any replica, with expiry and pruning in between; a name is asked
  for, and may have moved on when the answer is written. Correct: one admission
  per challenge, by the key it was issued for; one account per key; a name only
  for the key it was given to.
* **WebAuthn.** Begin deletes and inserts, Finish reads, validates, writes and
  deletes, without a transaction; answers come late or twice. Correct: a
  ceremony opens a session and is over, sign counts grow, a deleted passkey
  stays deleted.
* **Folders, entries, secrets.** Read-then-write without locks. Correct: folders
  stay a forest, counts count, an answered edit is not undone by another, limits
  hold; and where overlaps break one of these, only overlaps do, and within bounds.
* **Sharing.** Invitations are read and marked without locks, access is decided
  by one query over several shares. Correct: an invitation admits one, roles are
  granted by who may grant them, access follows the shares there are.
* **The way to a handler.** Counters, a cache and connections are limits shared
  by everybody. Correct: no more than the limit passes, nobody is locked out for
  ever, an ended session is forgotten in time, requests end unless the pool is
  held by handlers that wait with a connection in their hands.

## 2. Modules

    VaultStore <--implemented by-- VaultClient  (browser tabs on one row) --- VaultClientProofs
        ^
        +----------implemented by-- AccountVault --EXTENDS, implements--> Accounts
                                        |
                                        +--- AccountsProofs
    VaultStore, Catalogue, Search, Passwords --- StoreProofs
    LoginTicket <--implemented by-- NostrLogin <--EXTENDS-- NostrNames --- NostrProofs
    FolderTree --- FolderTreeProofs        WebAuthn --- WebAuthnProofs
    Sharing ------ SharingProofs           Access ----- AccessProofs
    Passwords, Search: pure operators, evaluated by MCPasswords and MCSearch,
                       which MCCatalogue extends
    MC<module>: constants, symmetry and bounds for TLC

**VaultStore** is one row and the requests that write it. `save[s]` is one PUT
/vault inside `Service.UpdateVault`: `Receive` (handler, binding), `CheckVersion`
(SELECT and comparison), `WriteRow` (UPDATE and commit), `SaveError`,
`Respond`. `RecoverRow` is the vault statement of `RecoverAccount`. The SELECT
takes no lock and the UPDATE has no version predicate, so they are two steps.
UPDATE and COMMIT are one, since nobody sees the row between them and a second
writer waits. `writes`, `history` and `seen` of a save are history: the number
of writes, whether some save committed over a row it had not read, and the
number of writes when a save passed its check.

**VaultClient** instantiates VaultStore with envelopes as blobs. A step is what
JavaScript runs between two awaits. `tab[t]` is one `VaultProvider`; `op[o]` is
an operation in progress, with what its closure captured (`base`, `session`,
`blob`) as opposed to what it reads from a ref when it gets there. An envelope
is abstracted to its entries, what the body is sealed under and what the
passkey wrap holds; "zero" stands for a DEK array after `wipe()`. A wrong
password, a cancelled prompt, a refused PUT, an answer that never arrives and
the auto-lock are actions.

**Accounts** is `auth.go` with `recovery.go` for email accounts. `request[r]` is
a request between two statements others can observe. A transaction that locks
whatever it reads is one step. Those of `RegenerateCodes` and of
`RecoverAccount` are two: each ends in a DELETE, which removes the rows of its
own snapshot, and then a commit (`DeleteCodes`, `CommitCodes`;
`DeleteSessions`, `Reset`), and in between others insert, or wait for its row
locks. `resets`, `resetBy`, `revoked` and what a session proved are history. An
auth key is identified with the password it is derived from; hashing is perfect.

**AccountVault** puts one account and its row together: `RecoverAccount`'s
transaction is one step over both, and a client with a session seals with the
secret that opens the vault it read. `Emails` has one member, the owner of the row.

**NostrLogin** has a clock, the challenge table (expiry, key), the three
account-creating paths and the sessions opened. `LoginTicket` is the abstract
promise of a challenge store. The refinement maps a challenge to `redeemed`
when it admitted a login, `open` while it is stored, and `void` afterwards.

**NostrNames** adds NIP-05 to it: `check[v]` is one POST /nip05/verify between
reading the account's key, the document's answer and the UPDATE. A domain
elsewhere gives and takes its names at any time; for an address served here
the answer comes from the very rows that verification writes.

**WebAuthn** has a row per challenge (`row`), what it was issued for
(`ceremony`), the authenticator's answer (`response`) and the passkeys. One
action per statement: `BeginClears` and `BeginStores` are the DELETE and the
INSERT of `storeWebAuthnSession`; a Finish call loads, is validated by the
library, writes the sign count or the passkey, removes the row, opens the
session. An authenticator answers a challenge once, and the answer is delivered
any number of times.

**FolderTree** is `folders.go`: the rows of one user's folders, and each
request between its statements. The cycle check reads one row at a time while
other requests commit. A DELETE with its cascade is one step, which waits for
the rows an open reorder has updated; the subtree it takes is the least set that
holds the folder and the children of its members. `basis` in a request is
history: whether what it has checked still holds. `MoveFolder` with no parent
changes nothing, though its comment (folders.go:347) promises a move to the
root: no step of the module, and none of the code, moves a folder there.

**Catalogue** has what is filed: entries with tags and attachments, secrets with
value, rotation stamp and position. `UpdateEntry` is a transaction of five steps:
check, columns, the snapshot of its DELETE of tags (`ClearTags`), the end of
that DELETE (`DeleteTagRows`), and the INSERT of tags with the commit. In
between matter the row lock of the UPDATE, and that a row of `vault_entry_tags`
has an identity (`by`): a DELETE that waited removes those of the rows it had
seen that are still there, and a row with the same tag that somebody has
inserted meanwhile is another one, which stays. `Counted` is the trigger on tag
counts, row by row; a transaction that has counted holds the rows of its tags
until it commits (`Unlocked`). `UpdateSecret` is read and write of a whole row,
`UpdateTag` read and write of three columns, `CreateAttachment` count and
insert. Foreign keys act with the statement that concerns them.

**Sharing** has teams, roles, invitations, shares and folder keys. Accepting an
invitation is a transaction of three statements, each a step; everything else
checks what cannot change afterwards and is one step. `CheckFolderAccess` is the
query with its order and its LIMIT, `Listed` the list of folders shared with a
user.

**Access** is the way of a request: limiter, authentication by vault token or by
a signer session with its cache, handler, on a pool of connections. `Routes` are
the kinds of requests an instance has: "list" and "names" are those whose
handlers keep the connection of their rows while they wait for something else,
for a second connection (`ListEntries`) or for another service (`GetNostrJSON`,
`RelaysKnown`). Time passes in ticks; counters, cached sessions and calls to the
signer carry the ticks they have left. The database can crash (the counters are
in an UNLOGGED table) and the server restart (the cache is in memory). A crash
breaks connections but wakes nobody who waits for one in the server's own pool.

**Passwords** and **Search** are pure: the generator, the strength score, the
score of a vault; and what a listing or a search returns, in pages. What is
stated of them are the ASSUMEs of MCPasswords and MCSearch, which TLC evaluates
before it explores the run `catalogue`; StoreProofs proves what it can of them
for every input.

Definitions whose comment begins with "Mutant:" are deliberately broken
variants of the operator that follows them; no specification uses them. They
record which property notices which bug.

## 3. Runs

| run | instance | shows |
|---|---|---|
| vault_store | 2 PUTs, 2 blobs, versions to 4 | versions never run ahead of writes; without overlaps versions count writes; a save whose row nobody wrote since its check replaces the version it named, whatever went before |
| vault_client_tabs | 2 tabs, one operation each, 2 edits, 2 unlocks per tab | unless saves overlap: no save drops another tab's entries, a tab at the row's version shows the row |
| vault_client_locks | 1 tab, 2 operations at once, imports, enrolment, passkey | locks between operations are harmless; until a tab hears an answer after a lock that fell before it, the vault opens, locked tabs hold nothing and open ones a live key; the CONSTRAINT cuts what follows such an answer, and unlocks by passkey after a lock within an operation |
| vault_client_wiped (violation) | 1 tab, 2 operations | a late save puts back a zeroed key; the vault is sealed under zeros |
| accounts | 1 address, 2 secrets, 2 codes, 2 tokens, 2 requests, with fairness | codes reset once, no session is left from before the DELETE of the last recovery, upgraded verifiers only change by recovery, requests are answered |
| account_vault | 1 client, 2 requests, batch of 2 codes, versions to 4 | unless a save overlapped, the stored vault opens with the secret that signs in |
| nostr_login | 2 challenges, 2 keys, 2 requests, clock to 4; 1 address here, 1 elsewhere, 2 checks | challenges refine tickets, one account per key, sessions rest on consumed challenges; a name is only ever had by a key it was given to, and an address served here is never confirmed for who does not have it |
| folder_tree | 3 folders, 1 entry, 2 requests | unless another move was written since a walk began or a query of it failed, moves keep a forest; a non-recursive delete takes only what came after its counts |
| webauthn | 1 user, 1 passkey, 3 challenges, 2 requests, 1 failed removal | a challenge that opened a session is gone; one ceremony of a kind and growing sign counts unless calls overlapped; a deleted passkey stays deleted |
| catalogue | 2 entries, 2 tags (1 of the system), 2 inserts, 1 secret, 3 edits, 2 requests, limit 2 | tag counts and rotation stamps are right whatever overlaps; tags, edits and the limit of attachments are right unless something overlapped, and the limit is exceeded within bounds |
| sharing | 3 users, 1 team, 2 invitations, 1 folder, 2 shares, 2 acceptances | an invitation admits one unless acceptances overlapped, roles come from who may give them, one query decides access as all shares say |
| access | 2 requests (sign-in, list, names), 1 client, limit 1 a window of 2 ticks, TTL 1, timeout 1, 2 connections, 1 crash, with fairness | no span of a window admits more than twice the limit; who keeps trying gets through; ended sessions are forgotten; requests end, unless they wait for relays or every connection is held by a handler that waits |

**Bounds, and why they are enough.** The races are between two parties and a
third only adds more of the same pair, so two requests (tabs, operations) show
each; where a race has three parts (two saves and a recovery, a sign-in and a
recovery) the recovery is one of the requests or an action of its own. Three
folders make the shortest cycle of two moves with a bystander, three challenges
let two ceremonies of a kind meet one of another; two connections let two listings
hold the one that the other needs. Versions go two past what one race needs.
The clock outlasts an expiry, the grace period and a second issue;
a window is two ticks, so that a hit is in its first or its last. `MaxVersion`,
`MaxUnlocks`, `MaxTime`, `MaxUncleared`, `MaxCrashes`, `Inserts` and the token
and code pools are bounds of the model, named as such where they are declared;
the proofs hold for every value of them. Two `Inserts` are enough for two
updates and what was there: rows that are gone leave their name to others.

**Constraints.** Three runs leave out combinations of parts that do not touch
each other. `Apart` (nostr_login): names are explored while no challenge has
been issued and no time has passed, since a check of a name reads neither.
`OneAspect` (catalogue): tags, secrets and attachments one at a time; they share
the entry and the deletion of it, which each aspect has. `SharesLast` (sharing):
folders are shared when the acceptances are over, since whom a share reaches is
looked up when it is used. The theorems of these modules have no such
constraint, and cover every property of the three runs. `Timely`
(vault_client_locks) is the premise of `OnlyLateAnswersHarm`, which is weaker
than that of `QuietLocksAreHarmless`; it also leaves out unlocks by passkey
after a lock within an operation, which the theorems of both cover.

Symmetry sets are permutations of interchangeable model values, and a run with a
liveness property uses none. CHECK_DEADLOCK is off because the bounds, or an
idle system, end behaviours legitimately.

**Type invariants.** `StoreTypeOK`, `FolderTypeOK` and `TypeOK` of Accounts are
proved for every instance (part of the invariants of section 6) and not run
again, nor is `NothingIsOrphaned` of FolderTree. `CatalogueTypeOK`,
`SharingTypeOK`, `WebAuthnTypeOK` and `AccessTypeOK` are run and proved. The
types of NostrLogin and NostrNames are part of the invariants of NostrProofs.
`TypeOK` of VaultClient and `AccountVaultTypeOK` are proved
(`ClientTypesCorrect`, `CompositionTypeCorrect`); they hold in the runs of those
modules too, which spend their time on other properties.

**Evaluated facts.** With `catalogue` TLC evaluates what is stated of passwords
and searches over bounded inputs, among it: a score does not fall with length or
classes, a default password is strong, a run of characters is found exactly when
there is one, a score of a vault is a percentage and is explained, reuse groups
are the classes of equal passwords, no answer is no verdict on a breach; pages
of an order without ties share nothing and miss nothing, totals count what is
found, more tags find more. Some of them say what one might not expect
(section 4).

## 4. Findings, and what does not hold

`vault_client_wiped` is the listed finding: the auto-lock fires while a save is
in flight, the late answer puts back a session whose key is zeroed, and the next
save seals the vault under zeros. Seven more statements do not hold and are kept
with the module that says them; a run of a changed configuration shows each:

* `NoLostUpdate` (VaultStore, an action property): two PUTs that both pass the
  version check. Add it to the PROPERTIES of `VaultStore.cfg`.
* `AcknowledgedEditsStored` (VaultClient): the import loop calls an `addEntry`
  that keeps the entries of its first call (ImportModal.tsx:302), so that only
  the last item stays. In `VaultClientWiped.cfg` take `Actions = {"import"}`,
  `Saves = {o1}`, `TabOf <- OneOp` and this invariant.
* `VaultStaysReadable` with an import and nothing else: the loop goes on after a
  lock, with the session it began with, and the next item is sealed under
  zeros. The configuration is that of the import above with this invariant. And
  `OpenTabHoldsLiveKey` with one operation at a time: an enrolment and then an
  import, each interrupted by a lock, leave a wrap and a body that a passkey
  opens, both under zeros. Take `Saves = {o1}`, `TabOf <- OneOp`,
  `Actions = {"add", "import", "passkey", "enroll"}`, `MaxUnlocks = 3`,
  `MaxVersion = 5` and this invariant.
* `EnrolledPasskeyOpensVault`: a lock during the passkey prompt of an enrolment
  (VaultContext.tsx:374) has it wrap zeros, so that the passkey opens nothing. In
  `VaultClientWiped.cfg` take `Actions = {"enroll"}`, `Saves = {o1}`,
  `TabOf <- OneOp` and this invariant.
* `SerialSavesKeepEntries` with passkeys: the lock screen's blob is opened later
  with the version of then, and the next save drops an entry although saves
  never overlap; nor does `CurrentTabShowsStoredVault` hold. In
  `VaultClientTabs.cfg` replace "revoke" by "passkey" and keep one of the two.
* `SessionsProveCurrentSecret` (Accounts): a sign-in checked before a recovery
  opens its session after it, or between the DELETE of the sessions and the
  commit (auth.go:698-704). Add it to the INVARIANTS of `Accounts.cfg`.
* Without their conditions ("unless ... overlapped", `basis`), the properties of
  folder_tree, catalogue, sharing and webauthn fail: two moves that both pass
  their cycle check make a cycle (folders.go:238 and 439), whose folders are
  then missing from `GetFolderTree`; two updates of tags merge, {a} and {b} of an
  entry tagged a to {a, b} (entries.go:427); an `UpdateSecret`
  takes back what another wrote; uploads exceed ten; an invitation admits two; a
  sign count goes back.

The passing properties next to them say under which condition the code does
keep its promise, which is how far each flaw reaches.

Of the pure parts: `EnforcedLosesWhatItOverwrites` and `AClassCanBeLost`: the
generator writes a missing class over the first characters and can so remove the
only one of another class, although password_generator.go:88 says it ensures one
of each. `EmptyCharset`: custom symbols that are all excluded leave nothing to
draw from, and `rand.Int` panics. `DeductionsCanExceedTheirPoints`: shares of
service.go:137-165 are of entries with secrets, while secrets are counted, so a
kind of trouble can cost more than its points. `TiedPagesMayMiss`: entries of
equal position and name may be on two pages or on none. `LargeLimitsShrink`: who
asks for 51 recent entries gets 10. `IncludeAllIsMoot`: the search handler passes
no filter, so its include_all changes nothing.

## 5. Fairness

`accounts` and `access` check liveness.

*Accounts.* net/http runs each request in a goroutine of its own and Postgres
answers or the connection breaks, so every request takes its next step: weak
fairness of each request's steps. A statement that waits for a row lock is woken
when the lock is released and is granted it in queue order, hence strong
fairness of `MarkUsed`, `Upgrade` and `DeleteSessions`, the statements that can
find a lock taken again.
`Fail` is never fair, except where the finite pools of tokens and codes would
stop a request that the code would not stop.

*Access.* Time passes: weak fairness of `Tick`, which itself waits for a call to
the signer that has reached its timeout, as the HTTP client gives up then. Each
request has strong fairness of what the server does for it: `database/sql` hands
a returned connection to one of those who wait, drawn at random, so whoever can
go on again and again does, with probability one. The signer need not answer,
nor need the services that know relays, clients need not come back, and nothing
is assumed of crashes, which free nobody who waits in the pool. Under this
`RetriesGetThrough`: refused hits do not extend the window; `RequestsEnd` but
for what waits for relays itself (`AsksRelays`) and up to the state
`PoolIsHeld`, in which every connection is held by a listing that wants another
one or by a request for names that waits for relays. The code can reach both.

Nothing is assumed of users: whether requests arrive is open.

## 6. Proofs

TLAPS checks every proof to the last leaf; nothing is assumed but the named
assumptions on constants: `None` is none of the others, bounds are
natural numbers, sets that are counted are finite, every operation runs in a
tab, and AccountVault has one account. All are of the form Init, step,
conclusion, with one step per action. Every safety property of the passing runs
is the subject of a theorem; two theorems of VaultClient have premises, which
are explained there.

* **StoreProofs**, of VaultStore, Catalogue, Search and Passwords.
  `VersionWithinWrites` is not
  inductive: a save between check and write carries a version it will build on.
  The invariant adds that such a save named a version at most the writes it had
  seen, that this is at most `writes`, and that a save whose snapshot is current
  names the current version, whatever has overlapped before. From it:
  `VersionsBounded`, `VersionsCountWrites`, and the action property
  `UnopposedSavesAreSafe`.
  Of Catalogue, `Recounted`: the trigger, which counts rows, keeps usage equal to
  the number of entries that carry a tag (`UsageCounts`). It does so because of
  what `TagRowsNext` keeps: no entry has a tag twice (`OneRowPerTag`), the rows an
  open transaction has deleted are all still there for the others
  (`DeletedAreThere`), and no two transactions have deleted rows of one tag
  (`LocksApart`), so that nothing is counted down twice. The other invariants say how long what a request has read is
  worth something: the tags an open transaction deleted include all there are
  (`UpdatesReplaceTags`), the row an UpdateSecret holds is the stored one
  (`SerialEdits`), every row held or stored has its own stamp
  (`RotationStamped`), attachments and uploads that have counted are fewer than
  limit and requests together (`AttachmentLimit`); "unless overlapped" each time
  that one request at a time has read.
  Of Search, an order of rows is a bijection from 1 .. n, so where no two rows
  tie the position of a row is the number of those before it (`PlaceIsRank`).
  Hence a page has the rows whose places fall on it (`ListingsShowPlaces`), and
  pages that are asked for one by one partition the listing
  (`PagesPartitionListings`). With ties only the first page has a meaning: nothing
  it leaves out beats anything on it (`RecentAreTheLatest`,
  `FrequentAreTheMostUsed`). Of Passwords: when the generator has nothing to
  draw from (`EmptyCharset`), that the strength score never falls with length or
  classes nor rises with patterns (`StrengthScoreMonotone`), that whoever is not
  advised has a strong password, the two patterns without advice apart
  (`NoAdviceMeansStrong`), that the score of a vault is a percentage and each kind
  of trouble keeps to its points, the latter only with one secret for an entry
  (`OverallScoreIsPercentage`, `DeductionsKeepToTheirPoints`), and that groups of
  reused passwords are those with the same password (`ReusedIsReuse`).
* **VaultClientProofs.** One invariant, `ClientInv`, says of the row, of each
  tab and of each operation between its awaits what holds always, what holds
  while no lock fell in the middle of an operation (`interrupted = {}`), what
  holds while no wiped key is sealed with (`Harmless`), and what versions tell
  while no writes overlapped (`Plain`). The session an operation captured is
  either that of its tab as it is now, or its tab is locked
  (`OperationLive`). An operation that names the row's version contains the row's
  entries (`OperationFollows`, `SaveFollows`), although what it holds was
  captured before an await. Almost every step is one tab's, so a proof looks at
  that tab and its operations (`StepInTab`).
  `LocksBetweenOperations` and `LateAnswersAloneHarm` hold without a premise, for
  any number of operations at once. The second has an invariant of its own over
  ClientInv: until a tab hears an answer after a lock that fell before it
  (`late = {}`), the row and every blob and session in use have the live key, and
  an open tab is in its last unlock, which no lock has wiped (`TimelyInv`); a
  lock in the middle of a prompt or of scrypt, or an answer that never comes,
  does not change that. `CurrentTabsShowVault` and `SavesKeepEntries` suppose one
  operation at a time in a tab, no import and no unlock by passkey:
  `vault_client_tabs` is such an instance, and section 4 shows what goes wrong
  without. The number of tabs, locks
  at any time, lost answers, enrolments and revocations are free.
  `ClientsImplementStore` is the refinement: the row sees a client's requests
  and nothing else.
* **AccountsProofs.** The invariant for `RecoveryCodesSingleUse` says where a
  code is: unused, or spent by exactly one request that has not reset yet, or
  paid for (`resetBy`), and never two of them. `RecoveryRevokesSessions` is about
  tokens: the DELETE of a recovery holds every session of the account with a
  token handed out so far (`SessionsRevoked`), those inserted later have other
  tokens, and the commit removes what the DELETE held, so that none is left with
  a token from before it. What was inserted in between stays, and is not claimed
  to go.
  `UpgradedKeysReplacedOnlyByRecovery` is the action property over the same
  invariant. `VaultOpensWithSecret` is of the composition: every step of
  AccountVault is a step of Accounts or leaves the account alone, so the
  invariant of Accounts carries over, and `CurrentSealsOnly` adds that a version
  names one seal. Whoever may still write over the row as it is, an open client,
  a save received, checked or answered, holds the seal of the version it names;
  recovery makes a new version. An upgrade under way keeps the secret
  (`UpgradesKeepSecret`), because the web client sends one password in two forms.
  `CompositionImplementsAccounts` and `CompositionImplementsStore` are the
  refinements: AccountVault is an account of Accounts and a row of VaultStore,
  so that the theorems of both hold of the two together. The second needs that
  clients and saves only know versions within the bound, since VaultStore
  receives no others.
* **NostrProofs.** `ChallengesImplementTickets` is the refinement: initial
  states map to initial states, every step to a ticket step or a stutter. It
  needs that a stored challenge was never admitted and is held by the key in
  its row. `AccountsUnique` needs that accounts made and the row agree.
  `SessionsRest` follows a session to the challenge that admitted it. For names
  the invariant follows the key: from the document to the answer a check holds
  to the account it is written to (`NamesComeFromTheirDomains`,
  `ServerConfirmsNoOwnName`); `NamesLeaveSignInAlone` shows that the extended
  specification implements NostrLogin.
* **FolderTreeProofs.** "No cycle" is stated over sets: no set of folders is
  closed under `parent_id`. It is not inductive, because a request about to
  write a parent must be known to be harmless. The invariant says why it is:
  the folders its walk visited are closed under `parent_id`, contain the new
  parent and not the folder that moves (`Passed`; `Climbing` while the walk is
  under way), so that a cycle made by the move would have been there before
  (`MoveKeepsForest`). Creates and deletes keep this, another move does not, and
  therefore makes every walk stale. From the same invariant:
  `NothingOrphaned`, and `DeletesTakeNothingAlong`, where a counted folder is a
  leaf and the cascade of a leaf is the leaf (`LeafSubtree`).
* **WebAuthnProofs.** `Facts`, what never reverses: a challenge is issued once,
  answered once, and a Finish call works on an answer of its kind. Over it, one
  invariant for each theorem: a request about to open a session has removed the
  challenge or failed to (`OpenedMeansOver`); between the DELETE and the INSERT
  of a Begin call nobody else's row is there unless Begins crowded
  (`CeremoniesReplaceEachOther`); one sign-in at a time has read a sign count
  unless it is contested (`SignCountsOnlyGrow`); a passkey comes from one
  registration, which is spent once the passkey is stored
  (`DeletedMeansDeleted`).
* **SharingProofs.** Acceptances of an invitation that are over and in progress
  never outnumber the requests, and without an overlap there is one in all
  (`InvitationsAdmitOne`). `RolesGranted` keeps inviters' roles, and
  `OneShareDecides` shows that the strongest share, found by order and LIMIT,
  decides as all of them would.
* **AccessProofs.** From the end of a signer session the time passed and the time
  left, of an answer on its way or of a cached session, add up to no more than
  the timeout and the TTL together, whichever answers cross
  (`SignerSessionsEnd`). `AdmissionsStayBounded` is about windows:
  of the admissions in a span, those since the row's window began are at most
  its count and at most the limit, and the older ones, which are of one window
  only, at most the limit (`WindowAdmits`); when the row's window is over, the
  older ones have left the span, and its own become the older ones. The
  admissions of a span are pairs of an age and a number, so that the two parts
  are disjoint sets whose cardinalities add up.

Only model-checked: liveness (`RequestsAnswered` of accounts, `RetriesGetThrough`
and `RequestsEnd` of access), which under fairness is out of the prover's reach,
and the other facts of Passwords and Search, which TLC evaluates: what a counting
loop (`RunsAreFound`) or a selection from a sequence (`Enforced`) returns for
every input is an induction over data, and some are examples
(`TiedPagesMayMiss`, `AClassCanBeLost`, `DeductionsCanExceedTheirPoints`).
The premises of the two theorems of VaultClient are not a limit of the prover:
with passkeys both are false (section 4).

## 7. Abstractions, and what they leave out

* Cryptography is perfect: what a key opens is what it sealed; salts, nonces
  and formats are gone. Random values (codes, tokens, challenges, ids) never
  repeat.
* One user's data in VaultStore, VaultClient, FolderTree and Catalogue; rows of
  different users share no state, and what a service changes it has looked up
  among the rows of its user first. Accounts has a set of addresses and TLC
  takes one.
* A signed Nostr event is the key and the challenge it proves, a passkey's
  answer the challenge, the passkey and its counter; what verification refuses
  changes nothing and is not modelled. `now` is one clock for replicas and
  database.
* Names, icons, colours, usage stamps are left out; a taken name is one of the
  ways a request fails. An entry's columns count as one. In FolderTree entries
  are filed but not deleted, which could only make a count smaller. That two
  reorders waiting for each other end rests on Postgres' deadlock detector and
  is assumed.
* A query of Access takes a connection and returns it in one step, except
  ListEntries', which holds one while it asks for more, and GetNostrJSON's,
  which holds one while it asks another service. Counts above the limit are one
  value, and so are rows still to come.
* Passwords are classes and marks of characters; entropy is in thousandths of a
  bit; the final shuffle, common lists and HTTP are inputs. Ranking by full text
  is taken as any order that the other columns allow.
* UI texts, toasts, logging and the shape of JSON are left out.

## 8. Not modelled

* **Other operations of the web client** (update, delete, favourite, folders of
  an entry): they build a new list and save it exactly as addEntry does; only
  adding is an action, since the properties are about entries that must not
  disappear. The migration of v1 vaults and a vault that is still empty are left
  out, and so are the browser APIs behind the signer probe, passkey autofill and
  Nostr popups of `AuthContext`.
* **Local storage** (`internal/storage`): nothing in this commit constructs it,
  so the program has no state of it.
* **Auth providers, Lightning, payments, identity**: second implementations and
  lookups that no route of this commit reaches, or that are disabled where one
  does. The display names of `nip05.go` are called by nobody.
* **Legacy recovery service**: no route reaches it; `internal/recovery` is used.
* **Crypto primitives**: pure computations on bytes, taken as perfect.
* **Configuration, migrations, metrics, logging**: no protocol state. The pool,
  the prune loop and the restart are in Access.
* **TypeScript strength score**: a twin of the Go one, which is modelled; the
  reports of the audit are modelled by the counts their queries return.
* **Browser extension, mobile, desktop and SDK clients, deployment**: further
  clients of the same API, whose saves meet the vault row as those of
  VaultClient do, thin shells, and build files.

Some hazards have no property that holds. Two are modelled and nothing promises
anything of them: a registration whose session fails leaves the client without
its codes (auth.go:179), and two regenerations at once leave sixteen codes
(recovery.go:268). Four are stated and do not hold, as section 4 says: a session
opened beside a recovery (auth.go:441), an enrolment across a lock
(VaultContext.tsx:374), a peeked blob (VaultContext.tsx:338), the import's
closure (ImportModal.tsx:302). That reorders of folders which wait for each
other end rests on the database.
