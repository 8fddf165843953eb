# TLA+ models of the SUNET vc services

This directory holds TLA+ models of the stateful core of the repository: the
store that carries an authorization session from request to token and the
authorization flows built on it, the lock that replicas share and the client
renewal it protects, the credential endpoint, the token status lists behind it
and their publication, and the verifier's page with its notifications. TLC
checks small instances (`PROJECT.json`, "runs"); TLAPS proves the main results
for every value of the constants ("theorems").

    tlc -workers 2 -config MCIssuerFlow_mongo.cfg MCIssuerFlow
    tlapm IssuerFlowProofs.tla

## 1. The system

Five programs share the packages under `src/pkg`:

* **apigw** (`internal/apigw`): the OpenID4VCI front of the issuer. It is the
  OAuth authorization server (PAR, `/authorize`, token, refresh,
  pre-authorized code, authorization challenge), logs the person in through
  SAML, OIDC or a wallet presentation, shows the documents for consent, and
  serves the credential endpoint.
* **verifier** (`internal/verifier`): an OpenID provider whose login is a wallet
  presentation (OpenID4VP), plus a standalone and a DC API flow.
* **issuer** (`internal/issuer`): signs credentials on gRPC calls of apigw.
* **registry** (`internal/registry`): token status lists.
* **wallet** (`internal/wallet`): a command line client.

Each HTTP request runs in a goroutine of its own, and a deployment may run
several replicas. What requests share is state in `src/pkg/cache`, which exists
twice: in process memory (a ttlcache and maps) and in MongoDB. Which of the two
is used is configuration, and the handlers are the same for both. Most of what is
hard in this system comes from that: the two stores answer `Get` with a shared
pointer and with a private copy respectively, and the handlers assign to what
they were given.

### Inventory

| Part | State | Operations | Interacts with | What is hard | What makes it correct |
|---|---|---|---|---|---|
| Authorization context store, in memory (`pkg/cache/authcontext.go`) | ttlcache of structs, map of secondary indices, one mutex | Save, Get*, GetSnapshot, Update, Forfeit, Redeem, ConsumeTXCodeAttempt, Claim*/Resume, Rotate, Delete, ... | every handler of apigw and verifier | pointers leave the mutex; eviction callbacks run late in goroutines; lookups renew the TTL | a handle resolves exactly to the document that carries it; budgets hold |
| The same in MongoDB (`mongo_store.go`) | one document per session, TTL index on `created_at` | the same interface, one-document updates | the same | `Update` replaces a whole document from a copy | conditional updates are not undone |
| Distributed lock (`lock.go`) | one record per key | TryLock, Unlock | OIDC client renewal | expiry while held, late release, crash | one live holder; nobody blocks for ever |
| Generic caches (`pkg/cache`) | key-value with TTL | Set, SetNX, GetAndDelete | nonces, ephemeral keys, signed metadata | check-then-use | one use per nonce, one key per session |
| Verifier as OP (`handler_oidc.go`, `handler_session_preference.go`) | session status, code, deadlines | Authorize, request object, direct post, display, token, poll | store, page, wallet, relying party | four parties write one session; deadlines against retention | one answer per code, for presented claims only; no code lost to retention |
| Browser issuance in apigw (`handlers_oauth.go`, `handlers_oidcrp.go`, `endpoints_saml.go`, `handlers_verifier*.go`, `handlers_users.go`) | authorization context, Document cache | PAR, authorize, login callbacks, consent, token, refresh | store, identity providers, wallet | callbacks Update what they fetched earlier | one token set per code, each refresh token used once, the last token works |
| Interactive authorization (`handlers_oauth_challenge.go`) | auth_session, issuer_state | challenge, resume | store | two attempts on one offer | one winner, no handle of the loser left |
| Pre-authorized code (`handlers_oauth.go`) | redeemers, tx_code attempts, child sessions | redeem | store | concurrent guesses and redemptions | budget and redeemer limit hold |
| Credential endpoint (`handlers_issuer.go`, `internal/issuer/apiv1`) | nonces, DPoP jtis, credential subjects | nonce, credential, the issuer's Make* calls | caches, issuer, registry | nonce checked, then consumed; a batch fails half way; entries claimed before signing | one response per nonce, one live status entry per credential, every credential findable for revocation |
| OIDC relying party (`auth_providers/oidcrp`) | registered client per replica, stored registrations, sessions | initialize, renew, adopt, prune, start and finish a login | lock, database, OP | replicas renew one secret; leases expire; callbacks reach another replica | a started login can finish; one registration per secret; an expired secret is replaced |
| Registry (`internal/registry`) | status list entries, section metadata, cached signed lists | AddStatus, UpdateStatus, section rollover, refresh | database, caches, issuer, administrators | claims and rollovers race and crash half way; refreshes are joined, slow or lost | no entry given twice; position is index; sections in order; every write is published and none taken back |
| Issuer | audit log queue | sign | registry | full queue | no lost entry |
| Verifier page and notifications (`handlers_ui.go`, `handlers_verification.go`, `notify`, `pkg/pubsub`) | session, cached credentials, used jtis, listener groups, tabs | interaction, resume, completion, event stream, direct post, publish | store, caches, browser, wallet | publish before subscribe, reloads, lost connections, deadlines, restarts | a waiting page is told or has an end; its code resolves; a key-binding JWT of a payment is accepted once |
| Signed metadata | cached documents | SetNX, periodic Set | caches | slow signer | newest document served |
| DIDComm, credential formats, trust and keys, protocol types, SAML, rate limits, TTL index maintenance, databases and broker | mostly data or library state | | | | |

`PROJECT.json` lists each part with its sources and status, and the hazards of
the code at their lines.

## 2. The modules

A component has a specification, an `MC...` module with one `.cfg` per run, and
where it is proved about a `...Proofs` module. Modules that interact are
composed: `ClientRenewal` EXTENDS `Locker` and takes the lock by its actions;
`CredentialEndpoint` and `StatusPublish` EXTEND `StatusAllocator`, the abstract
specification that `StatusList` implements (`INSTANCE StatusAllocator WITH
issued <- Issued, held <- got`); `VerificationFlow` EXTENDS `Notify`. The definitions marked "Mutant" next to an action are
that action with a plausible bug; `PROJECT.json` pairs each with the property it
must break, and `Spec` never uses them.

### Locker (`pkg/cache/lock.go`)

One lock key. `lock` is the record of the backend, `hold[c]` what a caller
remembers. A deadline is the time left, so no clock grows. `backend` is chosen
in `Init` and never changes: `MemoryLocker` takes over an expired record itself
(`Free`), `MongoLocker` inserts and relies on MongoDB's TTL monitor (`Sweep`).
`Crash` loses the token of a replica without releasing the record. Tokens are
random in the code; the model reuses one that nobody remembers.

### MemoryStore (`pkg/cache/authcontext.go`)

`cache` maps sessions to pointers, `heap` holds the structs, `index` is the map
of secondary indices, `left` the TTL of each item, `pending` the evicted structs
whose `OnEviction` callback has not run yet. Every method of the store holds
the mutex and is one action; everything outside of it is a step of its own: a
request keeps the pointer `Get` returned (`ref`), writes a handle into it
(`Fill`), and calls `Update` later; the cleaner (`Sweep`) and the callbacks
(`Evicted`) run whenever they like.

Handles (code, request_uri, auth_session, issuer_state, ephemeral key id, access
and refresh token) are values minted for one field of one session, so the field
and the owner of a handle are constants. Methods that differ only in the plain
field they assign share an action (`SetPlainField`, `ReplaceByCopy`). The item
TTL follows the vendored ttlcache: every hit touches the item.
`InPlaceRotation` says whether requests overwrite a full handle field before
`Update` (the verifier does) or only fill empty ones (apigw).

### VerifierOP (`internal/verifier/apiv1`)

One session from `Authorize` to the token endpoint. Sessions have random ids and
share nothing, so one is enough. A handler is split where it accesses the
session: `Fetch` (Get), `Assign` (assignments to the fetched context), `Put`
(Update). With `Backend = "memory"` all handlers share `doc`, so an assignment is
visible at once; with `"mongo"` each has `copy[r]` and `Put` replaces the
document. `keep` is when the store may evict: renewed on every access in memory,
fixed at `created_at` + `authContextRetention` on MongoDB.

| Action | Code |
|---|---|
| `Authorize` | `Authorize` |
| `GetOIDCRequestObject`, `UpdateSessionPreference`, `ProcessCallback` | the handlers of these names |
| `ReceivePost`, `RejectPost`, `AcceptPost`, `MintCode`, `Save` | `ProcessDirectPost` |
| `OpenDisplay`, `Confirm` (then `MintCode`, `Save`), `Cancel` | `ConfirmCredentialDisplay` |
| `LookupCode`, `MarkCodeAsForfeited`, `RefuseToken`, `SignIDToken`, `AnswerToken` | `handleAuthorizationCodeGrant` |
| `PollSession` | `PollSession` |
| `Evict`, `Tick` | ttlcache or TTL monitor, the clock |

`redeemed` and `replayed` record which codes were answered with tokens, once
and more than once; `lease` the latest expiry of a code that was stored;
`polled` what the page was told last.

### IssuerFlow (`internal/apigw`)

One authorization context from the pushed authorization request on. Contexts
live in a `heap` with pointers as in MemoryStore, since in memory
`ExtendExpiry`, `SetAuthProvider` and `RotateRefreshToken` point the cache at a
copy and leave earlier pointers stale, while `ForfeitAuthorizationCode`,
`Consent` and `SetIdentifier` write through the cached struct.

| Action | Code |
|---|---|
| `OAuthPar` | `OAuthPar` |
| `OAuthAuthorize`, `ExtendExpiry`, `SetAuthProvider` | `OAuthAuthorize`, `endpointOAuthAuthorize` |
| `Callback`, `StoreVCIDocuments`, `StoreIdentifier` | `endpointSAMLACS`, `OIDCRPCallback` |
| `VerificationRequestObject` | the same |
| `VerificationDirectPost`, `PersistPresentation`, `PublishDocuments` | `VerificationDirectPost`, `finalisePresentationVerification` |
| `FetchAndStoreForVCI`, `UserLookup` | `endpointOAuthAuthorizationConsent`, `UserLookup` |
| `ForfeitAuthorizationCode`, `OAuthToken`, `PersistToken` | `OAuthToken`; its pre-authorized branch is not modelled |
| `GetByRefreshToken`, `RotateRefreshToken` | `handleRefreshTokenGrant` |
| `Fail` | any handler that ends with an error before its next write |

Requests of every kind overlap at any time. `OIDCRPCallback`, `endpointSAMLACS`,
`VerificationRequestObject` and `finalisePresentationVerification` Update a
context they fetched earlier, also after the consent and after the wallet has
redeemed the code, and may take the mark, the consent or the token from the
stored one (`WriteBack`). The code does that on both stores, so it happens in
the model: the history variable `undone` records it (`Undoes`). What holds of the
wallet's half holds until then, and the properties say so.

Abstractions worth knowing: the clock starts with the session, so `CreatedAt` is
0; the comparison and the write of `RotateRefreshToken` are one step, as they are
under the mutex and in one `findOneAndUpdate`; the deadline `ExtendExpiry`
stores is computed in the step that stores it; whether documents come from an
external API is chosen per callback; request contents, client authentication,
PKCE and DPoP appear as the choice to `Fail`.

### StatusAllocator and StatusList (`internal/registry`)

`StatusAllocator` is what the registry promises: an entry of the list belongs to
nobody or carries the status of one credential (`issued`), `Allocate` gives a
free one to a caller (`held`), `Release` is the caller done with its answer,
`SetStatus` changes the status of an entry that is issued.

`StatusList` is how it is done: a collection of documents that start as decoys
(`docs`) and a metadata document that names the current section (`meta`), with
no transaction over both. Each database operation of `AddStatus` is a step.

| Action | Code |
|---|---|
| `GetCurrentSection`, `CountDecoys` | `CreateNewSectionIfNeeded` |
| `InsertDoc` | `CreateNewSection`: one document of the ordered `InsertMany`; a duplicate key ends the call |
| `FindMeta`, `UpdateCurrentSection` | the read and the write of `UpdateCurrentSection` |
| `GetRandomDecoys`, `Claim`, `ClaimLost`, `Noise` | `Add` and its retries |
| `UpdateStatus` | `UpdateStatus` |
| `Fault` | a database error or a crash at any of these steps |

Random statuses and the random choice of decoys are any value and any set.
The first section may be any non-empty prefix of decoys, since it too is made
by an `InsertMany` that can be cut short.

### ClientRenewal (`internal/apigw/auth_providers/oidcrp`)

Replicas with their own current client (`cur`) share the stored registrations
(`rows`), the sessions (`flow`) and the lock of `Locker`, of which they are the
callers. A registration is a number, later ones larger; deadlines are time left.

| Action | Code |
|---|---|
| `Initialize`, `InitSave`, `InitFails` | `New`, `initialize`, `ensureInitialized`, `backgroundDiscovery` |
| `AcquireLock`, `LoseLock`, `RenewBlindly` | the three outcomes of `TryLock` in `ensureCredentials` |
| `AdoptAsHolder`, `AdoptAsLoser` | `adoptRenewedRegistration` on either side of the lock |
| `Save`, `Prune`, `RenewFails` | `renewCredentials`: register and store, prune and publish, back off |
| `Release` | the deferred `Unlock`, also after the lease expired |
| `InitiateAuth`, `ProcessCallback` | the handlers of these names, `createSession`, `credentialsForSession` |
| `Die`, `Advance`, `SweepLock` | crash and restart, the clock, MongoDB's TTL monitor |

`blind` and `rogue` record which replicas register without the lock or the store
and which clients came of it; a renewal that is not among them and is inside its
lease is `Coordinated`. Retired registrations a process keeps in memory are left
out, since they only save a look-up that `SessionClientStored` shows to succeed;
registering at the OP and storing the client are one step, because a client that
was registered and not stored leaves no trace here.

### CredentialEndpoint (`handlers_issuer.go`, `internal/issuer/apiv1`)

A credential request is a caller of `StatusAllocator`. Formats are told apart by
what they do with the entry: `"sd-jwt"` references it in the credential, `"jwp"`
does and hands it back when signing fails, `"plain"` (mdoc, VC 2.0) claims one
and does not reference it.

| Action | Code |
|---|---|
| `VCINonce`, `NonceExpires`, `JTIExpires` | the nonce endpoint, cache TTLs |
| `ReceiveRequest`, `LookUpNonce`, `ConsumeNonce` | `VCICredential` up to the call of the issuer |
| `AllocateEntry`, `Sign`, `SignFails`, `InvalidateStatusEntry` | `MakeSDJWT`, `MakeMDoc`, `MakeVC20`, `MakeJWP`, once per key |
| `SkipCredentialSubjects`, `SaveCredentialSubject` | `saveCredentialSubjects` |
| `Respond`, `Die` | the response; an error, a lost call or a crash before it |
| `AdminUpdate` | the administrator's `UpdateStatus`, of any section and index |

`UpdateStatus` takes the section and the index from the form and does not ask
whether `SearchPerson` listed them, so `AdminUpdate` writes any entry a credential
owns (`written` records which); writing a decoy or a position without a document
leaves `issued` as it is.

### StatusPublish (`tokenstatuslistissuer/service.go`)

The same allocator, seen from the lists. A list is abstracted to which write of
each entry it shows (`stamp` numbers the writes). A refresh (`flight`) reads entry
by entry, then sets the JWT and the CWT; refreshes of a section share a
singleflight key, so `refreshSectionAsync` joins one that is running, and the
loop waits for it (`waits`). Writes come from `AddStatus`, from `UpdateStatus` and
from the administrator, who starts no refresh. `ReadFails`, `SkipJWT` and
`SkipRound` are the failures that are logged and skipped; `Advance` ages the cached
tokens and the ticker; a hit touches a token (`GetCachedJWT`, `GetCachedCWT`). Time
does not overtake a due tick: the ticker's tick is taken before the next unit.

### Notify and VerificationFlow (`internal/verifier`)

`Notify` is the notification service: `CH` the listener group of an id,
`listeners` its count, `stream` where each listener is between `OpenListener` and
`CloseListener`. `OpenListener`'s fast path is `Attach`; otherwise `Subscribe`
happens outside the mutex and `Install` finds that somebody was faster, or not.
`CloseListener` is `Unregister` and `Reclaim`, under two locks. A send to a full
buffer drops the message (`Offer`).

`VerificationFlow` puts the page and the wallets on top. A context is its
completion marker (`ctx`), `late` says that its deadline has passed.

| Action | Code |
|---|---|
| `PostArrives`, `VerifyFails`, `Claim`, `ClaimRefused`, `CacheCredentials`, `SaveMarker`, `Announce`, `WriteFails`, `AnnounceFails` | `VerificationDirectPost`, in its order |
| `UIInteraction`, `Rejoin` | `UIInteraction`, `tryReuseInFlightSession` |
| `Connect`, `Refuse`, `Opening`, `OpeningFails`, `HandlerReturns` | `endpointUINotify` |
| `ReceiveMessage`, `ReceiveExpired`, `Reconcile`, `ReconcileFails`, `LoadResult`, `Resume`, `ResumeFails`, `Reload`, `BackToMenu` | the page's script |
| `Disconnect` | the stream breaks; EventSource reconnects |
| `ReadPreference`, `UpdatePreference` | `UpdateSessionPreference` on MongoDB |
| `DeadlinePasses`, `Evict`, `Restart` | time, retention, the process |

`backend` is chosen in `Init`: in memory the context is shared and lost in a
restart, on MongoDB it is copied and survives. A failed write changes nothing.

The answer to a payment carries one key-binding JWT with a `jti` of the wallet's
choice (`PostArrives`), and `UsedJTI` is keyed by it, as `claimJTI` does. Nothing in
`VerificationDirectPost` asks whether the session is complete already, so a second
JWT with another `jti` is accepted for the same session and replaces its marker;
the model allows it. Entries of `UsedJTI` do not expire in the model: their TTL is
that of the presentation-scoped caches, no shorter than a session's deadline.

## 3. What TLC checks

| Run | Instance | Shows |
|---|---|---|
| `store` | 1 session, 2 requests, 4 structs; code, two refresh tokens, issuer_state, auth_session (237 thousand states) | `IndexCovered`, `IndexComplete`: the indices agree with the documents after every interleaving of rotations, competing claims, write-backs of older pointers, evictions and late callbacks. |
| `store_evict` | 1 request, TTL 2, code, request_uri, access token, an ephemeral key, 1 redeemer, 1 tx_code attempt; fair cleaner and callbacks | `ExpiredHandlesVanish`: handles of an expired session leave the index. |
| `op_memory` | 2 requests of any kind, 2 codes, 2 presentations | `OneTokenPerCode`, `SignsPresentedClaims` on the shared struct. |
| `op_mongo` | 2 requests, handlers that take time, 1 presentation | `PollCarriesCode`, and `CodeRetained`: the retention anchored to `created_at` covers every code stored, also after a credential display confirmed at the last moment. |
| `issuer_memory` | 2 requests, 2 tokens, 4 structs (1.1 million) | `OneTokenPerCode` where handlers share a struct that three operations replace, until a browser request writes an older one back. |
| `issuer_mongo` | 2 requests, 3 tokens (1.7 million) | `OneTokenPerCode`, `RefreshTokenOnce`, `LatestTokenResolves` on private copies, until then; `StoredFactsStick` (nothing but such a write-back takes back the mark or the consent) and `ContextOutlivesCode`. |
| `renewal` | 2 replicas, 3 clients, 1 login, 1 fault (415 thousand states) | `SessionClientStored`, `LiveHolderKeepsLock`, `OneRenewalPerSecret`; live: `ExpiredSecretReplaced`, `OrphanedLockIsFreed`. |
| `status_list` | 2 callers, 2 sections of 2 entries, 2 claims, 1 fault (78 thousand) | `PositionIsIndex`, `SectionsInOrder`, the refinement `ImplementsAllocator`; live: `LowSectionRollsOver`. |
| `credential` | 2 requests, 2 nonces, 1 jti, batches of up to 2, 1 fault (1.9 million) | `NonceBuysOneResponse`, `WalletOwnsEntry`, `WalletIsSearchable`. |
| `publish` | 1 section of 2 entries, 2 writes each, 2 refreshes, 1 fault (195 thousand) | `ListsNeverGoBack`; live: `StatusPublished`, also for a write whose refresh was joined to an older one or never asked for. |
| `verification` | 1 session, 1 tab, 2 streams, 2 posts, 2 codes, 2 jtis, 1 fault, both backends (3.5 million) | `CodesResolve`, `NoLostCompletion`, `PaymentAcceptedOnce` (one key-binding JWT is accepted once), `WatcherHasAnEnd`, `GroupAccounted`. |
| `op_replay` | violation | `OneTokenPerCode` of VerifierOP on MongoDB |

Each module's `TypeOK` is among the invariants of one of its runs; in
MemoryStore, StatusList and ClientRenewal it carries the tx_code budget, the
number of claims and the cap of the back-off. Every property has a mutant: a definition of the model
with a plausible bug under which the run's own instance violates it.

### Where the code and its comments disagree

`op_replay` has a run: on MongoDB `handleAuthorizationCodeGrant` marks the code
as used in the database, then Updates the copy it read before the mark, which
takes the mark away. In memory the copy is the marked struct, and `op_memory` and
a theorem show that the property holds there.

The following are stated in the modules and do not hold. TLC finds a
counterexample when the property is added to the named configuration, with the
change given, if any:

| Property | Configuration | What happens |
|---|---|---|
| `RotatedHandlesGone` (MemoryStore) | `MCMemoryStore`, `InPlaceRotation = TRUE` | `Update` reads the handles to unindex from the struct its caller already edited, so a code overwritten in place stays indexed. |
| `CodeRetained` (VerifierOP) | `MCVerifierOP_mongo`, `MaxPosts = 3`, `MaxTime = 8`, one request at a time | `ProcessDirectPost` does not look at the status, so every further presentation renews the deadline; the retention was computed for one renewal, and after two a code outlives it. |
| `OneTokenPerCode`, `LatestTokenResolves`, `RefreshTokenOnce` (IssuerFlow), without `~undone` | `MCIssuerFlow_memory` (the first two), `MCIssuerFlow_mongo` | A login callback fetches the context, the wallet redeems the code, the callback Updates what it fetched: the mark and the token are gone, the code is answered again, or a spent refresh token resolves again. On MongoDB any fetched copy does it; in memory a visit to `/authorize` or a rotation must have replaced the cached struct. It needs a browser request still under way when the wallet redeems. |
| `ReadyPopulatesEntry` (StatusList) | `MCStatusList` | A crash between `CreateNewSection` and `UpdateCurrentSection` leaves documents every later rollover collides with; `AddStatus` then fails while `HealthProbe` says ready. |
| `FlowsOutlivedBySecret` (ClientRenewal) | `MCClientRenewal`, `Session = 2` | `renewLead` must exceed a session, but `renewNotBefore` delays the renewal of a secret that lives less than twice the lead, so a login starts on one that expires first. |
| `EveryCredentialSearchable` (CredentialEndpoint) | `MCCredentialEndpoint` | `saveCredentialSubjects` skips `Section <= 0`, and 0 is the first section of every registry: its credentials cannot be found by person. |
| `ServedBetweenTicks` (StatusPublish) | `MCStatusPublish` | The caches' TTL is called "slightly longer than refresh" and is five minutes shorter, so a section can have no list to serve before the next tick. |
| `CompletionSticks` (VerificationFlow) | `MCVerificationFlow` | On MongoDB `UpdateSessionPreference` replaces the context it read, and with it a completion marker stored since. |
| `ToldMeansOver` (VerificationFlow) | `MCVerificationFlow` | A post that passed its deadline check completes after the tab was told that nothing more will arrive. |

Others are visible in the models: `RedeemPreAuthorizedCode` stores with
`PreviousOrDefaultTTL` to keep the item's deadline, but the lookup before it has
renewed it already (`Touch`); on the in-memory store the page can poll between
the assignments of `Status` and `Code` (`AcceptPost`, `MintCode`), so
`PollCarriesCode` is only claimed for MongoDB; mdoc and VC 2.0 credentials claim an
entry and carry no reference to it (`Reference`), and a failed issuance of any
format but BBS leaves its entry VALID; the administrator's update looks for an
`InvalidateSection` that nothing implements, so its effect is published by the
next tick; a `/ui/completion` request that fails is not repeated on the same
stream (`ReconcileFails`).

### Bounds

All bounds are constants. `MaxTime` bounds the clock of the flows just above the
retention, so every order of deadlines and the eviction occur. The TTLs are the
smallest values that keep the order of the durations in the code (60 s, 5 min,
15 min). `issuer_mongo` is the exception: there `RequestURITTL +
AuthorizationCodeTTL` exceeds `AuthContextTTL`, so that the cap in
`codeDeadlineWithin` takes effect. With the code's own constants the sum fits and
the cap is a second line of defence; the theorem `CodesOutlived` assumes only
`RequestURITTL <= AuthContextTTL` and so does not depend on the sum. `Latency`
bounds the time a handler spends on one request; `CodeIssuanceMargin` is at least
twice that, as the margin in the code (a minute) is against a request. `MaxPosts`
bounds the presentations of a session. Three tokens allow two rotations, hence a
second use of a spent token; two requests suffice for a check in one and a write
in the other, a late browser write after two wallet requests included, and a request that ended serves again, so more than two take part
in a behaviour. In MemoryStore four structs hold the cached document, its
replacement and one pointer per request; handles and tokens are reused when no
trace of them is left.

In `renewal` a lease of one unit and a secret of three let leases expire while
held and secrets while renewing; three clients are an original, its replacement
and one registered beside it. Without the bound on clients the OP would never
refuse, so `ExpiredSecretReplaced` ends its claim there. In `status_list` two
entries per section make two callers meet on one decoy and roll over soon;
`LowDecoys = 0` keeps all of a section usable. In `publish` two writes of two
entries let a list be newer in one entry and older in the other; two sections of
one entry were checked as well. `verification` has two streams for one tab, which
is a reconnect overlapping the stream it replaces, and two posts, which is a
retry or a replay of one key-binding JWT, or a second one. `MaxFaults` is one everywhere: one failure or crash at any
step. The proofs of the lock, the renewal and the status list do not bound them.

Requests, structs, codes and tokens are interchangeable and serve as symmetry
sets, except in the runs with liveness properties.

### Fairness and deadlock

Runs of safety properties assume no fairness. `store_evict` assumes that
ttlcache's cleaner and the callbacks it starts run, which are goroutines the
store launches; requests may stop anywhere and time may stand still.
`FairRenewSpec` assumes that a replica takes the steps of a request it is in and
keeps receiving logins (renewal happens on requests), that time passes and that
MongoDB's TTL monitor runs; failures and crashes are not fair and are bounded.
`StatusList`'s `FairSpec` assumes that credentials keep being requested and that a
running `AddStatus` goes on. `StatusPublish`'s `FairSpec` assumes that the loop and
a refresh that was started go on (`sectionRefreshTimeout` bounds a hung one) and
that time passes; nothing is assumed of callers.

The issuer, `credential` and `verification` runs say `CHECK_DEADLOCK FALSE`: when
the sessions are evicted or answered, the bounded nonces, codes and clock are
spent and no request is under way, nothing is left to do. The other models
never stop and are checked for deadlock.

## 4. What is proved

The theorems hold for any number of callers, sessions, handles, requests,
replicas, entries and tokens and any time constants that satisfy the named
assumptions (`LockerAssumption`, `MemoryStoreAssumption`, `VerifierAssumption`,
`IssuerAssumption`, `RenewalAssumption`, `StatusListAssumption`,
`PublishAssumption`, `EndpointAssumption`, `NotifyAssumption`, `FlowAssumption`), which
TLC evaluates in the runs. Every safety invariant and every action property that
a run checks is a theorem, for MemoryStore and VerifierOP under the
hypotheses named below.

* **ClientRenewalProofs.** First the lock alone: `LiveHolderSafe`,
  `LockerTypeCorrect`, for both backends (the run composes the MongoDB one).
  `LiveHolderKeepsLock` is not inductive: `Unlock` needs that two callers never
  remember one token, and expiry needs that record and hold run out together
  (`DistinctTokens`, `DeadlinesAgree`). Then the renewal. `RenewalUsesLock`: a renewal behaviour is a behaviour of
  `Locker`, so its theorems carry over (`RenewalLeaseSafe`). `SessionsStayResolvable`
  from `CurrentStored` (a live client in use is in the store) and `LifeOrdered`
  (later clients live longer, so pruning expired rows cannot bring back an older
  one). `OneRenewal` from `Checked`: while a coordinated replica is about to
  register, the store holds nothing it could have adopted; lock exclusion keeps it
  so. `RenewalTypeCorrect`.
* **StatusListProofs.** `StatusListTypeCorrect`, `PositionsAreIndexes`,
  `SectionsListedInOrder` and the refinement `AllocatorRefined`. The invariant adds
  what a call knows at each step (`CallOK`) and that at most one call is past its
  first insertion into a section (`OneCreator`): the unique index lets only the
  call that inserted index 0 go on, which is why the separate read and write of
  the metadata are safe. Every step maps to a step of the allocator or a stutter.
* **StatusPublishProofs.** `PublishedStays` (a cached list is never replaced by an
  older one) and `PublishTypeCorrect`. The invariant says that one refresh of a
  section runs at a time (`OneRefresh`, from singleflight), that a list shows no
  write that did not happen (`Founded`), and that what a refresh has read so far is
  no older than the cached list (`Ahead`): a refresh reads an entry after the cached
  list was made, and nobody else sets the section's list meanwhile.
* **CredentialEndpointProofs.** `NonceBuysOne`, `WalletOwnsItsEntry`,
  `WalletSearchable`, `EndpointTypeCorrect`. The invariant ties what a request holds
  at each step to the shared state (`RequestOK`): a request past the consumption of
  its nonce is the only one that spent it (`NonceOwned`); an entry that a request or
  a wallet holds is allocated and held once (`EntryIssued`, `EntryOwned`) and VALID
  unless an administrator wrote it (`StatusKept`); rows are saved before the reply
  (`SubjectsSaved`); wallets hold what was answered (`WalletFromReplies`).
* **VerificationFlowProofs.** `GroupsAccounted`, `CodesAlwaysResolve`,
  `NoCompletionLost`, `PaymentOnce`, `WatchersEnd`, `FlowTypeCorrect`, all from one
  invariant (`FlowInvariant`) of Notify and VerificationFlow together. Credentials
  are cached before the marker is stored, the marker before the code is announced
  (`PostOK`, `CodesOwned`, `MessagesCached`); a preference write puts back a pending
  context or a code that resolves (`PrefOK`); a tab has its stream open before it
  looks at the marker (`TabOK`, `HandlerOK`), so that what it did not see there is
  still to be announced or waits for it (`NoneLost`, `UnarmedOK`); one post at most
  is past the claim of a `jti`, and none once a code was persisted for it (`JtiOK`).
* **MemoryStoreProofs.** `IndicesFollowDocuments` and `LiveHandlesIndexed` (when
  requests do not overwrite handles in place) and `StoreTypeCorrect`. The
  invariant adds that documents carry handles of their own session with one
  value per field, that an index entry leads to the handle's owner, and that no
  callback of a session is outstanding while the session is cached, which is why
  a late callback cannot hurt (`PtrsOK`, `DocsOK`, `IndexOwned`,
  `NoLateCallback`). `RotatedHandlesGone` shows that the hypothesis is needed.
* **VerifierOPProofs.** `VerifierTypeCorrect`; `TokensRestOnPresentation` on
  both stores, from `Presented` (a status or a code that leads to a token implies
  a presentation, in the document and in every copy); `MemoryOneTokenPerCode`,
  from `Once` (at most one request is past the mark, and the mark stays). On
  MongoDB `PollsCarryCode`, from `CodesCarried` (status and code are apart only in
  the private copy of the request that mints), and `CodesRetained`, from
  `DeadlinesReached`: each post that is to be displayed moves the deadline by at
  most a presentation timeout and the time a handler takes (`Window`), so no code
  outlives creation plus `MaxPosts + 1` windows and a code's life. That the
  retention covers this is the theorem's hypothesis `RetentionCovers`. The code
  does not bound the posts: the source's formula was made for one renewal, and for
  `MaxPosts = 3` the instance of the run violates the property (section 3).
* **IssuerFlowProofs.** For any overlap and both stores, without a hypothesis.
  `IssuerTypeCorrect` and `CodesOutlived`, from `Shape`: every context in the heap,
  stale ones included, has its deadline inside the retention. `CodeAnsweredOnce`,
  `RefreshExchangedOnce`, `LatestTokenKept`, from `Ordered`: before the first token
  nothing names one (`Blank`); on MongoDB nobody holds the stored document itself
  (`Private`); and as long as nothing was undone, once there is a token nobody is
  redeeming, the stored context carries the mark and the latest token, and no
  spent token is the latest (`Settled`), and whoever redeems or refreshes holds a
  context that carries the mark, the consent and the token it presents (`Marks`).
  `FactsStick` from the same invariant: every other step stores a context that
  keeps the mark and the consent (`Keeps`).

Only model-checked: the liveness properties (`ExpiredHandlesVanish`,
`OrphanedLockIsFreed`, `ExpiredSecretReplaced`, `LowSectionRollsOver`,
`StatusPublished`), which need reasoning about fairness and ENABLED and so are out
of the prover's reach.

## 5. Not modelled, and the plan

The MongoDB store has no module of its own: the flow modules carry the
operations they use. Left out of the flows: the contents of requests and
presentations, userinfo and the refresh grant of the verifier, direct issuance
from a callback, the in-tab response of the DC API, the fetch of request objects
with their ephemeral keys, deferred issuance and notifications of the credential
endpoint, the shutdown of the notification service, and replicas of the registry
that refresh a shared cache independently. The access token's lifetime is not
compared with the retention of its context. Handles are unique in MemoryStore, so
two sessions that share a wallet-chosen `state` (`authcontext.go:102`) are not
covered. Credential formats and cryptography are sequential and out of a model
checker's reach; protocol types, configuration and helpers, most of the
repository's lines, are data, parsing and validation without state.

Next modules, most important first:

1. **AuthContextStore**: what both stores promise, abstractly, with a
   `MongoStore` module; MemoryStore and MongoStore refine it where they do.
2. **PreAuthFlow** and **InteractiveAuth**: the pre-authorized code grant with
   tx_code, redeemers and child sessions, and the authorization challenge
   endpoint with `ClaimIssuerState` and `ResumeIssuerState`, composed with the
   store.
3. **Caches**: Set, SetNX and GetAndDelete with the ephemeral key of a request
   object and the signed metadata on top.
4. The issuer's audit log queue, TTL index maintenance at startup, rate limits,
   DIDComm.

Proofs to add: `CodeRetained` on the in-memory store, where every access renews
the retention; StatusPublish and CredentialEndpoint as users of the allocator
that StatusList refines; the refinements of item 1.
