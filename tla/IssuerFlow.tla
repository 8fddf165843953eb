----------------------------- MODULE IssuerFlow -----------------------------
(***************************************************************************)
(* The browser-mediated issuance of the API gateway (internal/apigw): one  *)
(* authorization context from the pushed authorization request to the      *)
(* token and refresh grants.  The browser visits /authorize, authenticates *)
(* (SAML, OIDC or a presentation) and consents, which reveals the code;    *)
(* the wallet redeems the code and rotates refresh tokens.                 *)
(*                                                                         *)
(* The handlers share the context through the AuthContextStore.  A fetched *)
(* context is a pointer into the heap: the cached struct itself with       *)
(* Backend = "memory", a private copy with "mongo".  Some store operations *)
(* write through the stored struct, others replace it by a copy, so a      *)
(* pointer a handler still holds may have become stale when it Updates.    *)
(*                                                                         *)
(* Requests overlap freely: a login callback or a presentation may write   *)
(* back the context it fetched after the wallet has redeemed the code, and *)
(* take the mark or the token from the stored one.  `undone' records that  *)
(* it happened: after it the code can be spent again, and the properties   *)
(* of the wallet's half are about the behaviours before.                   *)
(***************************************************************************)
EXTENDS Naturals, FiniteSets

CONSTANTS Backend, Requests, Ptrs,
          Tokens,           \* an access token and its refresh token
          RequestURITTL,    \* requestURITTL
          AuthorizationCodeTTL, AuthContextTTL,
          MaxTime,          \* bound: the clock
          None

Doc == [exp : Nat, forfeited : BOOLEAN, consent : BOOLEAN,
        identified : BOOLEAN, token : Tokens \cup {None}]

ASSUME IssuerAssumption ==
  /\ Backend \in {"memory", "mongo"}
  /\ RequestURITTL \in Nat
  /\ AuthorizationCodeTTL \in Nat
  /\ AuthContextTTL \in Nat
  /\ RequestURITTL <= AuthContextTTL
  /\ MaxTime \in Nat
  /\ None \notin Tokens \cup Ptrs \cup Doc

(* AuthorizationContext: exp is ExpiresAt, identified stands for           *)
(* Identifier, VerifiedClaims and DCQLQuery, token for Token and           *)
(* RefreshToken.                                                           *)
SetExp(d, t) ==
  [exp |-> t, forfeited |-> d.forfeited, consent |-> d.consent,
   identified |-> d.identified, token |-> d.token]
SetForfeited(d) ==
  [exp |-> d.exp, forfeited |-> TRUE, consent |-> d.consent,
   identified |-> d.identified, token |-> d.token]
SetConsent(d) ==
  [exp |-> d.exp, forfeited |-> d.forfeited, consent |-> TRUE,
   identified |-> d.identified, token |-> d.token]
SetIdentified(d) ==
  [exp |-> d.exp, forfeited |-> d.forfeited, consent |-> d.consent,
   identified |-> TRUE, token |-> d.token]
SetToken(d, t) ==
  [exp |-> d.exp, forfeited |-> d.forfeited, consent |-> d.consent,
   identified |-> d.identified, token |-> t]

(* Where a request is: between two accesses to the store.                  *)
BrowserSteps == {"visiting", "selecting", "callback", "resolving",
                 "describing", "presenting", "publishing"}
Steps == BrowserSteps \cup {"idle", "redeeming", "refreshing"}

VARIABLES now,
          session,   \* "none", "stored" or "evicted"
          heap, cur, \* structs; the one the store holds
          keep,      \* when the session may be evicted
          index,     \* memory store: tokens that resolve to the session
          pc, ref, arg,       \* per request: step, fetched context, token
          selected,  \* the browser has been sent on to authenticate
          docs,      \* the Document cache holds what will be issued
          revealed,  \* the wallet has been given the code
          minted, answers,    \* tokens made; tokens answered for the code
          spent, respent,     \* refresh tokens used; used more than once
          latest,    \* the token the wallet was given last
          undone     \* history: a browser request took back what was stored
vars == <<now, session, heap, cur, keep, index, pc, ref, arg, selected, docs,
          revealed, minted, answers, spent, respent, latest, undone>>

TypeOK ==
  /\ now \in 0..MaxTime
  /\ session \in {"none", "stored", "evicted"}
  /\ heap \in [Ptrs -> Doc \cup {None}]
  /\ cur \in Ptrs \cup {None}
  /\ keep \in Nat
  /\ index \subseteq Tokens
  /\ pc \in [Requests -> Steps]
  /\ ref \in [Requests -> Ptrs \cup {None}]
  /\ arg \in [Requests -> Tokens \cup {None}]
  /\ selected \in BOOLEAN
  /\ docs \in BOOLEAN
  /\ revealed \in BOOLEAN
  /\ minted \subseteq Tokens
  /\ answers \subseteq minted
  /\ spent \subseteq Tokens
  /\ respent \subseteq spent
  /\ latest \in minted \cup {None}
  /\ undone \in BOOLEAN
  /\ session # "none" => cur # None /\ heap[cur] # None
  /\ \A r \in Requests : ref[r] # None => heap[ref[r]] # None

Init ==
  /\ now = 0
  /\ session = "none"
  /\ heap = [p \in Ptrs |-> None]
  /\ cur = None
  /\ keep = 0
  /\ index = {}
  /\ pc = [r \in Requests |-> "idle"]
  /\ ref = [r \in Requests |-> None]
  /\ arg = [r \in Requests |-> None]
  /\ selected = FALSE
  /\ docs = FALSE
  /\ revealed = FALSE
  /\ minted = {}
  /\ answers = {}
  /\ spent = {}
  /\ respent = {}
  /\ latest = None
  /\ undone = FALSE

Smaller(a, b) == IF a <= b THEN a ELSE b

-----------------------------------------------------------------------------
(* The store as the handlers see it.                                       *)

InUse(c, rf) == {p \in Ptrs : p = c \/ \E r \in Requests : rf[r] = p}
Free == Ptrs \ InUse(cur, ref)

Write(hp, c, rf) ==
  /\ heap' = [p \in Ptrs |-> IF p \in InUse(c, rf) THEN hp[p] ELSE None]
  /\ cur' = c
  /\ ref' = rf

Stored == heap[cur]
Held(r) == heap[ref[r]]
Holds(r, p) == [ref EXCEPT ![r] = p]

Resolvable == session = "stored" /\ (Backend = "memory" => now < keep)
Resolves(t) == IF Backend = "memory" THEN t \in index ELSE Stored.token = t

(* The memory store renews the retention on every access, MongoDB anchors  *)
(* it to created_at.                                                       *)
Renewed == IF Backend = "memory" THEN now + AuthContextTTL ELSE keep

(* The context in hand: the cached pointer, or a copy of d.                *)
Hand(r, d) ==
  IF Backend = "memory"
  THEN Write([heap EXCEPT ![cur] = d], cur, Holds(r, cur))
  ELSE \E p \in Free : Write([heap EXCEPT ![cur] = d, ![p] = d], cur, Holds(r, p))

(* ExtendExpiry and SetAuthProvider store a copy in memory; a $max or $set *)
(* on the document in MongoDB.                                             *)
Replace(d, rf) ==
  IF Backend = "memory"
  THEN \E p \in Free : Write([heap EXCEPT ![p] = d], p, rf)
  ELSE Write([heap EXCEPT ![cur] = d], cur, rf)

Goto(r, s) == pc' = [pc EXCEPT ![r] = s]

Reindexed(old, new) ==
  IF Backend = "memory" THEN (index \ {old}) \cup ({new} \ {None}) ELSE index

(* Get.                                                                    *)
Fetch(r, s) ==
  /\ pc[r] = "idle"
  /\ Resolvable
  /\ Hand(r, Stored)
  /\ Goto(r, s)
  /\ keep' = Renewed

(* Update: the handler's struct becomes the stored one, or its content the *)
(* document; ErrNoDocuments when the session is gone.  In memory the       *)
(* assignments that precede it have already reached a struct that is still *)
(* the cached one, whose old token is then no longer seen.                 *)
Put(r, d) ==
  /\ IF Resolvable
     THEN /\ IF Backend = "memory"
             THEN Write([heap EXCEPT ![ref[r]] = d], ref[r], Holds(r, None))
             ELSE Write([heap EXCEPT ![cur] = d], cur, Holds(r, None))
          /\ index' = Reindexed(IF ref[r] = cur THEN d.token ELSE Stored.token,
                                d.token)
          /\ keep' = Renewed
     ELSE /\ Write(heap, cur, Holds(r, None))
          /\ UNCHANGED <<index, keep>>

(* A request ends with an error before it writes anything: a parameter or  *)
(* key that does not match, an identity that cannot be resolved, a store   *)
(* that does not answer.                                                   *)
Leave(r) ==
  /\ Write(heap, cur, Holds(r, None))
  /\ Goto(r, "idle")
  /\ arg' = [arg EXCEPT ![r] = None]
  /\ UNCHANGED <<now, session, keep, index, selected, docs, revealed, minted,
                 answers, spent, respent, latest, undone>>
Fail(r) == pc[r] # "idle" /\ Leave(r)

Wallet == <<minted, answers, spent, respent, latest, undone>>

(* What a stored context must not lose to an older one: the mark, the      *)
(* consent and the token.                                                  *)
Undoes(d) ==
  \/ Stored.forfeited /\ ~d.forfeited
  \/ Stored.consent /\ ~d.consent
  \/ Stored.token # d.token

(* A browser request Updates the context it fetched.                       *)
WriteBack(r, d) ==
  /\ Put(r, d)
  /\ undone' = (undone \/ (Resolvable /\ Undoes(d)))
  /\ UNCHANGED <<minted, answers, spent, respent, latest>>

-----------------------------------------------------------------------------
(* The browser.                                                            *)

(* OAuthPar; the clock starts with it, so CreatedAt is 0.                  *)
created == 0

(* Mutant: the answer does not depend on Save having stored the context.   *)
OAuthParUnsaved ==
  /\ session = "none"
  /\ session' = "stored"
  /\ keep' = created + AuthContextTTL
  /\ UNCHANGED <<now, heap, cur, ref, index, pc, arg, selected, docs, revealed,
                 Wallet>>

OAuthPar ==
  /\ session = "none"
  /\ session' = "stored"
  /\ \E p \in Ptrs :
       Write([heap EXCEPT ![p] =
                [exp |-> now + RequestURITTL, forfeited |-> FALSE,
                 consent |-> FALSE, identified |-> FALSE, token |-> None]],
             p, ref)
  /\ keep' = created + AuthContextTTL
  /\ UNCHANGED <<now, index, pc, arg, selected, docs, revealed, Wallet>>

(* OAuthAuthorize: the checks.                                             *)
OAuthAuthorize(r) ==
  /\ Fetch(r, "visiting")
  /\ now <= Stored.exp
  /\ now <= created + RequestURITTL
  /\ ~Stored.forfeited
  /\ UNCHANGED <<now, session, index, arg, selected, docs, revealed, Wallet>>

(* Mutant: the deadline is not held to the retention.                      *)
codeDeadlineAnyTime == now + AuthorizationCodeTTL

codeDeadlineWithin ==
  Smaller(now + AuthorizationCodeTTL, created + AuthContextTTL)

ExtendExpiry(r) ==
  /\ pc[r] = "visiting"
  /\ Resolvable
  /\ IF codeDeadlineWithin > Stored.exp
     THEN Replace(SetExp(Stored, codeDeadlineWithin), Holds(r, None))
     ELSE Write(heap, cur, Holds(r, None))
  /\ Goto(r, "selecting")
  /\ keep' = Renewed
  /\ UNCHANGED <<now, session, index, arg, selected, docs, revealed, Wallet>>

(* endpointOAuthAuthorize: SetAuthProvider, then the redirect.             *)
SetAuthProvider(r) ==
  /\ pc[r] = "selecting"
  /\ Resolvable
  /\ Replace(Stored, ref)
  /\ Goto(r, "idle")
  /\ keep' = Renewed
  /\ selected' = TRUE
  /\ UNCHANGED <<now, session, index, arg, docs, revealed, Wallet>>

(* The SAML ACS and the OIDC callback: Get, StoreVCIDocuments unless the   *)
(* data source is an external API, then the identifier and an Update of    *)
(* the context fetched first.                                              *)
Callback(r) ==
  /\ selected
  /\ Fetch(r, "callback")
  /\ UNCHANGED <<now, session, index, arg, selected, docs, revealed, Wallet>>

StoreVCIDocuments(r) ==
  /\ pc[r] = "callback"
  /\ docs' \in {docs, TRUE}
  /\ Goto(r, "resolving")
  /\ UNCHANGED <<now, session, heap, cur, keep, index, ref, arg, selected,
                 revealed, Wallet>>

StoreIdentifier(r) ==
  /\ pc[r] = "resolving"
  /\ WriteBack(r, SetIdentified(Held(r)))
  /\ Goto(r, "idle")
  /\ UNCHANGED <<now, session, arg, selected, docs, revealed>>

(* VerificationRequestObject: Get, then Update with the DCQL query.        *)
VerificationRequestObject(r) ==
  \/ /\ selected
     /\ Fetch(r, "describing")
     /\ UNCHANGED <<now, session, index, arg, selected, docs, revealed, Wallet>>
  \/ /\ pc[r] = "describing"
     /\ WriteBack(r, Held(r))
     /\ Goto(r, "idle")
     /\ UNCHANGED <<now, session, arg, selected, docs, revealed>>

(* VerificationDirectPost: the verified claims are Updated into the        *)
(* context (finalisePresentationVerification) or the identifier is set in  *)
(* the store; the documents follow.                                        *)
VerificationDirectPost(r) ==
  /\ selected
  /\ Fetch(r, "presenting")
  /\ UNCHANGED <<now, session, index, arg, selected, docs, revealed, Wallet>>

PersistPresentation(r) ==
  /\ pc[r] = "presenting"
  /\ Resolvable
  /\ \/ WriteBack(r, SetIdentified(Held(r)))
     \/ /\ Write([heap EXCEPT ![cur] = SetIdentified(Stored)], cur, Holds(r, None))
        /\ keep' = Renewed
        /\ UNCHANGED <<index, Wallet>>
  /\ Goto(r, "publishing")
  /\ UNCHANGED <<now, session, arg, selected, docs, revealed>>

PublishDocuments(r) ==
  /\ pc[r] = "publishing"
  /\ docs' = TRUE
  /\ Goto(r, "idle")
  /\ UNCHANGED <<now, session, heap, cur, keep, index, ref, arg, selected,
                 revealed, Wallet>>

(* endpointOAuthAuthorizationConsent: with an external API the documents   *)
(* are fetched for the identified person once the login is over.           *)
FetchAndStoreForVCI ==
  /\ ~docs
  /\ Resolvable
  /\ Stored.identified
  /\ docs' = TRUE
  /\ keep' = Renewed
  /\ UNCHANGED <<now, session, heap, cur, index, pc, ref, arg, selected,
                 revealed, Wallet>>

(* UserLookup: the documents are shown, Consent is recorded, and the       *)
(* redirect carries the code to the wallet.                                *)
UserLookup ==
  /\ docs
  /\ Resolvable
  /\ Write([heap EXCEPT ![cur] = SetConsent(Stored)], cur, ref)
  /\ keep' = Renewed
  /\ revealed' = TRUE
  /\ UNCHANGED <<now, session, index, pc, arg, selected, docs, Wallet>>

-----------------------------------------------------------------------------
(* The wallet: OAuthToken and handleRefreshTokenGrant.                     *)

(* Mutants of ForfeitAuthorizationCode: the mark is not looked at; the     *)
(* context returned is the one before the mark was set.                    *)
ForfeitUnconditionally(r) ==
  /\ revealed
  /\ pc[r] = "idle"
  /\ Resolvable
  /\ Hand(r, SetForfeited(Stored))
  /\ Goto(r, "redeeming")
  /\ keep' = Renewed
  /\ UNCHANGED <<now, session, index, arg, selected, docs, revealed, Wallet>>

ForfeitReturningBefore(r) ==
  /\ revealed
  /\ pc[r] = "idle"
  /\ Resolvable
  /\ ~Stored.forfeited
  /\ \E p \in Free : Write([heap EXCEPT ![cur] = SetForfeited(Stored), ![p] = Stored],
                           cur, Holds(r, p))
  /\ Goto(r, "redeeming")
  /\ keep' = Renewed
  /\ UNCHANGED <<now, session, index, arg, selected, docs, revealed, Wallet>>

(* The code is consumed; the handler goes on with the consumed context.    *)
ForfeitAuthorizationCode(r) ==
  /\ revealed
  /\ pc[r] = "idle"
  /\ Resolvable
  /\ ~Stored.forfeited
  /\ Hand(r, SetForfeited(Stored))
  /\ Goto(r, "redeeming")
  /\ keep' = Renewed
  /\ UNCHANGED <<now, session, index, arg, selected, docs, revealed, Wallet>>

(* Mutant: the token is added in the store and then overwritten by the     *)
(* Update of a context that does not have it.                              *)
PersistTokenFirst(r, t) == Put(r, Held(r)) /\ t \in Tokens

(* The tokens are assigned to the consumed context, which is Updated.      *)
PersistToken(r, t) == Put(r, SetToken(Held(r), t))

(* The deadline is checked on the consumed context; tokens are generated,  *)
(* and answered once they are stored.                                      *)
OAuthToken(r) ==
  /\ pc[r] = "redeeming"
  /\ now <= Held(r).exp
  /\ \E t \in Tokens \ minted :
       /\ PersistToken(r, t)
       /\ IF Resolvable
          THEN /\ minted' = minted \cup {t}
               /\ answers' = answers \cup {t}
               /\ latest' = t
          ELSE UNCHANGED <<minted, answers, latest>>
  /\ Goto(r, "idle")
  /\ UNCHANGED <<now, session, arg, selected, docs, revealed, spent, respent, undone>>

(* handleRefreshTokenGrant: the context of the token presented.            *)
GetByRefreshToken(r, t) ==
  /\ t \in minted
  /\ Resolvable
  /\ Resolves(t)
  /\ Fetch(r, "refreshing")
  /\ arg' = [arg EXCEPT ![r] = t]
  /\ UNCHANGED <<now, session, index, selected, docs, revealed, Wallet>>

Rotated(r, t) ==
  /\ Replace(SetToken(Held(r), t), Holds(r, None))
  /\ index' = Reindexed(Stored.token, t)
  /\ keep' = Renewed
  /\ Goto(r, "idle")
  /\ arg' = [arg EXCEPT ![r] = None]
  /\ minted' = minted \cup {t}
  /\ spent' = spent \cup {arg[r]}
  /\ respent' = IF arg[r] \in spent THEN respent \cup {arg[r]} ELSE respent
  /\ latest' = t
  /\ UNCHANGED <<now, session, selected, docs, revealed, answers, undone>>

(* Mutant: the stored document is replaced without the comparison.         *)
RotateBlindly(r) ==
  /\ pc[r] = "refreshing"
  /\ Resolvable
  /\ \E t \in Tokens \ minted : Rotated(r, t)

(* RotateRefreshToken: compare-and-swap on the token of the context the    *)
(* handler fetched; ErrNoDocuments otherwise.                              *)
RotateRefreshToken(r) ==
  /\ pc[r] = "refreshing"
  /\ \/ /\ Resolvable
        /\ Held(r).token # None
        /\ Resolves(Held(r).token)
        /\ Stored.token = Held(r).token
        /\ \E t \in Tokens \ minted : Rotated(r, t)
     \/ /\ ~Resolvable \/ Stored.token # Held(r).token
        /\ Leave(r)

-----------------------------------------------------------------------------
(* ttlcache's cleaner, or the TTL index of MongoDB.                        *)
Evict ==
  /\ session = "stored"
  /\ now >= keep
  /\ session' = "evicted"
  /\ UNCHANGED <<now, heap, cur, keep, index, pc, ref, arg, selected, docs,
                 revealed, Wallet>>

Tick ==
  /\ session # "none"
  /\ now < MaxTime
  /\ now' = now + 1
  /\ UNCHANGED <<session, heap, cur, keep, index, pc, ref, arg, selected, docs,
                 revealed, Wallet>>

Browser(r) ==
  \/ OAuthAuthorize(r) \/ ExtendExpiry(r) \/ SetAuthProvider(r)
  \/ Callback(r) \/ StoreVCIDocuments(r) \/ StoreIdentifier(r)
  \/ VerificationRequestObject(r)
  \/ VerificationDirectPost(r) \/ PersistPresentation(r) \/ PublishDocuments(r)

Redeem(r) ==
  \/ ForfeitAuthorizationCode(r) \/ OAuthToken(r)
  \/ \E t \in Tokens : GetByRefreshToken(r, t)
  \/ RotateRefreshToken(r)

Next == \/ OAuthPar \/ FetchAndStoreForVCI \/ UserLookup \/ Evict \/ Tick
        \/ \E r \in Requests : Browser(r) \/ Redeem(r) \/ Fail(r)

Spec == Init /\ [][Next]_vars
-----------------------------------------------------------------------------
(* One authorization code is answered with one set of tokens, whatever the *)
(* token requests that overlap (OAuthToken, ForfeitAuthorizationCode), as  *)
(* long as no browser request has written an older context back.           *)
OneTokenPerCode == ~undone => \A s, t \in answers : s = t

(* A refresh token is exchanged at most once, although the handler fetched *)
(* the context before another rotation (RotateRefreshToken: "enforcing     *)
(* one-time use"), under the same condition.                               *)
RefreshTokenOnce == ~undone => respent = {}

(* The token the wallet was given last is the one the store resolves: no   *)
(* token or refresh request takes it away by writing an older context      *)
(* (OAuthToken, "Using Update() instead of AddToken() avoids a race"),     *)
(* under the same condition.                                               *)
LatestTokenResolves ==
  (~undone /\ latest # None /\ Resolvable) => Resolves(latest)

(* The mark of a spent code and the consent, once stored, are taken back   *)
(* by nothing but the write-backs of login callbacks, request objects and  *)
(* presentations that `undone' records, at any time and under any overlap: *)
(* not by a visit to /authorize that replaces the stored struct, a second  *)
(* consent, or the token and refresh requests, which write whole contexts  *)
(* they fetched earlier (ExtendExpiry, OAuthToken, RotateRefreshToken).    *)
StoredFactsStick ==
  [][session = "stored" /\ ~undone' =>
       /\ Stored.forfeited => Stored'.forfeited
       /\ Stored.consent => Stored'.consent]_vars

(* The context outlives the code: however often /authorize is entered, the *)
(* deadline stays inside the retention, so no code is lost to eviction     *)
(* before it expires (codeDeadlineWithin).                                 *)
ContextOutlivesCode == session = "evicted" => now >= Stored.exp
=============================================================================
