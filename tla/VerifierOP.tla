----------------------------- MODULE VerifierOP -----------------------------
(***************************************************************************)
(* The verifier as an OpenID Provider (internal/verifier/apiv1): one       *)
(* authorization session from /authorize to the token endpoint, shared by  *)
(* a browser page that polls, a wallet that posts its presentation, a      *)
(* person who confirms the credential display, and a relying party that    *)
(* redeems the code.  Sessions have random ids and share nothing, so one   *)
(* is enough.                                                              *)
(*                                                                         *)
(* Every handler fetches the context, works on it outside any lock, and    *)
(* writes it back with Update.  The two stores differ in what that means:  *)
(* with Backend = "memory" all handlers share the cached struct and an     *)
(* assignment is visible at once; with "mongo" each has a private copy,    *)
(* and Update replaces the whole document.  Retention differs too: the     *)
(* memory store renews it on every access, MongoDB anchors it to           *)
(* created_at.                                                             *)
(***************************************************************************)
EXTENDS Naturals, FiniteSets

CONSTANTS Backend, Requests, Codes,
          PresentationTimeout, CodeDuration,
          CodeIssuanceMargin,       \* codeIssuanceMargin
          MinRetention,             \* minAuthContextRetention
          Latency,                  \* bound: time a handler spends on one request
          MaxPosts,                 \* bound: presentations the wallet posts
          MaxTime,                  \* bound: the clock
          None

ASSUME VerifierAssumption ==
  /\ Backend \in {"memory", "mongo"}
  /\ PresentationTimeout \in Nat \ {0}
  /\ CodeDuration \in Nat \ {0}
  /\ CodeIssuanceMargin \in Nat
  /\ MinRetention \in Nat
  /\ Latency \in Nat
  /\ 2 * Latency <= CodeIssuanceMargin
  /\ MaxPosts \in Nat
  /\ MaxTime \in Nat
  /\ None \notin Codes

Statuses == {"pending", "awaiting_presentation", "code_issued",
             "token_issued", "error"}

(* AuthorizationContext, as far as this flow reads it; vp stands for       *)
(* VPToken and VerifiedClaims, show for ShowCredentialDetails.             *)
Doc == [status : Statuses, code : Codes \cup {None}, codeExpiresAt : Nat,
        expiresAt : Nat, show : BOOLEAN, vp : BOOLEAN, forfeited : BOOLEAN]

(* Assignments to its fields.                                              *)
SetShow(d, b) ==
  [status |-> d.status, code |-> d.code, codeExpiresAt |-> d.codeExpiresAt,
   expiresAt |-> d.expiresAt, show |-> b, vp |-> d.vp, forfeited |-> d.forfeited]
SetStatus(d, st) ==
  [status |-> st, code |-> d.code, codeExpiresAt |-> d.codeExpiresAt,
   expiresAt |-> d.expiresAt, show |-> d.show, vp |-> d.vp,
   forfeited |-> d.forfeited]
SetPresented(d, st, t) ==
  [status |-> st, code |-> d.code, codeExpiresAt |-> d.codeExpiresAt,
   expiresAt |-> t, show |-> d.show, vp |-> TRUE, forfeited |-> d.forfeited]
SetCode(d, c, t) ==
  [status |-> d.status, code |-> c, codeExpiresAt |-> t,
   expiresAt |-> d.expiresAt, show |-> d.show, vp |-> d.vp,
   forfeited |-> d.forfeited]
SetForfeited(d) ==
  [status |-> d.status, code |-> d.code, codeExpiresAt |-> d.codeExpiresAt,
   expiresAt |-> d.expiresAt, show |-> d.show, vp |-> d.vp, forfeited |-> TRUE]

(* Where a request is: between two accesses to the session.                *)
Steps == {"idle", "request_object", "show", "hide", "callback", "verifying",
          "confirming", "cancelling", "minting", "saving",
          "redeeming", "forfeited", "signing"}

VARIABLES now,
          session,   \* "none", "stored" or "evicted"
          doc,       \* the cached struct, or the MongoDB document
          keep,      \* when the session may be evicted
          index,     \* memory store: codes that resolve to the session
          pc, copy, age, arg,  \* per request: step, fetched copy, time, code
          posts, minted,
          lease,     \* latest expiry of a code that was stored
          redeemed, replayed,  \* codes answered with tokens; more than once
          polled     \* the last answer of PollSession
vars == <<now, session, doc, keep, index, pc, copy, age, arg, posts, minted,
          lease, redeemed, replayed, polled>>

TypeOK ==
  /\ now \in 0..MaxTime
  /\ session \in {"none", "stored", "evicted"}
  /\ doc \in Doc
  /\ keep \in Nat
  /\ index \subseteq Codes
  /\ pc \in [Requests -> Steps]
  /\ copy \in [Requests -> Doc \cup {None}]
  /\ age \in [Requests -> 0..Latency]
  /\ arg \in [Requests -> Codes \cup {None}]
  /\ posts \in 0..MaxPosts
  /\ minted \subseteq Codes
  /\ lease \in Nat
  /\ redeemed \subseteq Codes
  /\ replayed \subseteq redeemed
  /\ polled \in [status : Statuses \cup {"none", "expired", "not_found"},
                 code : Codes \cup {None}]

Larger(a, b) == IF a >= b THEN a ELSE b

(* authContextRetention.                                                   *)
authContextRetention ==
  Larger(2 * PresentationTimeout + CodeDuration + CodeIssuanceMargin,
         MinRetention)

NewDoc(t) == [status |-> "pending", code |-> None, codeExpiresAt |-> 0,
              expiresAt |-> t + PresentationTimeout, show |-> FALSE,
              vp |-> FALSE, forfeited |-> FALSE]

Init ==
  /\ now = 0
  /\ session = "none"
  /\ doc = NewDoc(0)
  /\ keep = 0
  /\ index = {}
  /\ pc = [r \in Requests |-> "idle"]
  /\ copy = [r \in Requests |-> None]
  /\ age = [r \in Requests |-> 0]
  /\ arg = [r \in Requests |-> None]
  /\ posts = 0
  /\ minted = {}
  /\ lease = 0
  /\ redeemed = {}
  /\ replayed = {}
  /\ polled = [status |-> "none", code |-> None]

-----------------------------------------------------------------------------
(* The session store as the handlers see it.                               *)

Resolvable == session = "stored" /\ (Backend = "memory" => now < keep)

(* MemoryStore keeps the entry of a code that was overwritten in place.    *)
Resolves(c) == IF Backend = "memory" THEN c \in index ELSE doc.code = c

Renewed == IF Backend = "memory" THEN now + authContextRetention ELSE keep

Mine(r) == IF Backend = "memory" THEN doc ELSE copy[r]

(* sessionExpired.                                                         *)
sessionExpired(d) == now >= d.expiresAt

(* Get: the request goes on to step s with the session in hand.            *)
Fetch(r, s) ==
  /\ pc[r] = "idle"
  /\ Resolvable
  /\ pc' = [pc EXCEPT ![r] = s]
  /\ copy' = IF Backend = "memory" THEN copy ELSE [copy EXCEPT ![r] = doc]
  /\ keep' = Renewed
  /\ UNCHANGED <<now, session, doc, index, age, minted, lease,
                 redeemed, replayed, polled>>

(* Assignments to fields of the fetched context.                           *)
Assign(r, d, s) ==
  /\ pc' = [pc EXCEPT ![r] = s]
  /\ doc' = IF Backend = "memory" THEN d ELSE doc
  /\ copy' = IF Backend = "memory" THEN copy ELSE [copy EXCEPT ![r] = d]
  /\ UNCHANGED <<now, session, keep, index, age, arg, posts, lease,
                 redeemed, replayed, polled>>

Done(r) == /\ pc' = [pc EXCEPT ![r] = "idle"]
           /\ copy' = [copy EXCEPT ![r] = None]
           /\ age' = [age EXCEPT ![r] = 0]
           /\ arg' = [arg EXCEPT ![r] = None]

(* The request ends without writing: an error, or nothing to store.        *)
Leave(r) ==
  /\ Done(r)
  /\ UNCHANGED <<now, session, doc, keep, index, posts, minted, lease,
                 redeemed, replayed, polled>>

(* Update: the whole document, or ErrNoDocuments after an eviction.        *)
Put(r, d) ==
  /\ Done(r)
  /\ doc' = IF Resolvable \/ Backend = "memory" THEN d ELSE doc
  /\ IF Resolvable
     THEN /\ keep' = Renewed
          /\ index' = IF Backend = "memory" THEN index \cup ({d.code} \ {None})
                                            ELSE index
          /\ lease' = Larger(lease, d.codeExpiresAt)
     ELSE UNCHANGED <<keep, index, lease>>
  /\ UNCHANGED <<now, session, posts, minted, polled>>

-----------------------------------------------------------------------------
(* Authorize.                                                              *)
Authorize ==
  /\ session = "none"
  /\ session' = "stored"
  /\ doc' = NewDoc(now)
  /\ keep' = now + authContextRetention
  /\ UNCHANGED <<now, index, pc, copy, age, arg, posts, minted, lease,
                 redeemed, replayed, polled>>

(* GetOIDCRequestObject: the nonce it assigns is not modelled.             *)
GetOIDCRequestObject(r) ==
  \/ /\ Fetch(r, "request_object")
     /\ ~sessionExpired(doc)
     /\ UNCHANGED <<arg, posts>>
  \/ /\ pc[r] = "request_object"
     /\ Put(r, Mine(r))
     /\ UNCHANGED <<redeemed, replayed>>

(* UpdateSessionPreference.                                                *)
UpdateSessionPreference(r) ==
  \/ /\ \E s \in {"show", "hide"} : Fetch(r, s)
     /\ UNCHANGED <<arg, posts>>
  \/ /\ pc[r] \in {"show", "hide"}
     /\ Put(r, SetShow(Mine(r), pc[r] = "show"))
     /\ UNCHANGED <<redeemed, replayed>>

(* ProcessCallback with an error of the wallet.                            *)
ProcessCallback(r) ==
  \/ /\ Fetch(r, "callback")
     /\ UNCHANGED <<arg, posts>>
  \/ /\ pc[r] = "callback"
     /\ Put(r, SetStatus(Mine(r), "error"))
     /\ UNCHANGED <<redeemed, replayed>>

(* ProcessDirectPost.  The deadline is checked on arrival, the             *)
(* presentation is verified, and the outcome depends on whether the user   *)
(* asked to see the credential.  Status is assigned before Code.           *)
ReceivePost(r) ==
  /\ posts < MaxPosts
  /\ Fetch(r, "verifying")
  /\ ~sessionExpired(doc)
  /\ posts' = posts + 1
  /\ UNCHANGED arg

RejectPost(r) == pc[r] = "verifying" /\ Leave(r)

(* Mutant: the code is put aside and stored with a later Update.           *)
AcceptSavingEarly(r) ==
  /\ pc[r] = "verifying"
  /\ LET d == Mine(r) IN
     Assign(r, SetPresented(d, "code_issued", d.expiresAt), "saving")
  /\ UNCHANGED minted

AcceptPost(r) ==
  /\ pc[r] = "verifying"
  /\ LET d == Mine(r) IN
     \/ /\ d.show
        /\ Assign(r, SetPresented(d, "awaiting_presentation",
                                   now + PresentationTimeout), "saving")
     \/ /\ ~d.show
        /\ Assign(r, SetPresented(d, "code_issued", d.expiresAt), "minting")
  /\ UNCHANGED minted

(* A fresh code and its deadline, in ProcessDirectPost and in              *)
(* ConfirmCredentialDisplay.                                               *)
MintCode(r) ==
  /\ pc[r] = "minting"
  /\ \E c \in Codes \ minted :
       /\ minted' = minted \cup {c}
       /\ Assign(r, SetCode(Mine(r), c, now + CodeDuration), "saving")

Save(r) ==
  /\ pc[r] = "saving"
  /\ Put(r, Mine(r))
  /\ UNCHANGED <<redeemed, replayed>>

(* Mutants: the display is confirmed after its deadline, or with no        *)
(* presentation waiting.                                                   *)
OpenDisplayLate(r) ==
  /\ \E s \in {"confirming", "cancelling"} : Fetch(r, s)
  /\ doc.status = "awaiting_presentation"
  /\ UNCHANGED <<arg, posts>>

OpenDisplayAnyStatus(r) ==
  /\ \E s \in {"confirming", "cancelling"} : Fetch(r, s)
  /\ ~sessionExpired(doc)
  /\ UNCHANGED <<arg, posts>>

(* ConfirmCredentialDisplay, up to its state checks.                       *)
OpenDisplay(r) ==
  /\ \E s \in {"confirming", "cancelling"} : Fetch(r, s)
  /\ ~sessionExpired(doc)
  /\ doc.status = "awaiting_presentation"
  /\ UNCHANGED <<arg, posts>>

Confirm(r) ==
  /\ pc[r] = "confirming"
  /\ Assign(r, SetStatus(Mine(r), "code_issued"), "minting")
  /\ UNCHANGED minted

Cancel(r) ==
  /\ pc[r] = "cancelling"
  /\ Put(r, SetStatus(Mine(r), "error"))
  /\ UNCHANGED <<redeemed, replayed>>

-----------------------------------------------------------------------------
(* handleAuthorizationCodeGrant.                                           *)

LookupCode(r, c) ==
  /\ Resolves(c)
  /\ Fetch(r, "redeeming")
  /\ ~doc.forfeited
  /\ now <= doc.codeExpiresAt
  /\ arg' = [arg EXCEPT ![r] = c]
  /\ UNCHANGED posts

(* Mutant: the code is marked as used without looking at the mark.         *)
MarkUnconditionally(r) ==
  /\ pc[r] = "redeeming"
  /\ Resolvable
  /\ doc' = SetForfeited(doc)
  /\ keep' = Renewed
  /\ pc' = [pc EXCEPT ![r] = "forfeited"]
  /\ UNCHANGED <<now, session, index, copy, age, arg, posts, minted,
                 lease, redeemed, replayed, polled>>

(* MarkCodeAsForfeited, atomic in both stores; the request's own copy of   *)
(* the context is not refreshed.                                           *)
MarkCodeAsForfeited(r) ==
  /\ pc[r] = "redeeming"
  /\ \/ /\ Resolvable /\ ~doc.forfeited
        /\ doc' = SetForfeited(doc)
        /\ keep' = Renewed
        /\ pc' = [pc EXCEPT ![r] = "forfeited"]
        /\ UNCHANGED <<now, session, index, copy, age, arg, posts, minted,
                       lease, redeemed, replayed, polled>>
     \/ /\ ~Resolvable \/ doc.forfeited
        /\ Leave(r)

(* Client authentication, redirect_uri, PKCE, or signing fails.            *)
RefuseToken(r) == pc[r] \in {"forfeited", "signing"} /\ Leave(r)

(* Mutant: the session ends in a status the pollers do not know.           *)
SignWritingCompleted(r) ==
  /\ pc[r] = "forfeited"
  /\ Assign(r, SetStatus(Mine(r), "completed"), "signing")
  /\ UNCHANGED minted

SignIDToken(r) ==
  /\ pc[r] = "forfeited"
  /\ Assign(r, SetStatus(Mine(r), "token_issued"), "signing")
  /\ UNCHANGED minted

(* The context is written back, and only then are the tokens returned.     *)
AnswerToken(r) ==
  /\ pc[r] = "signing"
  /\ Put(r, Mine(r))
  /\ IF Resolvable
     THEN /\ redeemed' = redeemed \cup {arg[r]}
          /\ replayed' = IF arg[r] \in redeemed THEN replayed \cup {arg[r]}
                                                ELSE replayed
     ELSE UNCHANGED <<redeemed, replayed>>

-----------------------------------------------------------------------------
(* PollSession: what the waiting page is told.                             *)
PollSession ==
  /\ session # "none"
  /\ polled' =
       IF ~Resolvable THEN [status |-> "not_found", code |-> None]
       ELSE IF sessionExpired(doc)
               /\ doc.status \in {"pending", "awaiting_presentation"}
       THEN [status |-> "expired", code |-> None]
       ELSE [status |-> doc.status,
             code |-> IF doc.status = "code_issued" THEN doc.code ELSE None]
  /\ keep' = IF Resolvable THEN Renewed ELSE keep
  /\ UNCHANGED <<now, session, doc, index, pc, copy, age, arg, posts, minted,
                 lease, redeemed, replayed>>

(* ttlcache's cleaner, or the TTL index of MongoDB.                        *)
Evict ==
  /\ session = "stored"
  /\ now >= keep
  /\ session' = "evicted"
  /\ UNCHANGED <<now, doc, keep, index, pc, copy, age, arg, posts, minted,
                 lease, redeemed, replayed, polled>>

Tick ==
  /\ session # "none"
  /\ now < MaxTime
  /\ \A r \in Requests : pc[r] # "idle" => age[r] < Latency
  /\ now' = now + 1
  /\ age' = [r \in Requests |-> IF pc[r] = "idle" THEN 0 ELSE age[r] + 1]
  /\ UNCHANGED <<session, doc, keep, index, pc, copy, arg, posts, minted,
                 lease, redeemed, replayed, polled>>

Handler(r) ==
  \/ GetOIDCRequestObject(r) \/ UpdateSessionPreference(r) \/ ProcessCallback(r)
  \/ ReceivePost(r) \/ RejectPost(r) \/ AcceptPost(r) \/ MintCode(r) \/ Save(r)
  \/ OpenDisplay(r) \/ Confirm(r) \/ Cancel(r)
  \/ \E c \in Codes : LookupCode(r, c)
  \/ MarkCodeAsForfeited(r) \/ RefuseToken(r) \/ SignIDToken(r) \/ AnswerToken(r)

Next == \/ Authorize \/ PollSession \/ Evict \/ Tick
        \/ \E r \in Requests : Handler(r)

Spec == Init /\ [][Next]_vars
-----------------------------------------------------------------------------
(* A code is answered with tokens at most once, whatever the token         *)
(* requests, repeated presentations and preference updates that overlap    *)
(* (handleAuthorizationCodeGrant: "prevents double redemption").           *)
OneTokenPerCode == replayed = {}

(* An ID token is only signed from a context that holds a presentation:    *)
(* no write-back of an older context, cancellation or early confirmation   *)
(* leads to a code without verified claims behind it.                      *)
SignsPresentedClaims ==
  \A r \in Requests : pc[r] = "signing" => Mine(r).vp

(* The session outlives every code stored in it: a code that has not       *)
(* expired is never lost to retention, although MongoDB counts from the    *)
(* session's creation (authContextRetention).                              *)
CodeRetained == (session # "none" /\ ~Resolvable) => now > lease

(* A page that is told the code was issued gets the code to follow         *)
(* (PollSession, authorizationCodeRedirectURI).                            *)
PollCarriesCode == polled.status = "code_issued" => polled.code # None
=============================================================================
