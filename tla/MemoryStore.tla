---------------------------- MODULE MemoryStore ----------------------------
(***************************************************************************)
(* MemoryStore of pkg/cache/authcontext.go: authorization contexts in a    *)
(* ttlcache keyed by session id, a map of secondary indices from handles   *)
(* (code, request_uri, refresh_token...) to session ids, and one mutex.    *)
(*                                                                         *)
(* Every method runs under the mutex, so each is one action.  What is not  *)
(* protected by it is modelled as the code leaves it: Get hands out the    *)
(* cached pointer, requests keep pointers (ref) and write through them     *)
(* (Fill), the ttlcache cleaner evicts on its own, and the eviction        *)
(* callback that cleans the indices runs later, in a goroutine (pending).  *)
(*                                                                         *)
(* A handle is a random string minted for one field of one session, so     *)
(* FieldOf and OwnerOf are constants, a document's handles are a set, and  *)
(* an index key "field:value" is the handle itself.  The fields that       *)
(* neither an index nor a guard reads are left out.                        *)
(***************************************************************************)
EXTENDS Naturals, FiniteSets

CONSTANTS Sessions, Handles, Requests,
          Ptrs,             \* addresses of AuthorizationContext structs
          Keys,             \* DPoP thumbprints
          FieldOf, OwnerOf, \* the field and the session of a handle
          TTL,              \* retention of an item, in ticks
          MaxPreAuthRedeemers, MaxTXCodeAttempts,
          InPlaceRotation,  \* do requests overwrite a handle of a fetched
                            \* document before they Update it?
          None

Fields == {"request_uri", "code", "auth_session", "issuer_state",
           "ephemeral_key_id", "access_token", "refresh_token"}

(* AuthorizationContext, as far as this module tells documents apart.      *)
Doc == [sid : Sessions, h : SUBSET Handles, forfeited : BOOLEAN,
        redeemed : SUBSET Keys, attempts : 0..MaxTXCodeAttempts]

ASSUME MemoryStoreAssumption ==
  /\ TTL \in Nat \ {0}
  /\ MaxPreAuthRedeemers \in Nat
  /\ MaxTXCodeAttempts \in Nat
  /\ InPlaceRotation \in BOOLEAN
  /\ FieldOf \in [Handles -> Fields]
  /\ OwnerOf \in [Handles -> Sessions]
  /\ None \notin Sessions \cup Ptrs \cup Doc

VARIABLES heap,     \* the structs that something still points to
          cache,    \* session id -> pointer held by the ttlcache item
          left,     \* time left until the item expires
          index,    \* s.indices
          pending,  \* evicted structs whose OnEviction callback has not run
          ref,      \* the pointer a request holds
          editing   \* requests that wrote a handle and still have to Update
vars == <<heap, cache, left, index, pending, ref, editing>>

TypeOK ==
  /\ heap \in [Ptrs -> Doc \cup {None}]
  /\ cache \in [Sessions -> Ptrs \cup {None}]
  /\ left \in [Sessions -> 0..TTL]
  /\ index \in [Handles -> Sessions \cup {None}]
  /\ pending \in SUBSET Ptrs
  /\ ref \in [Requests -> Ptrs \cup {None}]
  /\ editing \in SUBSET Requests

(* NewMemoryStore.                                                         *)
Init ==
  /\ heap = [p \in Ptrs |-> None]
  /\ cache = [s \in Sessions |-> None]
  /\ left = [s \in Sessions |-> 0]
  /\ index = [k \in Handles |-> None]
  /\ pending = {}
  /\ ref = [r \in Requests |-> None]
  /\ editing = {}

-----------------------------------------------------------------------------
(* The heap: a struct lives while the cache, a callback or a request       *)
(* points to it.                                                           *)
Reachable(c, pn, rf) ==
  {p \in Ptrs : \/ \E s \in Sessions : c[s] = p
                \/ p \in pn
                \/ \E r \in Requests : rf[r] = p}

Free == Ptrs \ Reachable(cache, pending, ref)

Write(hp, c, pn, rf) ==
  /\ heap' = [p \in Ptrs |-> IF p \in Reachable(c, pn, rf) THEN hp[p] ELSE None]
  /\ cache' = c
  /\ pending' = pn
  /\ ref' = rf

(* item := c.cache.Get(s); item != nil.                                    *)
Live(s) == s \in Sessions /\ cache[s] # None /\ left[s] > 0
DocOf(s) == heap[cache[s]]

(* ttlcache touches an item on every hit, and Set with DefaultTTL restarts *)
(* its TTL; PreviousOrDefaultTTL leaves what the preceding Get set.        *)
Touch(s) == left' = [left EXCEPT ![s] = TTL]

(* The two ways an operation stores a document: through the cached pointer *)
(* or by pointing the cache at a new struct.                               *)
InPlace(s, d, rf) ==
  /\ Write([heap EXCEPT ![cache[s]] = d], cache, pending, rf)
  /\ Touch(s)

Replace(s, d, rf) ==
  /\ \E p \in Free :
       Write([heap EXCEPT ![p] = d], [cache EXCEPT ![s] = p], pending, rf)
  /\ Touch(s)

Holds(r, p) == [ref EXCEPT ![r] = p]
Idle(r) == ref[r] = None

-----------------------------------------------------------------------------
(* The secondary indices.                                                  *)

(* Mutant of updateIndices: a field is forgotten.                          *)
updateIndicesNoRefresh(ix, d) ==
  [k \in Handles |-> IF k \in d.h /\ FieldOf[k] # "refresh_token"
                     THEN d.sid ELSE ix[k]]

updateIndices(ix, d) == [k \in Handles |-> IF k \in d.h THEN d.sid ELSE ix[k]]

deleteIndices(ix, d) == [k \in Handles |-> IF k \in d.h THEN None ELSE ix[k]]

(* A handle nobody has seen: a random value, or one whose every trace is   *)
(* gone, which keeps the set of handles finite.                            *)
Unseen(k) == /\ index[k] = None
             /\ \A p \in Ptrs : heap[p] # None => k \notin heap[p].h

OnePerField(hs) == \A j, k \in hs : FieldOf[j] = FieldOf[k] => j = k
Minted(s, fs) ==
  {hs \in SUBSET {k \in Handles : OwnerOf[k] = s /\ FieldOf[k] \in fs /\ Unseen(k)} :
     OnePerField(hs)}

Without(hs, fs) == {k \in hs : FieldOf[k] \notin fs}
FieldsOf(hs) == {FieldOf[k] : k \in hs}
Assigned(hs, new) == Without(hs, FieldsOf(new)) \cup new

With(d, hs) == [sid |-> d.sid, h |-> hs, forfeited |-> d.forfeited,
                redeemed |-> d.redeemed, attempts |-> d.attempts]
Spent(d) == [sid |-> d.sid, h |-> d.h, forfeited |-> TRUE,
             redeemed |-> d.redeemed, attempts |-> d.attempts]

-----------------------------------------------------------------------------
(* Requests hold pointers and write through them.                          *)

(* Save, Create: a new session, its handles indexed.                       *)
Save(s, hs) ==
  /\ cache[s] = None
  /\ \A p \in Ptrs : heap[p] # None => heap[p].sid # s
  /\ hs \in Minted(s, Fields)
  /\ LET d == [sid |-> s, h |-> hs, forfeited |-> FALSE,
               redeemed |-> {}, attempts |-> 0]
     IN /\ Replace(s, d, ref)
        /\ index' = updateIndices(index, d)
  /\ UNCHANGED editing

(* Get, GetByID: the cached pointer itself leaves the store.               *)
GetByID(r, s) ==
  /\ Idle(r)
  /\ Live(s)
  /\ Write(heap, cache, pending, Holds(r, cache[s]))
  /\ Touch(s)
  /\ UNCHANGED <<index, editing>>

(* Get by any other field, GetByAuthorizationCode, GetByRefreshToken,      *)
(* GetByAccessToken, GetWithAccessToken: through resolveSessionIDLocked.   *)
GetByHandle(r, k) == index[k] # None /\ GetByID(r, index[k])

GetSnapshot(r, s) ==
  /\ Idle(r)
  /\ Live(s)
  /\ \E p \in Free :
       Write([heap EXCEPT ![p] = DocOf(s)], cache, pending, Holds(r, p))
  /\ Touch(s)
  /\ UNCHANGED <<index, editing>>

(* A handler sets handle fields of the struct it fetched and has not yet   *)
(* called Update.  It fills empty fields, or overwrites full ones where    *)
(* InPlaceRotation says so (the verifier's session.Code = code).           *)
Fill(r, k) ==
  /\ ~Idle(r)
  /\ r \notin editing
  /\ LET d == heap[ref[r]]
     IN /\ OwnerOf[k] = d.sid
        /\ Unseen(k)
        /\ InPlaceRotation \/ FieldOf[k] \notin FieldsOf(d.h)
        /\ Write([heap EXCEPT ![ref[r]] = With(d, Assigned(d.h, {k}))],
                 cache, pending, ref)
  /\ editing' = editing \cup {r}
  /\ UNCHANGED <<left, index>>

(* A request that changed no handle ends.                                  *)
Return(r) ==
  /\ ~Idle(r)
  /\ r \notin editing
  /\ Write(heap, cache, pending, Holds(r, None))
  /\ UNCHANGED <<left, index, editing>>

(* Update: the caller's struct becomes the cached one, whatever it holds;  *)
(* ErrNoDocuments when the session has expired meanwhile.                  *)
Update(r) ==
  /\ ~Idle(r)
  /\ LET d == heap[ref[r]] IN
     \/ /\ Live(d.sid)
        /\ Write(heap, [cache EXCEPT ![d.sid] = ref[r]], pending, Holds(r, None))
        /\ Touch(d.sid)
        /\ index' = updateIndices(deleteIndices(index, DocOf(d.sid)), d)
     \/ /\ ~Live(d.sid)
        /\ Write(heap, cache, pending, Holds(r, None))
        /\ UNCHANGED <<left, index>>
  /\ editing' = editing \ {r}

-----------------------------------------------------------------------------
(* In-place operations on the cached struct.                               *)

ForfeitAuthorizationCode(r, k) ==
  /\ Idle(r)
  /\ FieldOf[k] \in {"code", "request_uri"}
  /\ LET s == index[k] IN
     /\ Live(s)
     /\ ~DocOf(s).forfeited
     /\ InPlace(s, Spent(DocOf(s)), Holds(r, cache[s]))
     /\ index' = updateIndices(index, DocOf(s))
  /\ UNCHANGED editing

RedeemPreAuthorizedCode(r, k, key) ==
  /\ Idle(r)
  /\ FieldOf[k] = "code"
  /\ LET s == index[k]
         d == DocOf(s)
     IN /\ Live(s)
        /\ ~d.forfeited
        /\ key \notin d.redeemed
        /\ Cardinality(d.redeemed) < MaxPreAuthRedeemers
        /\ InPlace(s, [sid |-> d.sid, h |-> d.h, forfeited |-> d.forfeited,
                       redeemed |-> d.redeemed \cup {key},
                       attempts |-> d.attempts], Holds(r, cache[s]))
  /\ UNCHANGED <<index, editing>>

(* Mutant of ConsumeTXCodeAttempt: one debit too many.                     *)
ConsumeOneTooMany(k) ==
  /\ FieldOf[k] = "code"
  /\ LET s == index[k]
         d == DocOf(s)
     IN /\ Live(s)
        /\ ~d.forfeited
        /\ InPlace(s, IF d.attempts > MaxTXCodeAttempts THEN Spent(d)
                      ELSE [sid |-> d.sid, h |-> d.h, forfeited |-> d.forfeited,
                            redeemed |-> d.redeemed,
                            attempts |-> d.attempts + 1], ref)
  /\ UNCHANGED <<index, editing>>

(* A debit of the tx_code budget; with nothing left the code is forfeited. *)
ConsumeTXCodeAttempt(k) ==
  /\ FieldOf[k] = "code"
  /\ LET s == index[k]
         d == DocOf(s)
     IN /\ Live(s)
        /\ ~d.forfeited
        /\ InPlace(s, IF d.attempts >= MaxTXCodeAttempts THEN Spent(d)
                      ELSE [sid |-> d.sid, h |-> d.h, forfeited |-> d.forfeited,
                            redeemed |-> d.redeemed,
                            attempts |-> d.attempts + 1], ref)
  /\ UNCHANGED <<index, editing>>

MarkCodeAsForfeited(s) ==
  /\ Live(s)
  /\ ~DocOf(s).forfeited
  /\ InPlace(s, Spent(DocOf(s)), ref)
  /\ UNCHANGED <<index, editing>>

(* SetAuthenticSource, SetIdentifier: plain fields, no index touched.      *)
SetPlainField(s) ==
  /\ Live(s)
  /\ InPlace(s, DocOf(s), ref)
  /\ UNCHANGED <<index, editing>>

Consent(k) ==
  /\ FieldOf[k] = "request_uri"
  /\ LET s == index[k] IN
     /\ Live(s)
     /\ InPlace(s, DocOf(s), ref)
     /\ index' = updateIndices(index, DocOf(s))
  /\ UNCHANGED editing

(* AddToken: doc.Token is replaced, the old token's index is not removed.  *)
AddToken(k, token) ==
  /\ FieldOf[k] = "code"
  /\ FieldOf[token] = "access_token"
  /\ LET s == index[k] IN
     /\ Live(s)
     /\ OwnerOf[token] = s
     /\ Unseen(token)
     /\ InPlaceRotation \/ "access_token" \notin FieldsOf(DocOf(s).h)
     /\ LET d == With(DocOf(s), Assigned(DocOf(s).h, {token}))
        IN /\ InPlace(s, d, ref)
           /\ index' = updateIndices(index, d)
  /\ UNCHANGED editing

-----------------------------------------------------------------------------
(* Operations that point the cache at a new struct.                        *)

(* ExtendExpiry, SetAuthProvider: a copy with plain fields changed.        *)
ReplaceByCopy(s) ==
  /\ Live(s)
  /\ Replace(s, DocOf(s), ref)
  /\ index' = updateIndices(index, DocOf(s))
  /\ UNCHANGED editing

(* The claims drop an index entry whose session is no longer retained.     *)
DropStaleIndex(k) ==
  /\ FieldOf[k] \in {"auth_session", "issuer_state"}
  /\ index[k] # None
  /\ ~Live(index[k])
  /\ index' = [index EXCEPT ![k] = None]
  /\ UNCHANGED <<heap, cache, left, pending, ref, editing>>

(* claimIndexedHandle: the stored document and the caller's are two        *)
(* copies, both without the handle; no other index is touched.             *)
ClaimAuthSession(r, k) ==
  /\ Idle(r)
  /\ FieldOf[k] = "auth_session"
  /\ LET s == index[k]
         d == With(DocOf(s), Without(DocOf(s).h, {"auth_session"}))
     IN /\ Live(s)
        /\ k \in DocOf(s).h
        /\ \E p, q \in Free :
             /\ p # q
             /\ Write([heap EXCEPT ![p] = d, ![q] = d],
                      [cache EXCEPT ![s] = p], pending, Holds(r, q))
        /\ Touch(s)
        /\ index' = [index EXCEPT ![k] = None]
  /\ UNCHANGED editing

(* Mutant of ClaimIssuerState: only the issuer_state index is removed, as  *)
(* the comment in the code says it once was.                               *)
ClaimDroppingOneIndex(r, k, new) ==
  /\ ~Idle(r) /\ r \notin editing
  /\ FieldOf[k] = "issuer_state"
  /\ LET s == index[k]
         d == With(heap[ref[r]],
                   Assigned(Without(heap[ref[r]].h, {"issuer_state"}), new))
     IN /\ Live(s)
        /\ heap[ref[r]].sid = s
        /\ k \in DocOf(s).h
        /\ new \in Minted(s, {"auth_session", "ephemeral_key_id"})
        /\ \E p, q \in Free :
             /\ p # q
             /\ Write([heap EXCEPT ![p] = d, ![q] = d],
                      [cache EXCEPT ![s] = p], pending, Holds(r, q))
        /\ Touch(s)
        /\ index' = updateIndices([index EXCEPT ![k] = None], d)
  /\ UNCHANGED editing

(* ClaimIssuerState: the caller's document (the one it fetched, with the   *)
(* exchange's own handles) replaces the stored one wholesale.              *)
ClaimIssuerState(r, k, new) ==
  /\ ~Idle(r) /\ r \notin editing
  /\ FieldOf[k] = "issuer_state"
  /\ LET s == index[k]
         d == With(heap[ref[r]],
                   Assigned(Without(heap[ref[r]].h, {"issuer_state"}), new))
     IN /\ Live(s)
        /\ heap[ref[r]].sid = s
        /\ k \in DocOf(s).h
        /\ new \in Minted(s, {"auth_session", "ephemeral_key_id"})
        /\ \E p, q \in Free :
             /\ p # q
             /\ Write([heap EXCEPT ![p] = d, ![q] = d],
                      [cache EXCEPT ![s] = p], pending, Holds(r, q))
        /\ Touch(s)
        /\ index' = updateIndices([deleteIndices(index, DocOf(s))
                                     EXCEPT ![k] = None], d)
  /\ UNCHANGED editing

(* ResumeIssuerState: the same exchange, written through the cached        *)
(* pointer; the caller gets a copy.                                        *)
ResumeIssuerState(r, k, new) ==
  /\ Idle(r)
  /\ FieldOf[k] = "issuer_state"
  /\ LET s == index[k]
         d == With(DocOf(s), Assigned(Without(DocOf(s).h,
                     {"issuer_state", "auth_session", "ephemeral_key_id"}), new))
     IN /\ Live(s)
        /\ k \in DocOf(s).h
        /\ new \in Minted(s, {"auth_session", "ephemeral_key_id"})
        /\ \E q \in Free :
             Write([heap EXCEPT ![cache[s]] = d, ![q] = d],
                   cache, pending, Holds(r, q))
        /\ Touch(s)
        /\ index' = updateIndices(deleteIndices(index, DocOf(s)), d)
  /\ UNCHANGED editing

(* RotateRefreshToken: compare-and-swap on the old token, storing a copy   *)
(* of the caller's document with the new tokens.                           *)
RotateRefreshToken(r, k, new) ==
  /\ ~Idle(r) /\ r \notin editing
  /\ FieldOf[k] = "refresh_token"
  /\ LET s == index[k]
         d == With(heap[ref[r]], Assigned(heap[ref[r]].h, new))
     IN /\ Live(s)
        /\ heap[ref[r]].sid = s
        /\ k \in DocOf(s).h
        /\ new \in Minted(s, {"access_token", "refresh_token"})
        /\ "refresh_token" \in FieldsOf(new)
        /\ Replace(s, d, Holds(r, None))
        /\ index' = updateIndices(deleteIndices(index, DocOf(s)), d)
  /\ UNCHANGED editing

-----------------------------------------------------------------------------
(* Removal.                                                                *)

(* The item leaves the ttlcache; OnEviction is only started here.          *)
Evict(s) ==
  /\ Write(heap, [cache EXCEPT ![s] = None], pending \cup {cache[s]}, ref)
  /\ left' = [left EXCEPT ![s] = 0]
  /\ UNCHANGED editing

Delete(s) ==
  /\ cache[s] # None
  /\ Evict(s)
  /\ index' = IF Live(s) THEN deleteIndices(index, DocOf(s)) ELSE index

(* The ttlcache cleaner.                                                   *)
Sweep(s) ==
  /\ cache[s] # None
  /\ left[s] = 0
  /\ Evict(s)
  /\ UNCHANGED index

(* Mutant of Evicted: the eviction callback is not registered.             *)
EvictedWithoutCleanup(p) ==
  /\ p \in pending
  /\ Write(heap, cache, pending \ {p}, ref)
  /\ UNCHANGED <<left, index, editing>>

(* The OnEviction callback, reading the struct as it is by then.           *)
Evicted(p) ==
  /\ p \in pending
  /\ Write(heap, cache, pending \ {p}, ref)
  /\ index' = deleteIndices(index, heap[p])
  /\ UNCHANGED <<left, editing>>

Tick ==
  /\ \E s \in Sessions : left[s] > 0
  /\ left' = [s \in Sessions |-> IF left[s] > 0 THEN left[s] - 1 ELSE 0]
  /\ UNCHANGED <<heap, cache, index, pending, ref, editing>>

-----------------------------------------------------------------------------
RequestStep(r) ==
  \/ \E s \in Sessions : GetByID(r, s) \/ GetSnapshot(r, s)
  \/ \E k \in Handles :
       \/ GetByHandle(r, k) \/ Fill(r, k)
       \/ ForfeitAuthorizationCode(r, k)
       \/ \E key \in Keys : RedeemPreAuthorizedCode(r, k, key)
       \/ ClaimAuthSession(r, k)
       \/ \E new \in SUBSET Handles :
            \/ ClaimIssuerState(r, k, new) \/ ResumeIssuerState(r, k, new)
            \/ RotateRefreshToken(r, k, new)
  \/ Update(r) \/ Return(r)

StoreStep ==
  \/ \E s \in Sessions :
       \/ \E hs \in SUBSET Handles : Save(s, hs)
       \/ MarkCodeAsForfeited(s) \/ SetPlainField(s) \/ ReplaceByCopy(s)
       \/ Delete(s) \/ Sweep(s)
  \/ \E k \in Handles :
       \/ ConsumeTXCodeAttempt(k) \/ Consent(k) \/ DropStaleIndex(k)
       \/ \E token \in Handles : AddToken(k, token)
  \/ \E p \in Ptrs : Evicted(p)
  \/ Tick

Next == StoreStep \/ \E r \in Requests : RequestStep(r)

Spec == Init /\ [][Next]_vars

(* ttlcache's cleaner and the callbacks it starts are goroutines of their  *)
(* own.                                                                    *)
FairSpec == /\ Spec
            /\ \A s \in Sessions : WF_vars(Sweep(s))
            /\ \A p \in Ptrs : WF_vars(Evicted(p))
-----------------------------------------------------------------------------
(* Every index entry is backed by the document it leads to, or by an       *)
(* evicted one whose callback is about to remove it: after a rotation, a   *)
(* claim, an Update or an eviction no stale handle stays resolvable        *)
(* (updateIndices, deleteIndices, the OnEviction callback).                *)
IndexCovered ==
  \A k \in Handles : index[k] # None =>
    \/ cache[index[k]] # None /\ k \in DocOf(index[k]).h
    \/ \E p \in pending : heap[p].sid = index[k] /\ k \in heap[p].h

(* Every handle of a retained document resolves to it, unless the request  *)
(* that wrote the handle into the shared struct has still to Update it: a  *)
(* late eviction callback, a claim or a write-back of an older pointer     *)
(* never takes a live session's handles away.                              *)
IndexComplete ==
  \A s \in Sessions : Live(s) =>
    \A k \in DocOf(s).h :
      index[k] = s \/ \E r \in editing : k \in heap[ref[r]].h

(* The handles of an expired session do not stay in the index for ever:    *)
(* the cleaner and the eviction callback remove them (NewMemoryStore).     *)
ExpiredHandlesVanish ==
  \A k \in Handles :
    (index[k] # None /\ ~Live(index[k])) ~> (index[k] = None)

(* What the comment in Update says: a handle that was rotated away does    *)
(* not stay resolvable once no request is still editing.                   *)
RotatedHandlesGone ==
  editing = {} =>
    \A k \in Handles : (index[k] # None /\ Live(index[k]))
                         => k \in DocOf(index[k]).h
=============================================================================
