-------------------------- MODULE IssuerFlowProofs --------------------------
(***************************************************************************)
(* Proofs about IssuerFlow, for both stores and any overlap of requests:   *)
(* type correctness and ContextOutlivesCode; nothing but the write-back of *)
(* an older context by a browser request undoes what the store recorded;   *)
(* and until one does, one token answer per code, every refresh token      *)
(* exchanged once, and the last token given resolves.                      *)
(***************************************************************************)
EXTENDS IssuerFlow, TLAPS

(* Contexts whose deadline lies inside the retention.                      *)
Good == {d \in Doc : d.exp <= AuthContextTTL}

(* Steps at which a request holds a context.                               *)
HoldSteps == {"visiting", "callback", "resolving", "describing", "presenting",
              "redeeming", "refreshing"}

HeapOK ==
  /\ heap \in [Ptrs -> Good \cup {None}]
  /\ cur \in Ptrs \cup {None}
  /\ ref \in [Requests -> Ptrs \cup {None}]
  /\ session # "none" => cur # None /\ heap[cur] # None
  /\ \A r \in Requests : ref[r] # None => heap[ref[r]] # None
  /\ \A r \in Requests : pc[r] \in HoldSteps => ref[r] # None
  /\ session = "none" => \A r \in Requests : pc[r] = "idle" /\ ref[r] = None

(* The retention covers every deadline from the moment of the request on.  *)
LeaseOK ==
  /\ session = "none" => now = 0
  /\ session # "none" => keep >= AuthContextTTL
  /\ session = "evicted" => now >= AuthContextTTL

PlainOK ==
  /\ now \in Nat /\ now <= MaxTime
  /\ session \in {"none", "stored", "evicted"}
  /\ keep \in Nat
  /\ index \subseteq Tokens
  /\ pc \in [Requests -> Steps]
  /\ arg \in [Requests -> Tokens \cup {None}]
  /\ \A r \in Requests : pc[r] = "refreshing" => arg[r] \in Tokens
  /\ selected \in BOOLEAN
  /\ docs \in BOOLEAN
  /\ revealed \in BOOLEAN

WalletOK ==
  /\ minted \subseteq Tokens
  /\ answers \subseteq minted
  /\ spent \subseteq Tokens
  /\ respent \subseteq spent
  /\ latest \in minted \cup {None}
  /\ undone \in BOOLEAN

Shape == HeapOK /\ LeaseOK /\ PlainOK /\ WalletOK

(* The four parts together say more than TypeOK does.                      *)
LEMMA ShapeGivesTypeOK == Shape => TypeOK
<1> SUFFICES ASSUME Shape PROVE TypeOK
  OBVIOUS
<1>1. now \in 0..MaxTime
  BY IssuerAssumption DEF Shape, PlainOK
<1>2. heap \in [Ptrs -> Doc \cup {None}]
  BY DEF Shape, HeapOK, Good
<1> QED  BY <1>1, <1>2 DEF Shape, HeapOK, PlainOK, WalletOK, TypeOK

(* The steps of a request, spelt out.                                      *)
LEMMA StepsAre ==
  Steps = {"visiting", "selecting", "callback", "resolving", "describing",
           "presenting", "publishing", "idle", "redeeming", "refreshing"}
  BY DEF Steps, BrowserSteps

(* None is neither a pointer, nor a token, nor a context.                  *)
LEMMA NoneIsNothing ==
  None \notin Ptrs /\ None \notin Tokens /\ None \notin Good
  BY IssuerAssumption DEF Good

(* An assignment to a field keeps the deadline inside the retention.       *)
LEMMA GoodWrites ==
  ASSUME NEW d \in Good, NEW e \in Nat, e <= AuthContextTTL,
         NEW t \in Tokens \cup {None}
  PROVE  /\ SetExp(d, e) \in Good
         /\ SetForfeited(d) \in Good
         /\ SetConsent(d) \in Good
         /\ SetIdentified(d) \in Good
         /\ SetToken(d, t) \in Good
  BY DEF Good, Doc, SetExp, SetForfeited, SetConsent, SetIdentified, SetToken

-----------------------------------------------------------------------------
(* The heap after a step of request r: well-formed, and the other requests *)
(* hold what they held.                                                    *)
NewHeap(r) ==
  /\ heap' \in [Ptrs -> Good \cup {None}]
  /\ cur' \in Ptrs
  /\ heap'[cur'] # None
  /\ ref' \in [Requests -> Ptrs \cup {None}]
  /\ \A q \in Requests : ref'[q] # None => heap'[ref'[q]] # None
  /\ \A q \in Requests : q # r => ref'[q] = ref[q]

(* No struct but d came into being.                                        *)
Cells(d) == \A p \in Ptrs : heap'[p] \in {heap[p], d, None}

(* Write leaves a well-formed heap and drops only what nobody holds.       *)
LEMMA WriteHeap ==
  ASSUME NEW r,
         NEW hp \in [Ptrs -> Good \cup {None}], NEW c \in Ptrs, hp[c] # None,
         NEW rf \in [Requests -> Ptrs \cup {None}],
         \A q \in Requests : rf[q] # None => hp[rf[q]] # None,
         \A q \in Requests : q # r => rf[q] = ref[q],
         Write(hp, c, rf)
  PROVE  /\ NewHeap(r)
         /\ heap'[cur'] = hp[c]
         /\ \A q \in Requests : rf[q] # None => heap'[rf[q]] = hp[rf[q]]
         /\ \A p \in Ptrs : heap'[p] \in {hp[p], None}
<1>1. /\ cur' = c /\ ref' = rf
      /\ heap' = [p \in Ptrs |-> IF p \in InUse(c, rf) THEN hp[p] ELSE None]
  BY DEF Write
<1>2. c \in InUse(c, rf)
  BY DEF InUse
<1>3. \A q \in Requests : rf[q] # None => rf[q] \in InUse(c, rf) /\ rf[q] \in Ptrs
  BY DEF InUse
<1>4. heap' \in [Ptrs -> Good \cup {None}]
  BY <1>1
<1>5. heap'[c] = hp[c] /\ \A q \in Requests : rf[q] # None => heap'[rf[q]] = hp[rf[q]]
  BY <1>1, <1>2, <1>3
<1>6. \A p \in Ptrs : heap'[p] \in {hp[p], None}
  BY <1>1
<1> QED  BY <1>1, <1>4, <1>5, <1>6 DEF NewHeap

(* Once the request was pushed, the store holds a context.                 *)
LEMMA StoredGood ==
  ASSUME Shape, session # "none"
  PROVE  cur \in Ptrs /\ Stored \in Good /\ Stored # None
  BY NoneIsNothing DEF Shape, HeapOK, Stored

(* So does a request between its Get and its last write.                   *)
LEMMA HeldGood ==
  ASSUME Shape, NEW r \in Requests, pc[r] \in HoldSteps
  PROVE  ref[r] \in Ptrs /\ Held(r) \in Good
  BY NoneIsNothing DEF Shape, HeapOK, Held

(* Touching the context never brings its eviction before AuthContextTTL.   *)
LEMMA RenewedCovers ==
  ASSUME Shape, session # "none"
  PROVE  Renewed \in Nat /\ Renewed >= AuthContextTTL
  BY IssuerAssumption DEF Shape, PlainOK, LeaseOK, Renewed

(* A request that drops its context disturbs nobody else.                  *)
LEMMA LetGo ==
  ASSUME Shape, session # "none", NEW r \in Requests, Write(heap, cur, Holds(r, None))
  PROVE  /\ NewHeap(r)
         /\ heap'[cur'] = Stored
         /\ cur' = cur
         /\ \A q \in Requests :
              ref'[q] # None => q # r /\ heap'[ref'[q]] = heap[ref[q]]
         /\ Cells(None)
<1>1. cur \in Ptrs /\ heap[cur] # None /\ heap \in [Ptrs -> Good \cup {None}]
  BY StoredGood DEF Shape, HeapOK, Stored
<1>2. Holds(r, None) \in [Requests -> Ptrs \cup {None}]
  BY DEF Holds, Shape, HeapOK
<1>3. \A q \in Requests : /\ Holds(r, None)[q] # None => heap[Holds(r, None)[q]] # None
                          /\ q # r => Holds(r, None)[q] = ref[q]
                          /\ q = r => Holds(r, None)[q] = None
  BY DEF Holds, Shape, HeapOK
<1>4. ref' = Holds(r, None) /\ cur' = cur
  BY DEF Write
<1>5. Cells(None)
  BY <1>1, <1>2, <1>3, WriteHeap DEF Cells
<1> QED  BY <1>1, <1>2, <1>3, <1>4, <1>5, WriteHeap DEF Stored

(* Get and ForfeitAuthorizationCode: what the request gets in hand.        *)
LEMMA HandHeap ==
  ASSUME Shape, session # "none", NEW r \in Requests, NEW d \in Good, Hand(r, d)
  PROVE  /\ NewHeap(r)
         /\ ref'[r] # None
         /\ heap'[cur'] = d
         /\ heap'[ref'[r]] = d
         /\ cur' = cur
         /\ Backend # "memory" => ref'[r] # cur'
         /\ \A q \in Requests : (q # r /\ ref[q] # None)
              => heap'[ref'[q]] = IF ref[q] = cur THEN d ELSE heap[ref[q]]
         /\ Cells(d)
<1>0. /\ cur \in Ptrs /\ heap \in [Ptrs -> Good \cup {None}]
      /\ ref \in [Requests -> Ptrs \cup {None}]
      /\ \A q \in Requests : ref[q] # None => heap[ref[q]] # None
      /\ d # None
  BY StoredGood, NoneIsNothing DEF Shape, HeapOK
<1>1. CASE Backend = "memory"
  <2> DEFINE hp == [heap EXCEPT ![cur] = d]
             rf == Holds(r, cur)
  <2>1. Write(hp, cur, rf)
    BY <1>1 DEF Hand
  <2>2. hp \in [Ptrs -> Good \cup {None}] /\ hp[cur] = d
    BY <1>0
  <2>3. rf \in [Requests -> Ptrs \cup {None}] /\ rf[r] = cur
        /\ \A q \in Requests : q # r => rf[q] = ref[q]
    BY <1>0 DEF Holds
  <2>4. \A q \in Requests : rf[q] # None => hp[rf[q]] # None
    BY <1>0, <2>3
  <2>5. ref' = rf /\ cur' = cur
    BY <2>1 DEF Write
  <2>6. \A q \in Requests : (q # r /\ ref[q] # None)
              => hp[rf[q]] = IF ref[q] = cur THEN d ELSE heap[ref[q]]
    BY <1>0, <2>3
  <2>c. \A x \in Ptrs : hp[x] \in {heap[x], d}
    BY <1>0
  <2> HIDE DEF hp, rf
  <2>7. /\ NewHeap(r)
        /\ heap'[cur'] = hp[cur]
        /\ \A q \in Requests : rf[q] # None => heap'[rf[q]] = hp[rf[q]]
        /\ \A x \in Ptrs : heap'[x] \in {hp[x], None}
    BY <1>0, <2>1, <2>2, <2>3, <2>4, WriteHeap
  <2>8. Cells(d)
    BY <2>c, <2>7 DEF Cells
  <2> QED  BY <1>0, <1>1, <2>2, <2>3, <2>5, <2>6, <2>7, <2>8, NoneIsNothing
<1>2. CASE Backend # "memory"
  <2>1. PICK p \in Free : Write([heap EXCEPT ![cur] = d, ![p] = d], cur, Holds(r, p))
    BY <1>2 DEF Hand
  <2> DEFINE hp == [heap EXCEPT ![cur] = d, ![p] = d]
             rf == Holds(r, p)
  <2>2. p \in Ptrs /\ p # cur /\ \A q \in Requests : ref[q] # p
    BY DEF Free, InUse
  <2>3. hp \in [Ptrs -> Good \cup {None}] /\ hp[cur] = d /\ hp[p] = d
    BY <1>0, <2>2
  <2>4. rf \in [Requests -> Ptrs \cup {None}] /\ rf[r] = p
        /\ \A q \in Requests : q # r => rf[q] = ref[q]
    BY <1>0, <2>2 DEF Holds
  <2>5. \A q \in Requests : rf[q] # None => hp[rf[q]] # None
    BY <1>0, <2>2, <2>4
  <2>6. ref' = rf /\ cur' = cur
    BY <2>1 DEF Write
  <2>7. \A q \in Requests : (q # r /\ ref[q] # None)
              => hp[rf[q]] = IF ref[q] = cur THEN d ELSE heap[ref[q]]
    BY <1>0, <2>2, <2>4
  <2>w. Write(hp, cur, rf)
    BY <2>1
  <2>c. \A x \in Ptrs : hp[x] \in {heap[x], d}
    BY <1>0, <2>2
  <2> HIDE DEF hp, rf
  <2>8. /\ NewHeap(r)
        /\ heap'[cur'] = hp[cur]
        /\ \A q \in Requests : rf[q] # None => heap'[rf[q]] = hp[rf[q]]
        /\ \A x \in Ptrs : heap'[x] \in {hp[x], None}
    BY <1>0, <2>w, <2>3, <2>4, <2>5, WriteHeap
  <2>9. Cells(d)
    BY <2>c, <2>8 DEF Cells
  <2> QED  BY <1>0, <2>2, <2>3, <2>4, <2>6, <2>7, <2>8, <2>9, NoneIsNothing
<1> QED  BY <1>1, <1>2

(* Consent and SetIdentifier write through the stored context.             *)
LEMMA InPlaceHeap ==
  ASSUME Shape, session # "none", NEW r, NEW d \in Good,
         NEW rf \in {ref, Holds(r, None)},
         Write([heap EXCEPT ![cur] = d], cur, rf)
  PROVE  /\ NewHeap(r)
         /\ heap'[cur'] = d
         /\ ref' = rf
         /\ cur' = cur
         /\ \A q \in Requests : rf[q] # None =>
              heap'[rf[q]] = IF ref[q] = cur THEN d ELSE heap[ref[q]]
         /\ Cells(d)
<1>0. /\ cur \in Ptrs /\ heap \in [Ptrs -> Good \cup {None}]
      /\ ref \in [Requests -> Ptrs \cup {None}]
      /\ \A q \in Requests : ref[q] # None => heap[ref[q]] # None
      /\ d # None
  BY StoredGood, NoneIsNothing DEF Shape, HeapOK
<1>1. /\ rf \in [Requests -> Ptrs \cup {None}]
      /\ \A q \in Requests : q # r => rf[q] = ref[q]
      /\ \A q \in Requests : rf[q] # None => rf[q] = ref[q]
  BY <1>0 DEF Holds
<1> DEFINE hp == [heap EXCEPT ![cur] = d]
<1>2. hp \in [Ptrs -> Good \cup {None}] /\ hp[cur] = d
  BY <1>0
<1>3. \A q \in Requests : rf[q] # None =>
        hp[rf[q]] = (IF ref[q] = cur THEN d ELSE heap[ref[q]]) /\ hp[rf[q]] # None
  BY <1>0, <1>1
<1>4. Write(hp, cur, rf) /\ cur' = cur /\ ref' = rf
  BY DEF Write
<1>c. \A x \in Ptrs : hp[x] \in {heap[x], d}
  BY <1>0
<1> HIDE DEF hp
<1>5. /\ NewHeap(r)
      /\ heap'[cur'] = hp[cur]
      /\ \A q \in Requests : rf[q] # None => heap'[rf[q]] = hp[rf[q]]
      /\ \A x \in Ptrs : heap'[x] \in {hp[x], None}
  BY <1>0, <1>1, <1>2, <1>3, <1>4, WriteHeap
<1>6. Cells(d)
  BY <1>c, <1>5 DEF Cells
<1> QED  BY <1>2, <1>3, <1>4, <1>5, <1>6

(* ExtendExpiry, SetAuthProvider and RotateRefreshToken: what the others   *)
(* hold does not change, except that it may be the document itself.        *)
LEMMA ReplaceHeap ==
  ASSUME Shape, session # "none", NEW r \in Requests, NEW d \in Good,
         NEW rf \in {ref, Holds(r, None)}, Replace(d, rf)
  PROVE  /\ NewHeap(r)
         /\ heap'[cur'] = d
         /\ ref' = rf
         /\ Backend # "memory" => cur' = cur
         /\ \A q \in Requests : rf[q] # None =>
              heap'[rf[q]] = IF ref[q] = cur /\ Backend # "memory"
                             THEN d ELSE heap[ref[q]]
         /\ Cells(d)
<1>0. /\ cur \in Ptrs /\ heap \in [Ptrs -> Good \cup {None}]
      /\ ref \in [Requests -> Ptrs \cup {None}]
      /\ \A q \in Requests : ref[q] # None => heap[ref[q]] # None
      /\ d # None
  BY StoredGood, NoneIsNothing DEF Shape, HeapOK
<1>1. /\ rf \in [Requests -> Ptrs \cup {None}]
      /\ \A q \in Requests : q # r => rf[q] = ref[q]
      /\ \A q \in Requests : rf[q] # None => rf[q] = ref[q]
  BY <1>0 DEF Holds
<1>2. CASE Backend = "memory"
  <2>1. PICK p \in Free : Write([heap EXCEPT ![p] = d], p, rf)
    BY <1>2 DEF Replace
  <2>2. p \in Ptrs /\ p # cur /\ \A q \in Requests : ref[q] # p
    BY DEF Free, InUse
  <2> DEFINE hp == [heap EXCEPT ![p] = d]
  <2>3. hp \in [Ptrs -> Good \cup {None}] /\ hp[p] = d
    BY <1>0, <2>2
  <2>4. \A q \in Requests : rf[q] # None => hp[rf[q]] = heap[ref[q]]
    BY <1>0, <1>1, <2>2
  <2>w. Write(hp, p, rf)
    BY <2>1
  <2>5. cur' = p /\ ref' = rf
    BY <2>1 DEF Write
  <2>c. \A x \in Ptrs : hp[x] \in {heap[x], d}
    BY <1>0
  <2> HIDE DEF hp
  <2>6. /\ NewHeap(r)
        /\ heap'[cur'] = hp[p]
        /\ \A q \in Requests : rf[q] # None => heap'[rf[q]] = hp[rf[q]]
        /\ \A x \in Ptrs : heap'[x] \in {hp[x], None}
    BY <1>0, <1>1, <2>2, <2>3, <2>4, <2>w, WriteHeap
  <2>7. Cells(d)
    BY <2>c, <2>6 DEF Cells
  <2> QED  BY <1>2, <2>3, <2>4, <2>5, <2>6, <2>7
<1>3. CASE Backend # "memory"
  <2>1. Write([heap EXCEPT ![cur] = d], cur, rf)
    BY <1>3 DEF Replace
  <2> QED  BY <1>3, <2>1, InPlaceHeap
<1> QED  BY <1>2, <1>3

(* Update: the caller's context becomes the stored one.                    *)
LEMMA PutHeap ==
  ASSUME Shape, session # "none", NEW r \in Requests, pc[r] \in HoldSteps,
         NEW d \in Good, Put(r, d)
  PROVE  /\ NewHeap(r)
         /\ ref'[r] = None
         /\ Backend # "memory" => cur' = cur
         /\ heap'[cur'] = IF Resolvable THEN d ELSE Stored
         /\ \A q \in Requests : (q # r /\ ref[q] # None) =>
              /\ heap'[ref'[q]] \in {d, heap[ref[q]]}
              /\ (Backend # "memory" /\ ref[q] # cur) =>
                    heap'[ref'[q]] = heap[ref[q]]
              /\ (Backend = "memory" /\ ref[q] # ref[r]) =>
                    heap'[ref'[q]] = heap[ref[q]]
         /\ Cells(d)
<1>0. /\ cur \in Ptrs /\ heap \in [Ptrs -> Good \cup {None}]
      /\ ref \in [Requests -> Ptrs \cup {None}]
      /\ \A q \in Requests : ref[q] # None => heap[ref[q]] # None
      /\ d # None
      /\ ref[r] \in Ptrs
  BY StoredGood, HeldGood, NoneIsNothing DEF Shape, HeapOK
<1>1. CASE ~Resolvable
  <2>1. Write(heap, cur, Holds(r, None))
    BY <1>1 DEF Put
  <2>2. ref' = Holds(r, None)
    BY <2>1 DEF Write
  <2>3. ref'[r] = None /\ \A q \in Requests : q # r => ref'[q] = ref[q]
    BY <1>0, <2>2 DEF Holds
  <2>4. Cells(d)
    BY <2>1, LetGo DEF Cells
  <2> QED  BY <1>1, <2>1, <2>3, <2>4, LetGo
<1>2. CASE Resolvable
  <2> DEFINE c == IF Backend = "memory" THEN ref[r] ELSE cur
             hp == [heap EXCEPT ![c] = d]
             rf == Holds(r, None)
  <2>1. Write(hp, c, rf)
    BY <1>2 DEF Put
  <2>2. c \in Ptrs /\ hp \in [Ptrs -> Good \cup {None}] /\ hp[c] = d
    BY <1>0
  <2>3. /\ rf \in [Requests -> Ptrs \cup {None}]
        /\ rf[r] = None
        /\ \A q \in Requests : q # r => rf[q] = ref[q]
    BY <1>0 DEF Holds
  <2>4. \A q \in Requests : rf[q] # None =>
          hp[rf[q]] = (IF ref[q] = c THEN d ELSE heap[ref[q]]) /\ hp[rf[q]] # None
    BY <1>0, <2>3
  <2>5. cur' = c /\ ref' = rf
    BY <2>1 DEF Write
  <2>c. c = IF Backend = "memory" THEN ref[r] ELSE cur
    OBVIOUS
  <2>e. \A x \in Ptrs : hp[x] \in {heap[x], d}
    BY <1>0, <2>2
  <2> HIDE DEF hp, rf, c
  <2>6. /\ NewHeap(r)
        /\ heap'[cur'] = hp[c]
        /\ \A q \in Requests : rf[q] # None => heap'[rf[q]] = hp[rf[q]]
        /\ \A x \in Ptrs : heap'[x] \in {hp[x], None}
    BY <1>0, <2>1, <2>2, <2>3, <2>4, WriteHeap
  <2>7. \A q \in Requests : (q # r /\ ref[q] # None) =>
              heap'[ref'[q]] = IF ref[q] = c THEN d ELSE heap[ref[q]]
    BY <2>3, <2>4, <2>5, <2>6
  <2>8. Cells(d)
    BY <2>e, <2>6 DEF Cells
  <2> QED  BY <1>2, <2>c, <2>2, <2>3, <2>5, <2>6, <2>7, <2>8
<1> QED  BY <1>1, <1>2

(* Update keeps the index inside the tokens.                               *)
LEMMA PutIndex ==
  ASSUME Shape, NEW r \in Requests, NEW d \in Good, Put(r, d)
  PROVE  index' \subseteq Tokens /\ keep' \in {keep, Renewed}
<1>1. d.token \in Tokens \cup {None}
  BY DEF Good, Doc
<1> QED  BY <1>1 DEF Put, Reindexed, Shape, PlainOK

(* A step of a request that gives out no token.                            *)
LEMMA OrdinaryStep ==
  ASSUME Shape, session # "none", NEW r \in Requests, NewHeap(r),
         NEW s \in Steps, Goto(r, s), s \in HoldSteps => ref'[r] # None,
         s = "refreshing" => arg'[r] \in Tokens,
         arg' \in [Requests -> Tokens \cup {None}],
         \A q \in Requests : q # r => arg'[q] = arg[q],
         keep' \in {keep, Renewed}, index' \subseteq Tokens,
         UNCHANGED <<now, session>>, WalletOK',
         selected' \in BOOLEAN, docs' \in BOOLEAN, revealed' \in BOOLEAN
  PROVE  Shape'
<1>1. pc \in [Requests -> Steps]
  BY DEF Shape, PlainOK
<1>2. /\ pc' \in [Requests -> Steps] /\ pc'[r] = s
      /\ \A q \in Requests : q # r => pc'[q] = pc[q]
  BY <1>1 DEF Goto
<1>3. HeapOK'
  <2>1. \A q \in Requests : pc'[q] \in HoldSteps => ref'[q] # None
    BY <1>2 DEF NewHeap, Shape, HeapOK
  <2>2. cur' # None
    BY NoneIsNothing DEF NewHeap
  <2> QED  BY <2>1, <2>2 DEF NewHeap, HeapOK
<1>4. keep' \in Nat /\ keep' >= AuthContextTTL
  BY RenewedCovers DEF Shape, PlainOK, LeaseOK
<1>5. LeaseOK'
  BY <1>4 DEF LeaseOK, Shape
<1>6. \A q \in Requests : pc'[q] = "refreshing" => arg'[q] \in Tokens
  BY <1>2 DEF Shape, PlainOK
<1>7. PlainOK'
  BY <1>2, <1>4, <1>6 DEF PlainOK, Shape
<1> QED  BY <1>3, <1>5, <1>7 DEF Shape

(* The same when the handler does not touch arg or the wallet.             *)
LEMMA QuietStep ==
  ASSUME Shape, session # "none", NEW r \in Requests, NewHeap(r),
         NEW s \in Steps, Goto(r, s), s \in HoldSteps => ref'[r] # None,
         s # "refreshing", keep' \in {keep, Renewed}, index' \subseteq Tokens,
         UNCHANGED <<now, session, arg, Wallet>>,
         selected' \in BOOLEAN, docs' \in BOOLEAN, revealed' \in BOOLEAN
  PROVE  Shape'
<1>1. WalletOK'
  BY DEF Wallet, WalletOK, Shape
<1>2. arg' \in [Requests -> Tokens \cup {None}]
  BY DEF Shape, PlainOK
<1> QED  BY <1>1, <1>2, OrdinaryStep

(* A request under way means the session exists.                           *)
LEMMA BusyIsStored ==
  ASSUME Shape, NEW r \in Requests, pc[r] # "idle" PROVE session # "none"
  BY DEF Shape, HeapOK

(* The types the arithmetic of the later lemmas needs.                     *)
LEMMA PlainFacts ==
  ASSUME Shape
  PROVE  /\ selected \in BOOLEAN /\ docs \in BOOLEAN /\ revealed \in BOOLEAN
         /\ index \subseteq Tokens /\ now \in Nat /\ keep \in Nat
         /\ arg \in [Requests -> Tokens \cup {None}]
         /\ pc \in [Requests -> Steps]
  BY DEF Shape, PlainOK

(* A Get preserves the shape.                                              *)
LEMMA FetchShape ==
  ASSUME Shape, NEW r \in Requests, NEW s \in HoldSteps \ {"refreshing"},
         Fetch(r, s), UNCHANGED <<now, session, index, arg, selected, docs, revealed, Wallet>>
  PROVE  Shape'
<1>1. session # "none" /\ Hand(r, Stored) /\ Goto(r, s) /\ keep' = Renewed
  BY DEF Fetch, Resolvable
<1>2. NewHeap(r) /\ ref'[r] # None
  BY <1>1, StoredGood, HandHeap
<1>3. s \in Steps
  BY StepsAre DEF HoldSteps
<1> QED  BY <1>1, <1>2, <1>3, PlainFacts, QuietStep

(* The Update of a browser request preserves the shape.                    *)
LEMMA WriteBackShape ==
  ASSUME Shape, NEW r \in Requests, pc[r] \in HoldSteps, NEW d \in Good, WriteBack(r, d),
         NEW s \in {"idle", "publishing"}, Goto(r, s),
         UNCHANGED <<now, session, arg, selected, docs, revealed>>
  PROVE  Shape'
<1>1. session # "none" /\ Put(r, d)
  BY BusyIsStored DEF HoldSteps, WriteBack
<1>2. NewHeap(r)
  BY <1>1, PutHeap
<1>3. s \in Steps /\ s \notin HoldSteps
  BY StepsAre DEF HoldSteps
<1>4. s # "refreshing"
  OBVIOUS
<1>5. WalletOK'
  BY DEF WriteBack, WalletOK, Shape
<1>6. arg' \in [Requests -> Tokens \cup {None}]
  BY PlainFacts
<1> QED  BY <1>1, <1>2, <1>3, <1>4, <1>5, <1>6, PutIndex, PlainFacts, OrdinaryStep

(* A request that ends with an error preserves the shape.                  *)
LEMMA LeaveShape ==
  ASSUME Shape, NEW r \in Requests, pc[r] # "idle", Leave(r) PROVE Shape'
<1>1. session # "none"
  BY BusyIsStored
<1>2. NewHeap(r)
  BY <1>1, LetGo DEF Leave
<1>3. "idle" \in Steps /\ "idle" \notin HoldSteps
  BY StepsAre DEF HoldSteps
<1>4. WalletOK'
  BY DEF Leave, Wallet, WalletOK, Shape
<1>5. /\ arg' \in [Requests -> Tokens \cup {None}]
      /\ \A q \in Requests : q # r => arg'[q] = arg[q]
  BY PlainFacts DEF Leave
<1>6. /\ Goto(r, "idle") /\ keep' = keep /\ index' \subseteq Tokens
      /\ UNCHANGED <<now, session>>
      /\ selected' \in BOOLEAN /\ docs' \in BOOLEAN /\ revealed' \in BOOLEAN
  BY PlainFacts DEF Leave
<1> QED  BY <1>1, <1>2, <1>3, <1>4, <1>5, <1>6, OrdinaryStep

(* codeDeadlineWithin lies inside the retention.                           *)
LEMMA DeadlineInside ==
  ASSUME Shape PROVE codeDeadlineWithin \in Nat /\ codeDeadlineWithin <= AuthContextTTL
  BY PlainFacts, IssuerAssumption DEF codeDeadlineWithin, Smaller, created

(* Every step of a browser request preserves the shape.                    *)
LEMMA BrowserShape ==
  ASSUME Shape, NEW r \in Requests, Browser(r) PROVE Shape'
<1>1. CASE OAuthAuthorize(r) \/ Callback(r) \/ VerificationDirectPost(r)
  BY <1>1, FetchShape DEF OAuthAuthorize, Callback, VerificationDirectPost, HoldSteps
<1>2. CASE ExtendExpiry(r)
  <2>1. /\ session # "none" /\ Goto(r, "selecting") /\ keep' = Renewed
        /\ UNCHANGED <<now, session, index, arg, selected, docs, revealed, Wallet>>
    BY <1>2 DEF ExtendExpiry, Resolvable
  <2>2. SetExp(Stored, codeDeadlineWithin) \in Good
    BY <2>1, StoredGood, DeadlineInside, GoodWrites
  <2>3. NewHeap(r)
    BY <1>2, <2>1, <2>2, ReplaceHeap, LetGo DEF ExtendExpiry
  <2>4. "selecting" \in Steps /\ "selecting" \notin HoldSteps
    BY StepsAre DEF HoldSteps
  <2> QED  BY <2>1, <2>3, <2>4, PlainFacts, QuietStep
<1>3. CASE SetAuthProvider(r)
  <2>1. /\ session # "none" /\ Goto(r, "idle") /\ keep' = Renewed /\ selected'
        /\ selected' \in BOOLEAN
        /\ UNCHANGED <<now, session, index, arg, docs, revealed, Wallet>>
    BY <1>3 DEF SetAuthProvider, Resolvable
  <2>2. NewHeap(r)
    BY <1>3, <2>1, StoredGood, ReplaceHeap DEF SetAuthProvider
  <2>3. "idle" \in Steps /\ "idle" \notin HoldSteps
    BY StepsAre DEF HoldSteps
  <2> QED  BY <2>1, <2>2, <2>3, PlainFacts, QuietStep
<1>4. CASE StoreVCIDocuments(r) \/ PublishDocuments(r)
  <2>1. PICK s \in {"resolving", "idle"} : Goto(r, s)
    BY <1>4 DEF StoreVCIDocuments, PublishDocuments
  <2>2. s \in HoldSteps => pc[r] \in HoldSteps
    BY <1>4, <2>1, PlainFacts DEF StoreVCIDocuments, PublishDocuments, Goto, HoldSteps
  <2>3. s \in Steps /\ s # "refreshing"
    BY StepsAre
  <2>4. session # "none"
    BY <1>4, BusyIsStored DEF StoreVCIDocuments, PublishDocuments
  <2>5. UNCHANGED <<now, session, heap, cur, keep, index, ref, arg, selected,
                    revealed, Wallet>> /\ docs' \in BOOLEAN
    BY <1>4, PlainFacts DEF StoreVCIDocuments, PublishDocuments
  <2>6. NewHeap(r)
    BY <2>4, <2>5, StoredGood DEF NewHeap, Shape, HeapOK, Stored
  <2>7. s \in HoldSteps => ref'[r] # None
    BY <2>2, <2>5 DEF Shape, HeapOK
  <2> QED  BY <2>1, <2>3, <2>4, <2>5, <2>6, <2>7, PlainFacts, QuietStep
<1>5. CASE StoreIdentifier(r)
  <2>1. pc[r] \in HoldSteps
    BY <1>5 DEF StoreIdentifier, HoldSteps
  <2>2. SetIdentified(Held(r)) \in Good
    BY <2>1, HeldGood DEF Good, Doc, SetIdentified
  <2> QED  BY <1>5, <2>1, <2>2, WriteBackShape DEF StoreIdentifier
<1>6. CASE VerificationRequestObject(r)
  <2>1. CASE /\ Fetch(r, "describing")
             /\ UNCHANGED <<now, session, index, arg, selected, docs, revealed, Wallet>>
    BY <2>1, FetchShape DEF HoldSteps
  <2>2. CASE /\ pc[r] = "describing" /\ WriteBack(r, Held(r)) /\ Goto(r, "idle")
             /\ UNCHANGED <<now, session, arg, selected, docs, revealed>>
    <3>1. pc[r] \in HoldSteps
      BY <2>2 DEF HoldSteps
    <3> QED  BY <2>2, <3>1, HeldGood, WriteBackShape
  <2> QED  BY <1>6, <2>1, <2>2 DEF VerificationRequestObject
<1>7. CASE PersistPresentation(r)
  <2>1. /\ pc[r] \in HoldSteps /\ session # "none" /\ Goto(r, "publishing")
        /\ UNCHANGED <<now, session, arg, selected, docs, revealed>>
    BY <1>7, BusyIsStored DEF PersistPresentation, HoldSteps
  <2>2. CASE WriteBack(r, SetIdentified(Held(r)))
    <3>1. SetIdentified(Held(r)) \in Good
      BY <2>1, HeldGood DEF Good, Doc, SetIdentified
    <3> QED  BY <2>1, <2>2, <3>1, WriteBackShape
  <2>3. CASE /\ Write([heap EXCEPT ![cur] = SetIdentified(Stored)], cur, Holds(r, None))
             /\ keep' = Renewed
             /\ UNCHANGED <<index, Wallet>>
    <3>1. SetIdentified(Stored) \in Good
      BY <2>1, StoredGood DEF Good, Doc, SetIdentified
    <3>5. NewHeap(r)
      BY <2>1, <2>3, <3>1, InPlaceHeap
    <3>6. "publishing" \in Steps /\ "publishing" \notin HoldSteps
      BY StepsAre DEF HoldSteps
    <3> QED  BY <2>1, <2>3, <3>5, <3>6, PlainFacts, QuietStep
  <2> QED  BY <1>7, <2>1, <2>2, <2>3 DEF PersistPresentation
<1> QED  BY <1>1, <1>2, <1>3, <1>4, <1>5, <1>6, <1>7 DEF Browser

(* Every step of a token or refresh request preserves the shape.           *)
LEMMA RedeemShape ==
  ASSUME Shape, NEW r \in Requests, Redeem(r) PROVE Shape'
<1>s. /\ "idle" \in Steps /\ "idle" \notin HoldSteps
      /\ "redeeming" \in Steps /\ "refreshing" \in Steps
  BY StepsAre DEF HoldSteps
<1>1. CASE ForfeitAuthorizationCode(r)
  <2>1. /\ session # "none" /\ Goto(r, "redeeming") /\ keep' = Renewed
        /\ Hand(r, SetForfeited(Stored))
        /\ UNCHANGED <<now, session, index, arg, selected, docs, revealed, Wallet>>
    BY <1>1 DEF ForfeitAuthorizationCode, Resolvable
  <2>2. SetForfeited(Stored) \in Good
    BY <2>1, StoredGood DEF Good, Doc, SetForfeited
  <2>3. NewHeap(r) /\ ref'[r] # None
    BY <2>1, <2>2, HandHeap
  <2> QED  BY <1>s, <2>1, <2>3, PlainFacts, QuietStep
<1>2. CASE OAuthToken(r)
  <2>1. /\ pc[r] \in HoldSteps /\ session # "none" /\ Goto(r, "idle")
        /\ UNCHANGED <<now, session, arg, selected, docs, revealed, spent, respent, undone>>
    BY <1>2, BusyIsStored DEF OAuthToken, HoldSteps
  <2>2. PICK t \in Tokens \ minted :
          /\ Put(r, SetToken(Held(r), t))
          /\ IF Resolvable
             THEN /\ minted' = minted \cup {t}
                  /\ answers' = answers \cup {t}
                  /\ latest' = t
             ELSE UNCHANGED <<minted, answers, latest>>
    BY <1>2 DEF OAuthToken, PersistToken
  <2>3. SetToken(Held(r), t) \in Good
    BY <2>1, HeldGood DEF Good, Doc, SetToken
  <2>4. NewHeap(r)
    BY <2>1, <2>2, <2>3, PutHeap
  <2>5. index' \subseteq Tokens /\ keep' \in {keep, Renewed}
    BY <2>2, <2>3, PutIndex
  <2>6. WalletOK'
    BY <2>1, <2>2 DEF WalletOK, Shape
  <2> QED  BY <1>s, <2>1, <2>4, <2>5, <2>6, PlainFacts, OrdinaryStep
<1>3. CASE \E t \in Tokens : GetByRefreshToken(r, t)
  <2>1. PICK t \in Tokens : GetByRefreshToken(r, t)
    BY <1>3
  <2>2. /\ session # "none" /\ Goto(r, "refreshing") /\ keep' = Renewed
        /\ Hand(r, Stored) /\ arg' = [arg EXCEPT ![r] = t]
        /\ UNCHANGED <<now, session, index, selected, docs, revealed, Wallet>>
    BY <2>1 DEF GetByRefreshToken, Fetch, Resolvable
  <2>3. NewHeap(r) /\ ref'[r] # None
    BY <2>2, StoredGood, HandHeap
  <2>4. /\ arg' \in [Requests -> Tokens \cup {None}] /\ arg'[r] \in Tokens
        /\ \A q \in Requests : q # r => arg'[q] = arg[q]
    BY <2>2, PlainFacts
  <2>5. WalletOK'
    BY <2>2 DEF Wallet, WalletOK, Shape
  <2> QED  BY <1>s, <2>2, <2>3, <2>4, <2>5, PlainFacts, OrdinaryStep
<1>4. CASE RotateRefreshToken(r)
  <2>1. pc[r] = "refreshing" /\ pc[r] \in HoldSteps
    BY <1>4 DEF RotateRefreshToken, HoldSteps
  <2>2. CASE Leave(r)
    BY <2>1, <2>2, LeaveShape
  <2>3. CASE \E t \in Tokens \ minted : Rotated(r, t)
    <3>1. PICK t \in Tokens \ minted : Rotated(r, t)
      BY <2>3
    <3>2. session # "none"
      BY <2>1, BusyIsStored
    <3>3. SetToken(Held(r), t) \in Good
      BY <2>1, HeldGood DEF Good, Doc, SetToken
    <3>4. NewHeap(r)
      BY <3>1, <3>2, <3>3, ReplaceHeap DEF Rotated
    <3>5. /\ arg' \in [Requests -> Tokens \cup {None}]
          /\ \A q \in Requests : q # r => arg'[q] = arg[q]
      BY <3>1, PlainFacts DEF Rotated
    <3>6. WalletOK'
      <4>1. arg[r] \in Tokens
        BY <2>1 DEF Shape, PlainOK
      <4> QED  BY <3>1, <4>1 DEF Rotated, WalletOK, Shape
    <3>7. /\ Goto(r, "idle") /\ keep' = Renewed /\ index' \subseteq Tokens
          /\ UNCHANGED <<now, session, selected, docs, revealed>>
      BY <3>1, PlainFacts DEF Rotated, Reindexed
    <3> QED  BY <1>s, <3>2, <3>4, <3>5, <3>6, <3>7, PlainFacts, OrdinaryStep
  <2> QED  BY <1>4, <2>2, <2>3 DEF RotateRefreshToken
<1> QED  BY <1>1, <1>2, <1>3, <1>4 DEF Redeem

(* Before the pushed request there is nothing.                             *)
LEMMA InitShape == Init => Shape
<1> SUFFICES ASSUME Init PROVE Shape
  OBVIOUS
<1>1. HeapOK
  BY DEF Init, HeapOK, HoldSteps
<1>2. PlainOK
  <2>1. pc \in [Requests -> Steps] /\ \A r \in Requests : pc[r] # "refreshing"
    BY StepsAre DEF Init
  <2>2. arg \in [Requests -> Tokens \cup {None}]
    BY DEF Init
  <2>3. now \in Nat /\ now <= MaxTime /\ keep \in Nat
    BY IssuerAssumption DEF Init
  <2> QED  BY <2>1, <2>2, <2>3 DEF Init, PlainOK
<1>3. LeaseOK /\ WalletOK
  BY DEF Init, LeaseOK, WalletOK
<1> QED  BY <1>1, <1>2, <1>3 DEF Shape

(* Every step preserves the shape, under any overlap.                      *)
LEMMA StepShape == Shape /\ [Next]_vars => Shape'
<1> SUFFICES ASSUME Shape, [Next]_vars PROVE Shape'
  OBVIOUS
<1>1. CASE \E r \in Requests : Browser(r) \/ Redeem(r) \/ Fail(r)
  BY <1>1, BrowserShape, RedeemShape, LeaveShape DEF Fail
<1>2. CASE OAuthPar
  <2> DEFINE d == [exp |-> now + RequestURITTL, forfeited |-> FALSE,
                   consent |-> FALSE, identified |-> FALSE, token |-> None]
  <2>1. PICK p \in Ptrs : Write([heap EXCEPT ![p] = d], p, ref)
    BY <1>2 DEF OAuthPar
  <2>2. /\ session = "none" /\ session' = "stored" /\ keep' = created + AuthContextTTL
        /\ UNCHANGED <<now, index, pc, arg, selected, docs, revealed, Wallet>>
    BY <1>2 DEF OAuthPar
  <2>3. now = 0
    BY <2>2 DEF Shape, LeaseOK
  <2>4. d \in Good
    BY <2>3, IssuerAssumption DEF Good, Doc
  <2> HIDE DEF d
  <2> DEFINE hp == [heap EXCEPT ![p] = d]
  <2>5. hp \in [Ptrs -> Good \cup {None}] /\ hp[p] = d /\ d # None
    BY <2>4, NoneIsNothing DEF Shape, HeapOK
  <2>6. /\ ref \in [Requests -> Ptrs \cup {None}]
        /\ \A q \in Requests : ref[q] = None /\ pc[q] = "idle"
    BY <2>2 DEF Shape, HeapOK
  <2>7. Write(hp, p, ref) /\ ref' = ref
    BY <2>1 DEF Write
  <2> HIDE DEF hp
  <2>8. NewHeap(None)
    BY <2>5, <2>6, <2>7, WriteHeap
  <2>9. HeapOK'
    <3>1. cur' # None /\ session' # "none"
      BY <2>2, <2>8, NoneIsNothing DEF NewHeap
    <3>2. \A q \in Requests : pc'[q] \notin HoldSteps
      BY <2>2, <2>6 DEF HoldSteps
    <3> QED  BY <2>8, <3>1, <3>2 DEF NewHeap, HeapOK
  <2>10. keep' \in Nat /\ keep' >= AuthContextTTL
    BY <2>2, IssuerAssumption DEF created
  <2>11. LeaseOK' /\ PlainOK'
    BY <2>2, <2>10 DEF LeaseOK, PlainOK, Shape
  <2>12. WalletOK'
    BY <2>2 DEF Wallet, WalletOK, Shape
  <2> QED  BY <2>9, <2>11, <2>12 DEF Shape
<1>3. CASE UserLookup
  <2>1. /\ session # "none" /\ keep' = Renewed /\ revealed' \in BOOLEAN
        /\ Write([heap EXCEPT ![cur] = SetConsent(Stored)], cur, ref)
        /\ UNCHANGED <<now, session, index, pc, arg, selected, docs, Wallet>>
    BY <1>3 DEF UserLookup, Resolvable
  <2>2. SetConsent(Stored) \in Good
    BY <2>1, StoredGood DEF Good, Doc, SetConsent
  <2>3. NewHeap(None) /\ ref' = ref
    BY <2>1, <2>2, InPlaceHeap
  <2>4. HeapOK'
    <3>1. cur' # None
      BY <2>3, NoneIsNothing DEF NewHeap
    <3> QED  BY <2>1, <2>3, <3>1 DEF NewHeap, HeapOK, Shape
  <2>5. LeaseOK' /\ PlainOK'
    BY <2>1, RenewedCovers DEF LeaseOK, PlainOK, Shape
  <2>6. WalletOK'
    BY <2>1 DEF Wallet, WalletOK, Shape
  <2> QED  BY <2>4, <2>5, <2>6 DEF Shape
<1>4. CASE Evict
  BY <1>4, IssuerAssumption
  DEF Evict, Wallet, Shape, HeapOK, LeaseOK, PlainOK, WalletOK
<1>5. CASE Tick
  <2>1. now' \in Nat /\ now' <= MaxTime /\ now' >= now
    BY <1>5, PlainFacts, IssuerAssumption DEF Tick
  <2>2. LeaseOK' /\ PlainOK'
    BY <1>5, <2>1, PlainFacts, IssuerAssumption DEF Tick, Shape, LeaseOK, PlainOK
  <2>3. HeapOK' /\ WalletOK'
    BY <1>5 DEF Tick, Wallet, Shape, HeapOK, WalletOK
  <2> QED  BY <2>2, <2>3 DEF Shape
<1>6. CASE FetchAndStoreForVCI
  <2>1. keep' \in Nat /\ (session # "none" => keep' >= AuthContextTTL)
    BY <1>6, RenewedCovers DEF FetchAndStoreForVCI, Resolvable
  <2>2. UNCHANGED <<now, session, heap, cur, index, pc, ref, arg, selected,
                    revealed, Wallet>> /\ docs' \in BOOLEAN
    BY <1>6 DEF FetchAndStoreForVCI
  <2>3. LeaseOK' /\ PlainOK'
    BY <2>1, <2>2 DEF Shape, LeaseOK, PlainOK
  <2>4. HeapOK' /\ WalletOK'
    BY <2>2 DEF Wallet, Shape, HeapOK, WalletOK
  <2> QED  BY <2>3, <2>4 DEF Shape
<1>7. CASE UNCHANGED vars
  BY <1>7 DEF vars, Shape, HeapOK, LeaseOK, PlainOK, WalletOK
<1> QED
  BY <1>1, <1>2, <1>3, <1>4, <1>5, <1>6, <1>7 DEF Next

(* TypeOK is an invariant for both stores and every overlap of requests:   *)
(* in particular no handler reads a context that the store has dropped.    *)
THEOREM IssuerTypeCorrect == Spec => []TypeOK
  BY InitShape, StepShape, ShapeGivesTypeOK, PTL DEF Spec

(* However requests overlap, the deadline of a code never lies beyond the  *)
(* retention of its context: codeDeadlineWithin caps it, and a write-back  *)
(* of an older context only restores a deadline that was capped as well.   *)
THEOREM CodesOutlived == Spec => []ContextOutlivesCode
<1>1. Shape => ContextOutlivesCode
  <2> SUFFICES ASSUME Shape, session = "evicted" PROVE now >= Stored.exp
    BY DEF ContextOutlivesCode
  <2>1. Stored.exp \in Nat /\ Stored.exp <= AuthContextTTL
    BY StoredGood DEF Good, Doc
  <2> QED  BY <2>1, PlainFacts, IssuerAssumption DEF Shape, LeaseOK
<1> QED  BY <1>1, InitShape, StepShape, PTL DEF Spec

-----------------------------------------------------------------------------
(* The wallet's half.  Before the first token nothing in the heap or the   *)
(* index names one.  As long as no browser request has undone anything:    *)
(* after the first token the stored context carries the mark and the       *)
(* latest token, and the token and refresh requests under way hold         *)
(* contexts that carry the mark and the consent as well, whatever older    *)
(* contexts the browser's requests hold.                                   *)
WalletSteps == {"redeeming", "refreshing"}

Phases ==
  /\ session = "none" => ~revealed
  /\ ~revealed => minted = {} /\ \A r \in Requests : pc[r] \notin WalletSteps

Blank ==
  minted = {} => /\ \A p \in Ptrs : heap[p] # None => heap[p].token = None
                 /\ index = {}
                 /\ spent = {}
                 /\ \A r \in Requests : pc[r] # "refreshing"

Settled ==
  minted # {} => /\ session # "none"
                 /\ \A r \in Requests : pc[r] # "redeeming"
                 /\ Stored.forfeited
                 /\ latest # None
                 /\ Stored.token = latest
                 /\ \A s, t \in answers : s = t
                 /\ spent \subseteq minted \ {latest}
                 /\ Backend = "memory" => index = {latest}

Marks ==
  /\ revealed => Stored.consent
  /\ \A r \in Requests : pc[r] = "redeeming" => Stored.forfeited
  /\ \A r, q \in Requests : pc[r] = "redeeming" /\ pc[q] = "redeeming" => r = q
  /\ \A r \in Requests : pc[r] \in WalletSteps => Held(r).forfeited /\ Held(r).consent
  /\ \A r \in Requests : pc[r] = "refreshing" => Held(r).token = arg[r]
  /\ respent = {}

Private == Backend # "memory" => \A r \in Requests : ref[r] # None => ref[r] # cur

Ordered == Phases /\ Blank /\ Private /\ (~undone => Settled /\ Marks)

(* What a context must keep, and what StoredFactsStick says of one step.   *)
Keeps(d, e) ==
  /\ e.token = d.token
  /\ d.forfeited => e.forfeited
  /\ d.consent => e.consent

Kept == ~undone' => /\ Stored.forfeited => Stored'.forfeited
                    /\ Stored.consent => Stored'.consent

(* Nothing is revealed, minted or spent at the start.                      *)
LEMMA InitOrdered == Init => Ordered
  BY DEF Init, Ordered, Phases, Blank, Settled, Marks, Private, WalletSteps

(* A step that leaves the private copies of the others apart from cur.     *)
LEMMA PrivateStep ==
  ASSUME Private, NEW r, NewHeap(r),
         Backend # "memory" => /\ cur' = cur
                               /\ r \in Requests => ref'[r] # cur \/ ref'[r] = None
  PROVE  Private'
  BY DEF Private, NewHeap

(* Before the first token no context names one.                            *)
LEMMA BlankDocs ==
  ASSUME Shape, Ordered, minted = {}, session # "none"
  PROVE  /\ Stored.token = None
         /\ index = {}
         /\ \A r \in Requests : pc[r] \in HoldSteps => Held(r).token = None
<1>1. \A p \in Ptrs : heap[p] # None => heap[p].token = None
  BY DEF Ordered, Blank
<1>2. \A r \in Requests : pc[r] \in HoldSteps => ref[r] \in Ptrs /\ Held(r) # None
  BY HeldGood, NoneIsNothing
<1> QED  BY <1>1, <1>2, StoredGood DEF Ordered, Blank, Stored, Held

(* A step that is none of the wallet's: it may replace or write through    *)
(* the stored context as long as that keeps what matters of it, and of the *)
(* contexts that token and refresh requests hold.                          *)
LEMMA BystanderStep ==
  ASSUME Shape, Ordered, session # "none", Private', Phases',
         UNCHANGED <<session, minted, answers, spent, respent, latest>>,
         revealed' => Stored'.consent \/ (revealed /\ Keeps(Stored, Stored')) \/ undone',
         \A q \in Requests : pc'[q] \in WalletSteps =>
           /\ pc'[q] = pc[q] /\ arg'[q] = arg[q]
           /\ Keeps(heap[ref[q]], heap'[ref'[q]]),
         NEW d, minted = {} => d = None \/ d.token = None, Cells(d),
         minted = {} => index' = {},
         ~undone' => ~undone /\ index' = index /\ Keeps(Stored, Stored')
  PROVE  Ordered' /\ Kept
<1>1. Blank'
  <2>1. SUFFICES ASSUME minted' = {} PROVE
               /\ \A p \in Ptrs : heap'[p] # None => heap'[p].token = None
               /\ index' = {} /\ spent' = {} /\ \A r \in Requests : pc'[r] # "refreshing"
    BY DEF Blank
  <2>2. minted = {}
    BY <2>1
  <2>3. \A p \in Ptrs : heap'[p] # None => heap'[p].token = None
    BY <2>2 DEF Cells, Ordered, Blank
  <2> QED  BY <2>2, <2>3 DEF Ordered, Blank, WalletSteps
<1>2. ASSUME ~undone' PROVE Settled' /\ Marks'
  <2>1. ~undone /\ Settled /\ Marks /\ index' = index /\ Keeps(Stored, Stored')
    BY <1>2 DEF Ordered
  <2>2. Settled'
    BY <2>1 DEF Settled, Keeps, WalletSteps
  <2>3. \A q \in Requests : pc'[q] \in WalletSteps =>
          /\ Held(q)'.forfeited /\ Held(q)'.consent /\ Held(q)'.token = Held(q).token
    BY <2>1 DEF Marks, Keeps, Held
  <2>4. revealed' => Stored'.consent
    BY <1>2, <2>1 DEF Marks, Keeps
  <2> QED  BY <2>1, <2>2, <2>3, <2>4 DEF Marks, Keeps, WalletSteps
<1> QED  BY <1>1, <1>2 DEF Ordered, Kept, Keeps

(* The same for a step of a request that is not one of the wallet's.       *)
LEMMA BrowserStep ==
  ASSUME Shape, Ordered, session # "none", NEW r \in Requests, Private',
         UNCHANGED <<session, arg, revealed, minted, answers, spent, respent, latest>>,
         NEW s, s \notin WalletSteps, Goto(r, s),
         \A q \in Requests : q # r /\ pc[q] \in WalletSteps =>
           Keeps(heap[ref[q]], heap'[ref'[q]]),
         NEW d, minted = {} => d = None \/ d.token = None, Cells(d),
         minted = {} => index' = {},
         ~undone' => ~undone /\ index' = index /\ Keeps(Stored, Stored')
  PROVE  Ordered' /\ Kept
<1>1. \A q \in Requests : pc'[q] \in WalletSteps => q # r /\ pc'[q] = pc[q]
  BY PlainFacts DEF Goto
<1>2. Phases'
  BY <1>1, PlainFacts DEF Ordered, Phases
<1>3. revealed' => Stored'.consent \/ (revealed /\ Keeps(Stored, Stored')) \/ undone'
  OBVIOUS
<1>4. \A q \in Requests : pc'[q] \in WalletSteps =>
        /\ pc'[q] = pc[q] /\ arg'[q] = arg[q]
        /\ Keeps(heap[ref[q]], heap'[ref'[q]])
  BY <1>1
<1> QED  BY <1>2, <1>3, <1>4, BystanderStep

(* A browser Get.                                                          *)
LEMMA FetchOrdered ==
  ASSUME Shape, Ordered, NEW r \in Requests,
         NEW s, s \notin WalletSteps, Fetch(r, s),
         UNCHANGED <<now, session, index, arg, selected, docs, revealed, Wallet>>
  PROVE  Ordered' /\ Kept
<1>1. session # "none" /\ Hand(r, Stored) /\ Goto(r, s)
  BY DEF Fetch, Resolvable
<1>2. /\ NewHeap(r) /\ Cells(Stored) /\ cur' = cur /\ heap'[cur'] = Stored
      /\ Backend # "memory" => ref'[r] # cur'
      /\ \A q \in Requests : (q # r /\ ref[q] # None) =>
           heap'[ref'[q]] = IF ref[q] = cur THEN Stored ELSE heap[ref[q]]
  BY <1>1, StoredGood, HandHeap
<1>3. Private'
  BY <1>2, PrivateStep DEF Ordered
<1>4. \A q \in Requests : q # r /\ pc[q] \in WalletSteps =>
        Keeps(heap[ref[q]], heap'[ref'[q]])
  BY <1>2 DEF Stored, Keeps, WalletSteps, Shape, HeapOK, HoldSteps
<1>5. Keeps(Stored, Stored')
  BY <1>2 DEF Keeps, Stored
<1>6. minted = {} => index' = {} /\ Stored.token = None
  BY <1>1, BlankDocs
<1>7. UNCHANGED <<minted, answers, spent, respent, latest, undone>>
  BY DEF Wallet
<1> QED  BY <1>1, <1>2, <1>3, <1>4, <1>5, <1>6, <1>7, BrowserStep

(* A browser Update: it takes nothing back, or undone says so.             *)
LEMMA WriteBackOrdered ==
  ASSUME Shape, Ordered, NEW r \in Requests, pc[r] \in HoldSteps,
         NEW d \in {Held(r), SetIdentified(Held(r))}, WriteBack(r, d),
         NEW s, s \notin WalletSteps, Goto(r, s),
         UNCHANGED <<session, arg, revealed>>
  PROVE  Ordered' /\ Kept
<1>0. d \in Good
  <2>1. Held(r) \in Good
    BY HeldGood
  <2>2. SetIdentified(Held(r)) \in Good
    BY <2>1 DEF Good, Doc, SetIdentified
  <2> QED  BY <2>1, <2>2
<1>1. /\ session # "none" /\ Put(r, d) /\ d \in Good
      /\ UNCHANGED <<minted, answers, spent, respent, latest>>
  BY <1>0, BusyIsStored DEF HoldSteps, WriteBack
<1>2. /\ d.token = Held(r).token /\ d.forfeited = Held(r).forfeited
      /\ d.consent = Held(r).consent
  BY DEF SetIdentified
<1>3. /\ NewHeap(r) /\ Cells(d) /\ ref'[r] = None
      /\ Backend # "memory" => cur' = cur
      /\ heap'[cur'] = IF Resolvable THEN d ELSE Stored
      /\ \A q \in Requests : (q # r /\ ref[q] # None) =>
           /\ heap'[ref'[q]] \in {d, heap[ref[q]]}
           /\ (Backend # "memory" /\ ref[q] # cur) => heap'[ref'[q]] = heap[ref[q]]
           /\ (Backend = "memory" /\ ref[q] # ref[r]) => heap'[ref'[q]] = heap[ref[q]]
  BY <1>1, PutHeap
<1>4. Private'
  BY <1>3, PrivateStep DEF Ordered
<1>5. \A q \in Requests : q # r /\ pc[q] \in WalletSteps =>
        Keeps(heap[ref[q]], heap'[ref'[q]])
  <2>1. SUFFICES ASSUME NEW q \in Requests, q # r, pc[q] \in WalletSteps
                 PROVE  Keeps(heap[ref[q]], heap'[ref'[q]])
    OBVIOUS
  <2>2. ref[q] # None
    BY <2>1 DEF Shape, HeapOK, HoldSteps, WalletSteps
  <2>3. Backend # "memory" => ref[q] # cur
    BY <2>2 DEF Ordered, Private
  <2>4. \/ heap'[ref'[q]] = heap[ref[q]]
        \/ ref[q] = ref[r] /\ heap'[ref'[q]] = d
    BY <1>3, <2>1, <2>2, <2>3
  <2> QED  BY <1>2, <2>4 DEF Keeps, Held
<1>6. minted = {} => index' = {} /\ d.token = None
  <2>1. SUFFICES ASSUME minted = {} PROVE index' = {} /\ d.token = None
    OBVIOUS
  <2>2. d.token = None /\ Stored.token = None /\ index = {}
    BY <1>1, <1>2, <2>1, BlankDocs
  <2> QED  BY <1>1, <2>2 DEF Put, Reindexed
<1>7. ASSUME ~undone' PROVE ~undone /\ index' = index /\ Keeps(Stored, Stored')
  <2>1. ~undone /\ (Resolvable => ~Undoes(d))
    BY <1>7 DEF WriteBack
  <2>2. CASE ~Resolvable
    BY <1>1, <1>3, <2>1, <2>2 DEF Put, Keeps, Stored
  <2>3. CASE Resolvable
    <3>1. Keeps(Stored, d) /\ Stored' = d
      BY <1>3, <2>1, <2>3 DEF Undoes, Keeps, Stored
    <3>2. index' = Reindexed(d.token, d.token)
      BY <1>1, <2>3, <3>1 DEF Put, Keeps
    <3>3. CASE minted = {}
      BY <1>1, <1>6, <2>1, <3>1, <3>3, BlankDocs
    <3>4. CASE minted # {}
      <4>1. Settled
        BY <2>1 DEF Ordered
      <4>2. d.token = latest /\ latest # None /\ (Backend = "memory" => index = {latest})
        BY <3>1, <3>4, <4>1 DEF Settled, Keeps
      <4>3. index' = index
        BY <3>2, <4>2 DEF Reindexed
      <4> QED  BY <2>1, <3>1, <4>3
    <3> QED  BY <3>3, <3>4
  <2> QED  BY <2>2, <2>3
<1> QED  BY <1>1, <1>3, <1>4, <1>5, <1>6, <1>7, BrowserStep

(* The contexts of the wallet's requests when request r has let go of its  *)
(* own and the stored context became d, which keeps what it had.           *)
LEMMA OthersKeep ==
  ASSUME Shape, Ordered, session # "none", NEW r, NewHeap(r), NEW d, Keeps(Stored, d),
         NEW rf \in {ref, Holds(r, None)}, ref' = rf,
         \A q \in Requests : rf[q] # None =>
           heap'[rf[q]] \in {heap[ref[q]], IF ref[q] = cur THEN d ELSE heap[ref[q]]}
  PROVE  \A q \in Requests : q # r /\ pc[q] \in WalletSteps =>
           Keeps(heap[ref[q]], heap'[ref'[q]])
<1> SUFFICES ASSUME NEW q \in Requests, q # r, pc[q] \in WalletSteps
             PROVE  Keeps(heap[ref[q]], heap'[ref'[q]])
  OBVIOUS
<1>1. ref[q] # None /\ rf[q] = ref[q]
  BY DEF Shape, HeapOK, HoldSteps, WalletSteps, NewHeap
<1> QED  BY <1>1 DEF Keeps, Stored

(* Every step of a browser request.                                        *)
LEMMA BrowserOrdered ==
  ASSUME Shape, Ordered, NEW r \in Requests, Browser(r)
  PROVE  Ordered' /\ Kept
<1>1. CASE OAuthAuthorize(r) \/ Callback(r) \/ VerificationDirectPost(r)
  BY <1>1, FetchOrdered DEF OAuthAuthorize, Callback, VerificationDirectPost, WalletSteps
<1>2. CASE ExtendExpiry(r)
  <2>1. /\ session # "none" /\ Goto(r, "selecting") /\ "selecting" \notin WalletSteps
        /\ UNCHANGED <<session, index, arg, revealed, Wallet>>
    BY <1>2 DEF ExtendExpiry, Resolvable, WalletSteps
  <2>2. PICK d \in Good : /\ Keeps(Stored, d)
                          /\ \/ Replace(d, Holds(r, None))
                             \/ d = Stored /\ Write(heap, cur, Holds(r, None))
    <3>1. SetExp(Stored, codeDeadlineWithin) \in Good
      BY <2>1, StoredGood, DeadlineInside, GoodWrites
    <3>2. Keeps(Stored, SetExp(Stored, codeDeadlineWithin)) /\ Keeps(Stored, Stored)
      BY DEF SetExp, Keeps
    <3> QED  BY <1>2, <2>1, <3>1, <3>2, StoredGood DEF ExtendExpiry
  <2>3. ref' = Holds(r, None) /\ Holds(r, None)[r] = None
    BY <2>2 DEF Replace, Write, Holds, Shape, HeapOK
  <2>4. /\ NewHeap(r) /\ heap'[cur'] = d /\ Cells(d)
        /\ (Backend # "memory" => cur' = cur)
        /\ \A q \in Requests : Holds(r, None)[q] # None =>
             heap'[Holds(r, None)[q]] \in
               {heap[ref[q]], IF ref[q] = cur THEN d ELSE heap[ref[q]]}
    <3>1. CASE Replace(d, Holds(r, None))
      BY <2>1, <3>1, ReplaceHeap
    <3>2. CASE d = Stored /\ Write(heap, cur, Holds(r, None))
      BY <2>1, <2>3, <3>2, LetGo DEF Cells
    <3> QED  BY <2>2, <3>1, <3>2
  <2>5. Private'
    BY <2>3, <2>4, PrivateStep DEF Ordered
  <2>6. \A q \in Requests : q # r /\ pc[q] \in WalletSteps =>
          Keeps(heap[ref[q]], heap'[ref'[q]])
    BY <2>1, <2>2, <2>3, <2>4, OthersKeep
  <2>7. Keeps(Stored, Stored') /\ (minted = {} => d.token = None /\ index = {})
    BY <2>1, <2>2, <2>4, BlankDocs DEF Keeps, Stored
  <2>8. UNCHANGED <<minted, answers, spent, respent, latest, undone>>
    BY <2>1 DEF Wallet
  <2> QED  BY <2>1, <2>4, <2>5, <2>6, <2>7, <2>8, BrowserStep
<1>3. CASE SetAuthProvider(r)
  <2>1. /\ session # "none" /\ Goto(r, "idle") /\ Replace(Stored, ref)
        /\ "idle" \notin WalletSteps
        /\ UNCHANGED <<session, index, arg, revealed, Wallet>>
    BY <1>3 DEF SetAuthProvider, Resolvable, WalletSteps
  <2>2. /\ NewHeap(r) /\ Cells(Stored) /\ (Backend # "memory" => cur' = cur)
        /\ ref' = ref /\ heap'[cur'] = Stored
        /\ \A q \in Requests : ref[q] # None =>
             heap'[ref[q]] \in
               {heap[ref[q]], IF ref[q] = cur THEN Stored ELSE heap[ref[q]]}
    BY <2>1, StoredGood, ReplaceHeap
  <2>3. Private'
    BY <2>2 DEF Ordered, Private
  <2>4. Keeps(Stored, Stored) /\ Keeps(Stored, Stored')
    BY <2>2 DEF Keeps, Stored
  <2>5. \A q \in Requests : q # r /\ pc[q] \in WalletSteps =>
          Keeps(heap[ref[q]], heap'[ref'[q]])
    BY <2>1, <2>2, <2>4, OthersKeep
  <2>6. minted = {} => Stored.token = None /\ index = {}
    BY <2>1, BlankDocs
  <2>7. UNCHANGED <<minted, answers, spent, respent, latest, undone>>
    BY <2>1 DEF Wallet
  <2> QED  BY <2>1, <2>2, <2>3, <2>4, <2>5, <2>6, <2>7, BrowserStep
<1>4. CASE StoreVCIDocuments(r) \/ PublishDocuments(r)
  <2>1. PICK s \in {"resolving", "idle"} : Goto(r, s)
    BY <1>4 DEF StoreVCIDocuments, PublishDocuments
  <2>2. /\ UNCHANGED <<session, arg, heap, cur, ref, index, revealed, Wallet>>
        /\ pc[r] # "idle"
    BY <1>4 DEF StoreVCIDocuments, PublishDocuments
  <2>3. Cells(None) /\ Private'
    BY <2>2 DEF Cells, Ordered, Private
  <2>4. s \notin WalletSteps /\ session # "none"
    BY <2>2, BusyIsStored DEF WalletSteps
  <2>5. /\ \A q \in Requests : Keeps(heap[ref[q]], heap'[ref'[q]])
        /\ Keeps(Stored, Stored')
    BY <2>2 DEF Keeps, Stored
  <2>6. minted = {} => index' = {}
    BY <2>2 DEF Ordered, Blank
  <2>7. UNCHANGED <<minted, answers, spent, respent, latest, undone>>
    BY <2>2 DEF Wallet
  <2> QED  BY <2>1, <2>2, <2>3, <2>4, <2>5, <2>6, <2>7, BrowserStep
<1>5. CASE StoreIdentifier(r)
  BY <1>5, WriteBackOrdered DEF StoreIdentifier, HoldSteps, WalletSteps
<1>6. CASE VerificationRequestObject(r)
  <2>1. CASE /\ Fetch(r, "describing")
             /\ UNCHANGED <<now, session, index, arg, selected, docs, revealed, Wallet>>
    BY <2>1, FetchOrdered DEF WalletSteps
  <2>2. CASE /\ pc[r] = "describing" /\ WriteBack(r, Held(r)) /\ Goto(r, "idle")
             /\ UNCHANGED <<now, session, arg, selected, docs, revealed>>
    BY <2>2, WriteBackOrdered DEF HoldSteps, WalletSteps
  <2> QED  BY <1>6, <2>1, <2>2 DEF VerificationRequestObject
<1>7. CASE PersistPresentation(r)
  <2>1. /\ pc[r] \in HoldSteps /\ session # "none" /\ Goto(r, "publishing")
        /\ "publishing" \notin WalletSteps
        /\ UNCHANGED <<session, arg, revealed>>
    BY <1>7, BusyIsStored DEF PersistPresentation, HoldSteps, WalletSteps
  <2>2. CASE WriteBack(r, SetIdentified(Held(r)))
    BY <2>1, <2>2, WriteBackOrdered
  <2>3. CASE /\ Write([heap EXCEPT ![cur] = SetIdentified(Stored)], cur, Holds(r, None))
             /\ keep' = Renewed
             /\ UNCHANGED <<index, Wallet>>
    <3>1. PICK d \in Good : /\ Keeps(Stored, d)
                            /\ Write([heap EXCEPT ![cur] = d], cur, Holds(r, None))
      <4>1. SetIdentified(Stored) \in Good /\ Keeps(Stored, SetIdentified(Stored))
        BY <2>1, StoredGood DEF Good, Doc, SetIdentified, Keeps
      <4> QED  BY <2>3, <4>1
    <3>2. /\ NewHeap(r) /\ Cells(d) /\ cur' = cur /\ ref' = Holds(r, None)
          /\ heap'[cur'] = d
          /\ \A q \in Requests : Holds(r, None)[q] # None =>
               heap'[Holds(r, None)[q]] \in
                 {heap[ref[q]], IF ref[q] = cur THEN d ELSE heap[ref[q]]}
      BY <2>1, <3>1, InPlaceHeap
    <3>3. ref'[r] = None
      BY <3>2 DEF Holds, Shape, HeapOK
    <3>4. Private'
      BY <3>2, <3>3, PrivateStep DEF Ordered
    <3>5. \A q \in Requests : q # r /\ pc[q] \in WalletSteps =>
            Keeps(heap[ref[q]], heap'[ref'[q]])
      BY <2>1, <3>1, <3>2, OthersKeep
    <3>6. Keeps(Stored, Stored') /\ (minted = {} => d.token = None /\ index = {})
      BY <2>1, <3>1, <3>2, BlankDocs DEF Keeps, Stored
    <3>7. UNCHANGED <<minted, answers, spent, respent, latest, undone, index>>
      BY <2>3 DEF Wallet
    <3> QED  BY <2>1, <3>2, <3>4, <3>5, <3>6, <3>7, BrowserStep
  <2> QED  BY <1>7, <2>2, <2>3 DEF PersistPresentation
<1> QED  BY <1>1, <1>2, <1>3, <1>4, <1>5, <1>6, <1>7 DEF Browser

(* A request that fails, also one that has consumed the code.              *)
LEMMA LeaveOrdered ==
  ASSUME Shape, Ordered, NEW r \in Requests, pc[r] # "idle", Leave(r)
  PROVE  Ordered' /\ Kept
<1>1. session # "none" /\ Write(heap, cur, Holds(r, None))
  BY BusyIsStored DEF Leave
<1>2. /\ NewHeap(r) /\ heap'[cur'] = Stored /\ cur' = cur /\ Cells(None)
      /\ \A q \in Requests :
           ref'[q] # None => q # r /\ heap'[ref'[q]] = heap[ref[q]]
  BY <1>1, LetGo
<1>3. /\ pc'[r] = "idle"
      /\ \A q \in Requests : q # r => pc'[q] = pc[q] /\ arg'[q] = arg[q]
      /\ UNCHANGED <<session, index, revealed, minted, answers, spent, respent, latest,
                     undone>>
  BY PlainFacts DEF Leave, Goto
<1>4. \A q \in Requests : pc'[q] \in WalletSteps =>
        /\ pc'[q] = pc[q] /\ arg'[q] = arg[q]
        /\ Keeps(heap[ref[q]], heap'[ref'[q]])
  BY <1>2, <1>3 DEF NewHeap, Shape, HeapOK, HoldSteps, WalletSteps, Keeps
<1>5. Phases'
  BY <1>3 DEF Ordered, Phases, WalletSteps
<1>6. Private'
  BY <1>2, PrivateStep DEF Ordered
<1>7. Keeps(Stored, Stored') /\ (minted = {} => index' = {})
  BY <1>1, <1>2, <1>3, BlankDocs DEF Keeps, Stored
<1>8. revealed' => Stored'.consent \/ (revealed /\ Keeps(Stored, Stored')) \/ undone'
  BY <1>3, <1>7
<1> QED  BY <1>1, <1>2, <1>3, <1>4, <1>5, <1>6, <1>7, <1>8, BystanderStep

(* ForfeitAuthorizationCode lets one request past the mark.                *)
LEMMA ForfeitOrdered ==
  ASSUME Shape, Ordered, NEW r \in Requests, ForfeitAuthorizationCode(r)
  PROVE  Ordered' /\ Kept
<1>1. /\ session # "none" /\ revealed /\ ~Stored.forfeited
      /\ Goto(r, "redeeming") /\ Hand(r, SetForfeited(Stored))
      /\ UNCHANGED <<session, index, arg, revealed, Wallet>>
  BY DEF ForfeitAuthorizationCode, Resolvable
<1> DEFINE d == SetForfeited(Stored)
<1>2. d \in Good /\ d.forfeited /\ d.token = Stored.token /\ d.consent = Stored.consent
  BY <1>1, StoredGood DEF Good, Doc, SetForfeited
<1>3. Hand(r, d)
  BY <1>1
<1> HIDE DEF d
<1>4. /\ NewHeap(r) /\ heap'[cur'] = d /\ heap'[ref'[r]] = d /\ cur' = cur
      /\ Cells(d) /\ (Backend # "memory" => ref'[r] # cur')
  BY <1>1, <1>2, <1>3, HandHeap
<1>6. pc'[r] = "redeeming" /\ \A q \in Requests : q # r => pc'[q] = pc[q]
  BY <1>1, PlainFacts DEF Goto
<1>u. UNCHANGED <<minted, answers, spent, respent, latest, undone>>
  BY <1>1 DEF Wallet
<1>7. Phases'
  BY <1>1 DEF Phases
<1>8. Blank'
  <2>1. SUFFICES ASSUME minted = {} PROVE Blank'
    BY <1>u DEF Blank
  <2>2. \A p \in Ptrs : heap'[p] # None => heap'[p].token = None
    BY <1>1, <1>2, <1>4, <2>1, BlankDocs DEF Cells, Ordered, Blank
  <2> QED  BY <1>1, <1>6, <1>u, <2>1, <2>2 DEF Ordered, Blank
<1>9. ASSUME ~undone PROVE Settled' /\ Marks'
  <2>1. /\ minted = {} /\ Stored.consent /\ respent = {}
        /\ \A q \in Requests : pc[q] \notin WalletSteps
    BY <1>1, <1>9 DEF Ordered, Settled, Marks, Blank, WalletSteps
  <2>2. \A q \in Requests : pc'[q] \in WalletSteps => q = r /\ pc'[q] = "redeeming"
    BY <1>6, <2>1
  <2>3. Settled'
    BY <1>u, <2>1 DEF Settled
  <2>4. Stored' = d /\ Held(r)' = d
    BY <1>4 DEF Stored, Held
  <2> QED  BY <1>u, <1>2, <2>1, <2>2, <2>3, <2>4 DEF Marks, WalletSteps
<1>10. Private'
  BY <1>4, PrivateStep DEF Ordered
<1>11. Kept
  BY <1>2, <1>4 DEF Kept, Stored
<1> QED  BY <1>u, <1>7, <1>8, <1>9, <1>10, <1>11 DEF Ordered

(* OAuthToken: the one request past the mark stores the first token.       *)
LEMMA TokenOrdered ==
  ASSUME Shape, Ordered, NEW r \in Requests, OAuthToken(r)
  PROVE  Ordered' /\ Kept
<1>1. /\ pc[r] = "redeeming" /\ pc[r] \in HoldSteps /\ session # "none"
      /\ Goto(r, "idle")
      /\ UNCHANGED <<session, arg, revealed, spent, respent, undone>>
  BY BusyIsStored DEF OAuthToken, HoldSteps
<1>2. PICK t \in Tokens \ minted :
        /\ Put(r, SetToken(Held(r), t))
        /\ IF Resolvable
           THEN /\ minted' = minted \cup {t}
                /\ answers' = answers \cup {t}
                /\ latest' = t
           ELSE UNCHANGED <<minted, answers, latest>>
  BY DEF OAuthToken, PersistToken
<1> DEFINE d == SetToken(Held(r), t)
<1>3. /\ d \in Good /\ d.token = t /\ d.forfeited = Held(r).forfeited
      /\ d.consent = Held(r).consent
  BY <1>1, HeldGood DEF Good, Doc, SetToken
<1>4. Put(r, d)
  BY <1>2
<1> HIDE DEF d
<1>5. /\ NewHeap(r) /\ ref'[r] = None
      /\ heap'[cur'] = (IF Resolvable THEN d ELSE Stored)
      /\ (Backend # "memory" => cur' = cur)
  BY <1>1, <1>3, <1>4, PutHeap
<1>6. pc'[r] = "idle" /\ \A q \in Requests : q # r => pc'[q] = pc[q]
  BY <1>1, PlainFacts DEF Goto
<1>7. revealed
  BY <1>1 DEF Ordered, Phases, WalletSteps
<1>8. Phases'
  BY <1>1, <1>7 DEF Phases
<1>9. Private'
  BY <1>5, PrivateStep DEF Ordered
<1>10. Blank'
  <2>1. CASE Resolvable
    BY <1>2, <2>1 DEF Blank
  <2>2. CASE ~Resolvable
    <3>1. /\ UNCHANGED <<minted, index>> /\ Write(heap, cur, Holds(r, None))
      BY <1>2, <1>4, <2>2 DEF Put
    <3>2. Cells(None)
      BY <1>1, <3>1, LetGo
    <3> QED  BY <1>1, <1>6, <3>1, <3>2 DEF Ordered, Blank, Cells
  <2> QED  BY <2>1, <2>2
<1>11. ASSUME ~undone PROVE Settled' /\ Marks' /\ Kept
  <2>1. /\ minted = {} /\ answers = {} /\ index = {} /\ spent = {} /\ respent = {}
        /\ Held(r).forfeited /\ Held(r).consent /\ Stored.consent
        /\ \A q \in Requests : pc[q] # "refreshing"
        /\ \A q \in Requests : pc[q] = "redeeming" => q = r
    BY <1>1, <1>7, <1>11 DEF Ordered, Settled, Blank, Marks, Shape, WalletOK, WalletSteps
  <2>2. \A q \in Requests : pc'[q] \notin WalletSteps
    BY <1>6, <2>1 DEF WalletSteps
  <2>3. Stored' \in {d, Stored} /\ Stored'.consent /\ Kept
    BY <1>3, <1>5, <2>1 DEF Stored, Kept
  <2>4. Marks'
    BY <1>1, <2>1, <2>2, <2>3 DEF Marks, WalletSteps
  <2>5. CASE Resolvable
    <3>1. minted' = {t} /\ answers' = {t} /\ latest' = t /\ t # None
      BY <1>2, <2>1, <2>5, NoneIsNothing
    <3>2. Backend = "memory" => index' = {t}
      BY <1>3, <1>4, <2>1, <2>5, <3>1 DEF Put, Reindexed
    <3>3. Settled'
      BY <1>1, <1>3, <1>5, <2>1, <2>2, <2>5, <3>1, <3>2 DEF Settled, Stored, WalletSteps
    <3> QED  BY <2>3, <2>4, <3>3
  <2>6. CASE ~Resolvable
    BY <1>2, <2>1, <2>3, <2>4, <2>6 DEF Settled
  <2> QED  BY <2>5, <2>6
<1>12. undone => Kept
  BY <1>1 DEF Kept
<1> QED  BY <1>1, <1>8, <1>9, <1>10, <1>11, <1>12 DEF Ordered

(* A refresh request fetches a context with the token it presents.         *)
LEMMA GetOrdered ==
  ASSUME Shape, Ordered, NEW r \in Requests, NEW t \in Tokens, GetByRefreshToken(r, t)
  PROVE  Ordered' /\ Kept
<1>1. /\ session # "none" /\ t \in minted /\ Resolves(t)
      /\ Goto(r, "refreshing") /\ Hand(r, Stored) /\ arg' = [arg EXCEPT ![r] = t]
      /\ UNCHANGED <<session, index, revealed, minted, answers, spent, respent, latest,
                     undone>>
  BY DEF GetByRefreshToken, Fetch, Resolvable, Wallet
<1>2. /\ NewHeap(r) /\ heap'[cur'] = Stored /\ heap'[ref'[r]] = Stored
      /\ cur' = cur /\ (Backend # "memory" => ref'[r] # cur')
      /\ \A q \in Requests : (q # r /\ ref[q] # None) =>
           heap'[ref'[q]] = IF ref[q] = cur THEN Stored ELSE heap[ref[q]]
  BY <1>1, StoredGood, HandHeap
<1>3. minted # {} /\ revealed
  BY <1>1 DEF Ordered, Phases
<1>4. Phases' /\ Blank'
  BY <1>1, <1>3 DEF Phases, Blank
<1>5. Private'
  BY <1>2, PrivateStep DEF Ordered
<1>6. Stored' = Stored /\ Kept
  BY <1>2 DEF Stored, Kept
<1>7. ASSUME ~undone PROVE Settled' /\ Marks'
  <2>1. /\ Stored.forfeited /\ Stored.consent /\ Stored.token = latest
        /\ \A q \in Requests : pc[q] # "redeeming"
    BY <1>3, <1>7 DEF Ordered, Settled, Marks
  <2>2. Stored.token = t
    BY <1>1, <1>3, <1>7, <2>1 DEF Resolves, Ordered, Settled
  <2>3. /\ pc'[r] = "refreshing" /\ arg'[r] = t
        /\ \A q \in Requests : q # r => pc'[q] = pc[q] /\ arg'[q] = arg[q]
    BY <1>1, PlainFacts DEF Goto
  <2>4. \A q \in Requests : (q # r /\ pc[q] = "refreshing") => Held(q)' = Held(q)
    BY <1>2 DEF Stored, Held, Shape, HeapOK, HoldSteps
  <2>5. Settled'
    BY <1>1, <1>6, <1>7, <2>1, <2>3 DEF Ordered, Settled
  <2>6. Held(r)' = Stored
    BY <1>2 DEF Held
  <2>7. Marks'
    BY <1>1, <1>3, <1>6, <1>7, <2>1, <2>2, <2>3, <2>4, <2>6 DEF Ordered, Marks, WalletSteps
  <2> QED  BY <2>5, <2>7
<1> QED  BY <1>1, <1>4, <1>5, <1>6, <1>7 DEF Ordered

(* RotateRefreshToken: the token swapped out is the latest and was not     *)
(* spent before.                                                           *)
LEMMA RotateOrdered ==
  ASSUME Shape, Ordered, NEW r \in Requests, RotateRefreshToken(r)
  PROVE  Ordered' /\ Kept
<1>0. pc[r] = "refreshing" /\ pc[r] \in HoldSteps /\ session # "none"
  BY BusyIsStored DEF RotateRefreshToken, HoldSteps
<1>1. CASE Leave(r)
  BY <1>0, <1>1, LeaveOrdered
<1>2. CASE Stored.token = Held(r).token /\ \E t \in Tokens \ minted : Rotated(r, t)
  <2>1. PICK t \in Tokens \ minted : Rotated(r, t)
    BY <1>2
  <2> DEFINE d == SetToken(Held(r), t)
  <2>2. /\ d \in Good /\ d.token = t /\ d.forfeited = Held(r).forfeited
        /\ d.consent = Held(r).consent
    BY <1>0, HeldGood DEF Good, Doc, SetToken
  <2>3. Replace(d, Holds(r, None))
    BY <2>1 DEF Rotated
  <2> HIDE DEF d
  <2>4. /\ NewHeap(r) /\ heap'[cur'] = d /\ ref' = Holds(r, None)
        /\ (Backend # "memory" => cur' = cur)
        /\ \A q \in Requests : Holds(r, None)[q] # None =>
              heap'[Holds(r, None)[q]] = IF ref[q] = cur /\ Backend # "memory"
                                         THEN d ELSE heap[ref[q]]
    BY <1>0, <2>2, <2>3, ReplaceHeap
  <2>5. ref'[r] = None
    BY <2>4 DEF Holds, Shape, HeapOK
  <2>6. Private'
    BY <2>4, <2>5, PrivateStep DEF Ordered
  <2>7. /\ minted' = minted \cup {t} /\ spent' = spent \cup {arg[r]} /\ latest' = t
        /\ respent' = (IF arg[r] \in spent THEN respent \cup {arg[r]} ELSE respent)
        /\ UNCHANGED <<session, revealed, answers, undone>>
        /\ index' = Reindexed(Stored.token, t)
    BY <2>1 DEF Rotated
  <2>8. minted # {} /\ revealed
    BY <1>0 DEF Ordered, Phases, Blank, WalletSteps
  <2>9. Phases' /\ Blank'
    BY <1>0, <2>7, <2>8 DEF Phases, Blank
  <2>10. ASSUME ~undone PROVE Settled' /\ Marks' /\ Kept
    <3>1. /\ Held(r).forfeited /\ Held(r).consent /\ Held(r).token = arg[r]
          /\ Stored.token = latest /\ spent \subseteq minted \ {latest}
          /\ respent = {} /\ latest \in minted /\ latest # None
          /\ \A q \in Requests : pc[q] # "redeeming"
          /\ \A x, y \in answers : x = y
      BY <1>0, <2>8, <2>10 DEF Ordered, Settled, Marks, WalletSteps, Shape, WalletOK
    <3>2. arg[r] = latest /\ arg[r] \notin spent /\ t # latest /\ t # None
      BY <1>2, <3>1, NoneIsNothing
    <3>3. respent' = {} /\ spent' \subseteq minted' \ {latest'}
      BY <2>7, <3>1, <3>2
    <3>4. Backend = "memory" => index' = {t}
      BY <2>7, <2>8, <2>10, <3>1, <3>2 DEF Reindexed, Ordered, Settled
    <3>5. /\ pc'[r] = "idle"
          /\ \A q \in Requests : q # r => pc'[q] = pc[q] /\ arg'[q] = arg[q]
      BY <2>1, PlainFacts DEF Rotated, Goto
    <3>6. Stored' = d /\ Stored'.forfeited /\ Stored'.consent
      BY <2>2, <2>4, <3>1 DEF Stored
    <3>7. \A q \in Requests : (q # r /\ pc[q] = "refreshing") => Held(q)' = Held(q)
      <4>1. SUFFICES ASSUME NEW q \in Requests, q # r, pc[q] = "refreshing"
                     PROVE  heap'[ref'[q]] = heap[ref[q]]
        BY DEF Held
      <4>2. ref[q] # None /\ Holds(r, None)[q] = ref[q]
        BY <4>1 DEF Holds, Shape, HeapOK, HoldSteps
      <4>3. Backend # "memory" => ref[q] # cur
        BY <4>2 DEF Ordered, Private
      <4> QED  BY <2>4, <4>2, <4>3
    <3>8. Settled'
      <4>1. session' # "none" /\ \A q \in Requests : pc'[q] # "redeeming"
        BY <1>0, <2>7, <3>1, <3>5
      <4>2. Stored'.token = latest'
        BY <2>2, <2>7, <3>6
      <4>3. latest' # None /\ \A x, y \in answers' : x = y
        BY <2>7, <3>1, <3>2
      <4> QED  BY <2>7, <3>3, <3>4, <3>6, <4>1, <4>2, <4>3 DEF Settled
    <3>9. Marks'
      <4>1. \A q \in Requests : pc'[q] \in WalletSteps =>
              q # r /\ pc[q] = "refreshing" /\ pc'[q] = "refreshing"
        BY <3>1, <3>5 DEF WalletSteps
      <4>2. \A q \in Requests : pc'[q] \in WalletSteps =>
              /\ Held(q)'.forfeited /\ Held(q)'.consent /\ Held(q)'.token = arg'[q]
        BY <2>10, <3>5, <3>7, <4>1 DEF Ordered, Marks, WalletSteps
      <4> QED  BY <3>3, <3>6, <4>1, <4>2 DEF Marks, WalletSteps
    <3> QED  BY <3>6, <3>8, <3>9 DEF Kept
  <2>11. undone => Kept
    BY <2>7 DEF Kept
  <2> QED  BY <2>6, <2>7, <2>9, <2>10, <2>11 DEF Ordered
<1> QED  BY <1>1, <1>2 DEF RotateRefreshToken

(* Every step, under any overlap of requests.                              *)
LEMMA StepOrdered ==
  Shape /\ Ordered /\ [Next]_vars => Ordered' /\ (session # "none" => Kept)
<1> SUFFICES ASSUME Shape, Ordered, [Next]_vars
             PROVE  Ordered' /\ (session # "none" => Kept)
  OBVIOUS
<1>1. CASE \E r \in Requests : Browser(r) \/ Redeem(r) \/ Fail(r)
  BY <1>1, BrowserOrdered, ForfeitOrdered, TokenOrdered, GetOrdered, RotateOrdered,
     LeaveOrdered DEF Redeem, Fail
<1>2. CASE OAuthPar
  <2> DEFINE d == [exp |-> now + RequestURITTL, forfeited |-> FALSE,
                   consent |-> FALSE, identified |-> FALSE, token |-> None]
  <2>1. PICK p \in Ptrs : Write([heap EXCEPT ![p] = d], p, ref)
    BY <1>2 DEF OAuthPar
  <2>2. /\ session = "none"
        /\ UNCHANGED <<index, pc, revealed, minted, answers, spent, respent, undone>>
    BY <1>2 DEF OAuthPar, Wallet
  <2>3. \A q \in Requests : ref[q] = None /\ pc[q] = "idle"
    BY <2>2 DEF Shape, HeapOK
  <2>4. ref' = ref
    BY <2>1 DEF Write
  <2>5. \A x \in Ptrs : heap'[x] \in {heap[x], d, None}
    BY <2>1 DEF Write, Shape, HeapOK
  <2>6. d.token = None
    OBVIOUS
  <2> HIDE DEF d
  <2>7. minted = {} /\ ~revealed /\ respent = {}
    BY <2>2 DEF Ordered, Phases, Blank, Shape, WalletOK
  <2>8. Blank'
    BY <2>2, <2>3, <2>5, <2>6 DEF Ordered, Blank
  <2>9. Phases' /\ Settled' /\ Marks'
    BY <2>2, <2>3, <2>7 DEF Ordered, Phases, Settled, Marks, WalletSteps
  <2>10. Private'
    BY <2>3, <2>4 DEF Private
  <2> QED  BY <2>2, <2>8, <2>9, <2>10 DEF Ordered
<1>3. CASE UserLookup
  <2>1. /\ session # "none" /\ revealed'
        /\ Write([heap EXCEPT ![cur] = SetConsent(Stored)], cur, ref)
        /\ UNCHANGED <<session, index, pc, arg, minted, answers, spent, respent, latest,
                       undone>>
    BY <1>3 DEF UserLookup, Resolvable, Wallet
  <2>2. PICK d \in Good : /\ Keeps(Stored, d) /\ d.consent
                          /\ Write([heap EXCEPT ![cur] = d], cur, ref)
    <3>1. SetConsent(Stored) \in Good /\ Keeps(Stored, SetConsent(Stored))
      BY <2>1, StoredGood DEF Good, Doc, SetConsent, Keeps
    <3>2. SetConsent(Stored).consent
      BY DEF SetConsent
    <3> QED  BY <2>1, <3>1, <3>2
  <2>3. /\ NewHeap(None) /\ Cells(d) /\ cur' = cur /\ ref' = ref /\ heap'[cur'] = d
        /\ \A q \in Requests : ref[q] # None =>
             heap'[ref[q]] = IF ref[q] = cur THEN d ELSE heap[ref[q]]
    BY <2>1, <2>2, InPlaceHeap
  <2>4. \A q \in Requests : pc'[q] \in WalletSteps =>
          /\ pc'[q] = pc[q] /\ arg'[q] = arg[q]
          /\ Keeps(heap[ref[q]], heap'[ref'[q]])
    BY <2>1, <2>2, <2>3 DEF Stored, Keeps, Shape, HeapOK, HoldSteps, WalletSteps
  <2>5. Phases' /\ Private'
    BY <2>1, <2>3 DEF Ordered, Phases, Private
  <2>6. /\ Keeps(Stored, Stored') /\ Stored'.consent
        /\ minted = {} => d.token = None /\ index = {}
    BY <2>1, <2>2, <2>3, BlankDocs DEF Keeps, Stored
  <2> QED  BY <2>1, <2>3, <2>4, <2>5, <2>6, BystanderStep
<1>4. CASE FetchAndStoreForVCI \/ Evict \/ Tick \/ UNCHANGED vars
  <2>1. /\ UNCHANGED <<heap, cur, index, pc, ref, arg, revealed, minted, answers,
                       spent, respent, latest, undone>>
        /\ session # "none" => session' # "none"
    BY <1>4 DEF FetchAndStoreForVCI, Evict, Tick, vars, Wallet
  <2>2. Phases' /\ Blank' /\ Private'
    BY <2>1 DEF Ordered, Phases, Blank, Private
  <2>3. Stored' = Stored /\ \A q \in Requests : Held(q)' = Held(q)
    BY <2>1 DEF Stored, Held
  <2>4. ~undone => Settled' /\ Marks'
    BY <2>1, <2>3 DEF Ordered, Settled, Marks
  <2> QED  BY <2>1, <2>2, <2>3, <2>4 DEF Ordered, Kept
<1> QED  BY <1>1, <1>2, <1>3, <1>4 DEF Next

(* Shape and order hold throughout, which the theorems below rest on.      *)
LEMMA AlwaysOrdered == Spec => [](Shape /\ Ordered)
  BY InitShape, StepShape, InitOrdered, StepOrdered, PTL DEF Spec

(* Until a browser request writes an older context back, one code is       *)
(* answered with one set of tokens on either store, for any number of      *)
(* requests of the browser and the wallet that overlap.                    *)
THEOREM CodeAnsweredOnce == Spec => []OneTokenPerCode
<1>1. Shape /\ Ordered => OneTokenPerCode
  BY DEF Shape, WalletOK, Ordered, Settled, OneTokenPerCode
<1> QED  BY <1>1, AlwaysOrdered, PTL

(* Under the same condition a refresh token is exchanged at most once: the *)
(* swap compares with the token of the context the handler fetched, and    *)
(* the stored context never names a spent token again.                     *)
THEOREM RefreshExchangedOnce == Spec => []RefreshTokenOnce
<1>1. Ordered => RefreshTokenOnce
  BY DEF Ordered, Marks, RefreshTokenOnce
<1> QED  BY <1>1, AlwaysOrdered, PTL

(* And the token the wallet was given last resolves as long as the session *)
(* does: neither a rotation nor the Update of the token request loses it.  *)
THEOREM LatestTokenKept == Spec => []LatestTokenResolves
<1>1. Shape /\ Ordered => LatestTokenResolves
  <2> SUFFICES ASSUME Shape, Ordered, ~undone, latest # None PROVE Resolves(latest)
    BY DEF LatestTokenResolves
  <2>1. minted # {}
    BY DEF Shape, WalletOK
  <2> QED  BY <2>1 DEF Ordered, Settled, Resolves
<1> QED  BY <1>1, AlwaysOrdered, PTL

(* Whatever overlaps, the mark of a spent code and the consent are taken   *)
(* back by nothing but the write-back of an older context by a login       *)
(* callback, a request object or a presentation: the visits to /authorize, *)
(* the consent and the token and refresh requests, although they replace   *)
(* the stored struct or write back whole contexts, never do it.            *)
THEOREM FactsStick == Spec => StoredFactsStick
<1>1. Shape /\ Ordered /\ [Next]_vars =>
        [session = "stored" /\ ~undone' =>
           /\ Stored.forfeited => Stored'.forfeited
           /\ Stored.consent => Stored'.consent]_vars
  BY StepOrdered DEF Kept
<1> QED  BY <1>1, AlwaysOrdered, PTL DEF Spec, StoredFactsStick
=============================================================================
