------------------------- MODULE MemoryStoreProofs -------------------------
(* The indices of MemoryStore stay in step with the documents it holds.    *)
EXTENDS MemoryStore, TLAPS

(* What holds a pointer points to a struct, and the cache to one of the    *)
(* right session.                                                          *)
PtrsOK ==
  /\ \A s \in Sessions : cache[s] # None =>
       heap[cache[s]] # None /\ heap[cache[s]].sid = s
  /\ \A p \in pending : heap[p] # None
  /\ \A r \in Requests : ref[r] # None => heap[ref[r]] # None
  /\ \A r \in editing : ref[r] # None

(* A document carries handles of its own session, one per field.           *)
DocsOK ==
  \A p \in Ptrs : heap[p] # None =>
    /\ \A k \in heap[p].h : OwnerOf[k] = heap[p].sid
    /\ OnePerField(heap[p].h)

IndexOwned == \A k \in Handles : index[k] # None => index[k] = OwnerOf[k]

(* No callback of a session is outstanding while the session is cached.    *)
NoLateCallback ==
  \A s \in Sessions : cache[s] # None =>
    \A p \in pending : heap[p].sid # s

Shape == TypeOK /\ PtrsOK /\ DocsOK /\ IndexOwned /\ NoLateCallback
IInv == Shape /\ IndexCovered /\ IndexComplete

(* A document fit to be stored for session s.                              *)
Fit(d, s) == /\ d \in Doc
             /\ d.sid = s
             /\ \A k \in d.h : OwnerOf[k] = s
             /\ OnePerField(d.h)

-----------------------------------------------------------------------------
(* Init establishes the invariant: every map is empty.                     *)
LEMMA InitInv == Init => IInv
  BY MemoryStoreAssumption
  DEF Init, IInv, Shape, TypeOK, PtrsOK, DocsOK, IndexOwned, NoLateCallback,
      IndexCovered, IndexComplete, Live

(* The cached document of a session is fit for it.                         *)
LEMMA CachedFit ==
  ASSUME Shape, NEW s \in Sessions, cache[s] # None
  PROVE  cache[s] \in Ptrs /\ DocOf(s) \in Doc /\ Fit(DocOf(s), s)
  BY MemoryStoreAssumption DEF Shape, TypeOK, PtrsOK, DocsOK, DocOf, Fit

(* So is the one a request holds, for the session it names.                *)
LEMMA HeldFit ==
  ASSUME Shape, NEW r \in Requests, ref[r] # None
  PROVE  /\ ref[r] \in Ptrs /\ heap[ref[r]] \in Doc
         /\ heap[ref[r]].sid \in Sessions
         /\ Fit(heap[ref[r]], heap[ref[r]].sid)
  BY MemoryStoreAssumption DEF Shape, TypeOK, PtrsOK, DocsOK, Fit, Doc

(* Replacing handles of a fit document by newly minted ones keeps it fit.  *)
LEMMA AssignedFit ==
  ASSUME NEW s \in Sessions, NEW d, Fit(d, s), NEW fs, NEW gs,
         NEW new \in Minted(s, fs)
  PROVE  Fit(With(d, Assigned(Without(d.h, gs), new)), s)
<1> DEFINE e == With(d, Assigned(Without(d.h, gs), new))
<1>1. e \in Doc /\ e.sid = s /\ e.h = Assigned(Without(d.h, gs), new)
  BY DEF Fit, With, Assigned, Without, Minted, Doc
<1>2. \A k \in e.h : OwnerOf[k] = s
  BY <1>1 DEF Fit, Assigned, Without, Minted
<1>3. OnePerField(e.h)
  BY <1>1 DEF Fit, OnePerField, Assigned, Without, Minted, FieldsOf
<1> QED BY <1>1, <1>2, <1>3 DEF Fit

(* A fit document without some of its fields is fit.                       *)
LEMMA WithoutFit ==
  ASSUME NEW s \in Sessions, NEW d, Fit(d, s), NEW gs
  PROVE  Fit(With(d, Without(d.h, gs)), s)
  BY DEF Fit, With, Without, Doc, OnePerField

-----------------------------------------------------------------------------
(* Writing a document with the same handles through the cached pointer.    *)
LEMMA InPlaceInv ==
  ASSUME IInv, NEW s \in Sessions, Live(s), NEW d, Fit(d, s),
         d.h = DocOf(s).h, NEW rf, InPlace(s, d, rf),
         rf = ref \/ \E r \in Requests : Idle(r) /\ rf = Holds(r, cache[s]),
         index' = index \/ index' = updateIndices(index, DocOf(s)),
         UNCHANGED editing
  PROVE  IInv'
<1>1. Shape'
  BY CachedFit, MemoryStoreAssumption
  DEF IInv, Shape, TypeOK, PtrsOK, DocsOK, IndexOwned, NoLateCallback, Fit,
      Live, DocOf, InPlace, Write, Reachable, Touch, Holds, Idle, updateIndices
<1>2. /\ cache' = cache /\ pending' = pending
      /\ \A t \in Sessions : cache[t] # None => DocOf(t)'.h = DocOf(t).h
      /\ \A p \in pending : heap'[p].sid = heap[p].sid /\ heap'[p].h = heap[p].h
      /\ \A r \in editing : ref'[r] = ref[r] /\ heap'[ref[r]].h = heap[ref[r]].h
  BY CachedFit
  DEF IInv, Shape, TypeOK, PtrsOK, Fit, Live, DocOf, InPlace, Write, Reachable,
      Holds, Idle
<1>3. IndexCovered'
  BY <1>2, CachedFit
  DEF IInv, Shape, TypeOK, IndexCovered, DocOf, Live,
      Fit, updateIndices
<1>4. IndexComplete'
  <2> SUFFICES ASSUME NEW t \in Sessions, Live(t)', NEW k \in DocOf(t)'.h
               PROVE  index'[k] = t \/ \E r \in editing : k \in heap'[ref'[r]].h
    BY DEF IndexComplete
  <2>1. Live(t) /\ k \in DocOf(t).h /\ k \in Handles /\ OwnerOf[k] = t
    BY <1>2, CachedFit DEF Live, InPlace, Touch, IInv, Shape, TypeOK, Fit, Doc
  <2>2. index'[k] \in {index[k], t}
    BY <2>1, CachedFit DEF updateIndices, Fit, IInv, Live
  <2> QED BY <1>2, <2>1, <2>2 DEF IInv, IndexComplete
<1> QED BY <1>1, <1>3, <1>4 DEF IInv

(* Pointing the cache at a new struct that holds d, with the indices of    *)
(* the old document gone and those of d in place.                          *)
LEMMA ReplaceInv ==
  ASSUME IInv, NEW s \in Sessions, Live(s), NEW d, Fit(d, s),
         NEW p \in Free, NEW q \in Free, NEW rf,
         Write([heap EXCEPT ![p] = d, ![q] = d], [cache EXCEPT ![s] = p],
               pending, rf),
         \/ rf = ref
         \/ \E r \in Requests : r \notin editing /\ (rf = Holds(r, None) \/ rf = Holds(r, q)),
         Touch(s), UNCHANGED editing,
         \A k \in Handles :
           \/ k \in d.h /\ index'[k] = s
           \/ k \in d.h /\ k \in DocOf(s).h /\ index'[k] = index[k]
           \/ k \in DocOf(s).h /\ k \notin d.h /\ index'[k] = None
           \/ k \notin DocOf(s).h \cup d.h /\ index'[k] \in {index[k], None}
              /\ (OwnerOf[k] # s => index'[k] = index[k]),
         index' \in [Handles -> Sessions \cup {None}]
  PROVE  IInv'
<1>0. heap' = [x \in Ptrs |-> IF x \in Reachable(cache', pending', ref')
                                THEN [heap EXCEPT ![p] = d, ![q] = d][x] ELSE None]
  BY DEF Write
<1>1. /\ p \in Ptrs /\ q \in Ptrs /\ d # None /\ p # None
      /\ cache' = [cache EXCEPT ![s] = p] /\ pending' = pending /\ ref' = rf
      /\ \A t \in Sessions : t # s => cache'[t] = cache[t]
      /\ cache'[s] = p
      /\ left' \in [Sessions -> 0..TTL] /\ left'[s] = TTL
      /\ \A t \in Sessions : t # s => left'[t] = left[t]
  BY MemoryStoreAssumption DEF Free, Write, Fit, Touch, IInv, Shape, TypeOK
<1>2. /\ heap' \in [Ptrs -> Doc \cup {None}]
      /\ heap'[p] = d
      /\ \A x \in Ptrs : x # p /\ x # q => heap'[x] \in {heap[x], None}
      /\ heap'[q] \in {d, None}
  BY <1>0, <1>1 DEF IInv, Shape, TypeOK, Fit, Reachable
<1>3. /\ \A t \in Sessions : t # s /\ cache[t] # None => heap'[cache[t]] = heap[cache[t]]
      /\ \A x \in pending : heap'[x] = heap[x]
      /\ \A r \in Requests : rf[r] = ref[r] /\ ref[r] # None => heap'[ref[r]] = heap[ref[r]]
      /\ \A r \in Requests : rf[r] = q => heap'[q] = d
  BY <1>0, <1>1, MemoryStoreAssumption DEF IInv, Shape, TypeOK, Reachable, Free
<1>4. /\ rf \in [Requests -> Ptrs \cup {None}]
      /\ \A r \in Requests : rf[r] \in {ref[r], q, None}
      /\ \A r \in editing : rf[r] = ref[r]
  BY <1>1 DEF IInv, Shape, TypeOK, Holds
<1>5. Shape'
  <2>1. TypeOK'
    BY <1>1, <1>2, <1>4 DEF IInv, Shape, TypeOK, Touch
  <2>2. PtrsOK'
    BY <1>1, <1>2, <1>3, <1>4, MemoryStoreAssumption
    DEF IInv, Shape, TypeOK, PtrsOK, Fit
  <2>3. DocsOK'
    BY <1>1, <1>2 DEF IInv, Shape, TypeOK, DocsOK, Fit
  <2>4. IndexOwned'
    BY DEF IInv, Shape, TypeOK, IndexOwned, Fit
  <2>5. NoLateCallback'
    BY <1>1, <1>3 DEF IInv, Shape, TypeOK, NoLateCallback, Live
  <2> QED BY <2>1, <2>2, <2>3, <2>4, <2>5 DEF Shape
<1>6. IndexCovered'
  <2> SUFFICES ASSUME NEW k \in Handles, index'[k] # None
               PROVE  \/ cache'[index'[k]] # None /\ k \in heap'[cache'[index'[k]]].h
                      \/ \E x \in pending : heap'[x].sid = index'[k] /\ k \in heap'[x].h
    BY <1>1 DEF IndexCovered, DocOf
  <2>1. CASE k \in d.h
    BY <2>1, <1>1, <1>2 DEF IInv, Shape, IndexOwned, Fit
  <2>2. CASE k \notin d.h
    <3>1. index'[k] = index[k] /\ index[k] \in Sessions /\ k \notin DocOf(s).h
      BY <2>2 DEF IInv, Shape, TypeOK
    <3> QED BY <3>1, <1>1, <1>3
        DEF IInv, IndexCovered, DocOf
  <2> QED BY <2>1, <2>2
<1>7. IndexComplete'
  <2> SUFFICES ASSUME NEW t \in Sessions, cache'[t] # None, left'[t] > 0,
                      NEW k \in heap'[cache'[t]].h
               PROVE  index'[k] = t \/ \E r \in editing : k \in heap'[rf[r]].h
    BY <1>1 DEF IndexComplete, Live, DocOf
  <2>1. CASE t = s
    BY <2>1, <1>1, <1>2, <1>3, <1>4
    DEF Fit, Doc, IInv, Shape, PtrsOK, TypeOK, IndexComplete
  <2>2. CASE t # s
    <3>1. Live(t) /\ k \in DocOf(t).h /\ OwnerOf[k] = t /\ k \in Handles
      BY <2>2, <1>1, <1>3, CachedFit DEF Live, DocOf, Fit, Doc, IInv
    <3>2. index'[k] = index[k]
      BY <3>1, <2>2, CachedFit DEF Fit, IInv, Live
    <3> QED BY <3>1, <3>2, <1>3, <1>4
        DEF IInv, Shape, TypeOK, PtrsOK, IndexComplete
  <2> QED BY <2>1, <2>2
<1> QED BY <1>5, <1>6, <1>7 DEF IInv

(* Save: the session, and so its handles, are new.                         *)
LEMMA SaveInv ==
  ASSUME IInv, NEW s \in Sessions, NEW hs, Save(s, hs)
  PROVE  IInv'
<1> DEFINE d == [sid |-> s, h |-> hs, forfeited |-> FALSE,
                 redeemed |-> {}, attempts |-> 0]
<1>1. Fit(d, s)
  BY MemoryStoreAssumption DEF Save, Minted, Fit, Doc
<1>2. PICK p \in Free :
        Write([heap EXCEPT ![p] = d], [cache EXCEPT ![s] = p], pending, ref)
  BY DEF Save, Replace
<1>3. /\ cache' = [cache EXCEPT ![s] = p] /\ pending' = pending /\ ref' = ref
      /\ left' = [left EXCEPT ![s] = TTL] /\ editing' = editing
      /\ index' = updateIndices(index, d)
      /\ p \in Ptrs /\ p # None /\ d # None
  BY <1>1, <1>2, MemoryStoreAssumption
  DEF Save, Replace, Touch, Write, Free, Fit
<1>4. /\ heap' \in [Ptrs -> Doc \cup {None}] /\ heap'[p] = d
      /\ \A x \in Ptrs : x # p => heap'[x] \in {heap[x], None}
      /\ \A t \in Sessions : t # s /\ cache[t] # None => heap'[cache[t]] = heap[cache[t]]
      /\ \A x \in pending : heap'[x] = heap[x]
      /\ \A r \in Requests : ref[r] # None => heap'[ref[r]] = heap[ref[r]]
  BY <1>1, <1>2, <1>3, MemoryStoreAssumption
  DEF Write, Reachable, Free, IInv, Shape, TypeOK, Fit
<1>5. Shape'
  BY <1>1, <1>3, <1>4, MemoryStoreAssumption
  DEF IInv, Shape, TypeOK, PtrsOK, DocsOK, IndexOwned, NoLateCallback, Fit,
      Save, updateIndices
<1>6. IndexCovered'
  BY <1>1, <1>3, <1>4, MemoryStoreAssumption
  DEF IInv, Shape, TypeOK, IndexOwned, IndexCovered, Fit,
      DocOf, Save, updateIndices
<1>7. IndexComplete'
  BY <1>1, <1>3, <1>4, MemoryStoreAssumption
  DEF IInv, Shape, TypeOK, PtrsOK, DocsOK, IndexComplete, Live, DocOf, Fit, Doc,
      Save, updateIndices
<1> QED BY <1>5, <1>6, <1>7 DEF IInv

(* Reads hand out a pointer, or a pointer to a copy.                       *)
LEMMA GetByIDInv ==
  ASSUME IInv, NEW r \in Requests, NEW s \in Sessions, GetByID(r, s)
  PROVE  IInv'
<1>1. /\ Shape' /\ Live(s) /\ r \notin editing
  BY CachedFit, MemoryStoreAssumption
  DEF IInv, Shape, TypeOK, PtrsOK, DocsOK, IndexOwned, NoLateCallback, Fit,
      GetByID, Live, DocOf, Write, Reachable, Touch, Holds, Idle
<1>2. /\ cache' = cache /\ pending' = pending /\ index' = index /\ editing' = editing
      /\ \A t \in Sessions : cache[t] # None => heap'[cache[t]] = heap[cache[t]]
      /\ \A p \in pending : heap'[p] = heap[p]
      /\ \A q \in editing : ref'[q] = ref[q] /\ heap'[ref[q]] = heap[ref[q]]
      /\ \A t \in Sessions : Live(t)' => Live(t)
  BY <1>1
  DEF IInv, Shape, TypeOK, PtrsOK, GetByID, Live, Write, Reachable, Touch, Holds
<1>3. IndexCovered'
  BY <1>2 DEF IInv, Shape, TypeOK, IndexCovered, DocOf
<1>4. IndexComplete'
  BY <1>2 DEF IInv, Shape, TypeOK, IndexComplete, DocOf, Live
<1> QED BY <1>1, <1>3, <1>4 DEF IInv

(* A snapshot is a struct of its own, in no index.                         *)
LEMMA GetSnapshotInv ==
  ASSUME IInv, NEW r \in Requests, NEW s \in Sessions, GetSnapshot(r, s)
  PROVE  IInv'
<1>1. PICK p \in Free :
        Write([heap EXCEPT ![p] = DocOf(s)], cache, pending, Holds(r, p))
  BY DEF GetSnapshot
<1>2. Shape' /\ Live(s) /\ r \notin editing
  BY <1>1, CachedFit, MemoryStoreAssumption
  DEF IInv, Shape, TypeOK, PtrsOK, DocsOK, IndexOwned, NoLateCallback, Fit,
      GetSnapshot, Live, Write, Reachable, Free, Touch, Holds, Idle
<1>3. /\ cache' = cache /\ pending' = pending /\ index' = index /\ editing' = editing
      /\ \A t \in Sessions : cache[t] # None => heap'[cache[t]] = heap[cache[t]]
      /\ \A x \in pending : heap'[x] = heap[x]
      /\ \A q \in editing : ref'[q] = ref[q] /\ heap'[ref[q]] = heap[ref[q]]
      /\ \A t \in Sessions : Live(t)' => Live(t)
  BY <1>1, <1>2, MemoryStoreAssumption
  DEF IInv, Shape, TypeOK, PtrsOK, GetSnapshot, Live, Write, Reachable, Free,
      Touch, Holds
<1>4. IndexCovered'
  BY <1>3 DEF IInv, Shape, TypeOK, IndexCovered, DocOf
<1>5. IndexComplete'
  BY <1>3 DEF IInv, Shape, TypeOK, IndexComplete, DocOf, Live
<1> QED BY <1>2, <1>4, <1>5 DEF IInv

(* A request writes an unseen handle into the struct it holds, which may   *)
(* be the cached one, an evicted one or its own.                           *)
LEMMA FillInv ==
  ASSUME IInv, InPlaceRotation = FALSE,
         NEW r \in Requests, NEW k \in Handles, Fill(r, k)
  PROVE  IInv'
<1> DEFINE d == heap[ref[r]]
           e == With(d, Assigned(d.h, {k}))
<1>1. /\ ref[r] \in Ptrs /\ ref[r] # None /\ Fit(d, d.sid) /\ d.sid \in Sessions
      /\ OwnerOf[k] = d.sid
  BY HeldFit DEF Fill, Idle, IInv
<1>2. e \in Doc /\ e.sid = d.sid /\ e # None /\ k \in e.h
  BY <1>1, MemoryStoreAssumption DEF Fit, With, Assigned, Without, Doc
<1>3. Fit(e, d.sid)
  BY <1>1, <1>2 DEF Fit, OnePerField, With, Assigned, Without, FieldsOf
<1>4. d.h \subseteq e.h /\ e.h \subseteq Handles
  BY <1>2 DEF Fill, With, Assigned, Without, FieldsOf, Doc
<1>5. /\ cache' = cache /\ pending' = pending /\ ref' = ref /\ index' = index
      /\ left' = left /\ editing' = editing \cup {r}
  BY DEF Fill, Write
<1>6. /\ heap' \in [Ptrs -> Doc \cup {None}]
      /\ heap'[ref[r]] = e
      /\ \A x \in Ptrs : x # ref[r] => heap'[x] \in {heap[x], None}
      /\ \A x \in Reachable(cache, pending, ref) : x # ref[r] => heap'[x] = heap[x]
  BY <1>1, <1>2 DEF Fill, Write, Reachable, IInv, Shape, TypeOK
<1> HIDE DEF e
<1>7. /\ \A t \in Sessions : cache[t] # None =>
             cache[t] \in Reachable(cache, pending, ref) /\ heap[cache[t]] # None
      /\ \A x \in pending : x \in Reachable(cache, pending, ref) /\ heap[x] # None
      /\ \A q \in Requests : ref[q] # None =>
             ref[q] \in Reachable(cache, pending, ref) /\ heap[ref[q]] # None
  BY DEF Reachable, IInv, Shape, TypeOK, PtrsOK
<1>8. /\ \A t \in Sessions : cache[t] # None =>
            heap'[cache[t]] # None /\ heap'[cache[t]].sid = heap[cache[t]].sid
            /\ heap[cache[t]].h \subseteq heap'[cache[t]].h
            /\ (cache[t] # ref[r] => heap'[cache[t]] = heap[cache[t]])
      /\ \A x \in pending : heap'[x] # None /\ heap'[x].sid = heap[x].sid
                               /\ heap[x].h \subseteq heap'[x].h
      /\ \A q \in Requests : ref[q] # None =>
            heap'[ref[q]] # None /\ heap[ref[q]].h \subseteq heap'[ref[q]].h
  <2>1. \A x \in Reachable(cache, pending, ref) : heap[x] # None =>
          /\ heap'[x] # None /\ heap'[x].sid = heap[x].sid
          /\ heap[x].h \subseteq heap'[x].h
    <3> TAKE x \in Reachable(cache, pending, ref)
    <3>1. CASE x = ref[r]
      BY <3>1, <1>2, <1>4, <1>6
    <3>2. CASE x # ref[r]
      BY <3>2, <1>6
    <3> QED BY <3>1, <3>2
  <2> QED BY <2>1, <1>7, <1>6
<1>9. Shape'
  BY <1>1, <1>2, <1>3, <1>5, <1>6, <1>8, MemoryStoreAssumption
  DEF IInv, Shape, TypeOK, PtrsOK, DocsOK, IndexOwned, NoLateCallback, Fit
<1>10. IndexCovered'
  BY <1>5, <1>8 DEF IInv, Shape, TypeOK, IndexCovered, DocOf
<1>11. IndexComplete'
  <2> SUFFICES ASSUME NEW t \in Sessions, Live(t)', NEW j \in DocOf(t)'.h
               PROVE  index'[j] = t \/ \E q \in editing' : j \in heap'[ref'[q]].h
    BY DEF IndexComplete
  <2>1. CASE cache[t] = ref[r]
    BY <2>1, <1>5 DEF DocOf
  <2>2. CASE cache[t] # ref[r]
    <3>1. Live(t) /\ j \in DocOf(t).h
      BY <2>2, <1>5, <1>8 DEF Live, DocOf
    <3> QED BY <3>1, <1>5, <1>8
        DEF IInv, Shape, TypeOK, PtrsOK, IndexComplete
  <2> QED BY <2>1, <2>2
<1> QED BY <1>9, <1>10, <1>11 DEF IInv

(* A request that ends lets go of its struct.                              *)
LEMMA ReturnInv ==
  ASSUME IInv, NEW r \in Requests, Return(r)
  PROVE  IInv'
<1>1. Shape'
  BY MemoryStoreAssumption
  DEF IInv, Shape, TypeOK, PtrsOK, DocsOK, IndexOwned, NoLateCallback,
      Return, Write, Reachable, Holds
<1>2. IndexCovered'
  BY DEF IInv, Shape, TypeOK, PtrsOK, IndexCovered, DocOf, Return, Write, Reachable
<1>3. IndexComplete'
  BY DEF IInv, Shape, TypeOK, PtrsOK, IndexComplete, Live, DocOf, Return, Write,
         Reachable, Holds
<1> QED BY <1>1, <1>2, <1>3 DEF IInv

(* Update stores whatever struct the caller holds, however old: the        *)
(* indices follow it.                                                      *)
LEMMA UpdateInv ==
  ASSUME IInv, NEW r \in Requests, Update(r)
  PROVE  IInv'
<1> DEFINE d == heap[ref[r]]
           s == d.sid
<1>1. /\ ref[r] \in Ptrs /\ ref[r] # None /\ s \in Sessions /\ Fit(d, s) /\ d # None
      /\ editing' = editing \ {r} /\ pending' = pending /\ ref' = Holds(r, None)
  BY HeldFit, MemoryStoreAssumption DEF Update, Write, Idle, IInv, Fit
<1>2. /\ heap' \in [Ptrs -> Doc \cup {None}]
      /\ \A x \in Ptrs : heap'[x] \in {heap[x], None}
      /\ \A x \in pending : heap'[x] = heap[x]
      /\ \A q \in Requests : q # r /\ ref[q] # None =>
           ref'[q] = ref[q] /\ heap'[ref[q]] = heap[ref[q]]
  BY <1>1 DEF Update, Write, Reachable, Holds, IInv, Shape, TypeOK
<1>3. CASE Live(s)
  <2>1. /\ cache' = [cache EXCEPT ![s] = ref[r]] /\ left' = [left EXCEPT ![s] = TTL]
        /\ index' = updateIndices(deleteIndices(index, DocOf(s)), d)
    BY <1>3 DEF Update, Write, Touch
  <2>2. /\ heap'[ref[r]] = d
        /\ \A t \in Sessions : t # s /\ cache[t] # None => heap'[cache[t]] = heap[cache[t]]
    BY <1>3, <1>1 DEF Update, Write, Reachable, IInv, Shape, TypeOK
  <2> HIDE DEF d, s
  <2>3. Shape'
    <3>1. TypeOK'
      BY <1>1, <1>2, <2>1, MemoryStoreAssumption
      DEF IInv, Shape, TypeOK, Fit, Holds, updateIndices, deleteIndices
    <3>2. PtrsOK'
      BY <1>1, <1>2, <2>1, <2>2, MemoryStoreAssumption
      DEF IInv, Shape, TypeOK, PtrsOK, Fit, Holds
    <3>3. DocsOK'
      BY <1>2 DEF IInv, Shape, TypeOK, DocsOK
    <3>4. IndexOwned'
      BY <1>1, <2>1
      DEF IInv, Shape, TypeOK, IndexOwned, Fit, updateIndices, deleteIndices
    <3>5. NoLateCallback'
      BY <1>1, <1>2, <1>3, <2>1
      DEF IInv, Shape, TypeOK, NoLateCallback, Live
    <3> QED BY <3>1, <3>2, <3>3, <3>4, <3>5 DEF Shape
  <2>4. IndexCovered'
    BY <1>1, <1>2, <1>3, <2>1, <2>2, MemoryStoreAssumption
    DEF IInv, Shape, TypeOK, IndexCovered, Fit, DocOf, Live,
        updateIndices, deleteIndices
  <2>5. IndexComplete'
    <3> SUFFICES ASSUME NEW t \in Sessions, Live(t)', NEW k \in DocOf(t)'.h
                 PROVE  index'[k] = t \/ \E q \in editing' : k \in heap'[ref'[q]].h
      BY DEF IndexComplete
    <3>1. CASE t = s
      BY <3>1, <1>1, <2>1, <2>2
      DEF DocOf, Fit, Doc, updateIndices, IInv, Shape, TypeOK
    <3>2. CASE t # s
      <4>1. Live(t) /\ k \in DocOf(t).h /\ OwnerOf[k] = t /\ k \in Handles
        BY <3>2, <1>1, <2>1, <2>2, CachedFit
        DEF Live, DocOf, Fit, Doc, IInv, Shape, TypeOK
      <4>2. index'[k] = index[k] /\ k \notin d.h
        BY <4>1, <3>2, <1>1, <1>3, <2>1, CachedFit
        DEF Fit, IInv, Live, updateIndices, deleteIndices
      <4> QED BY <4>1, <4>2, <1>1, <1>2
          DEF IInv, Shape, TypeOK, PtrsOK, IndexComplete, d
    <3> QED BY <3>1, <3>2
  <2> QED BY <2>3, <2>4, <2>5 DEF IInv
<1>4. CASE ~Live(s)
  <2>1. cache' = cache /\ left' = left /\ index' = index
    BY <1>4 DEF Update, Write
  <2>2. \A t \in Sessions : cache[t] # None => heap'[cache[t]] = heap[cache[t]]
    BY <1>4 DEF Update, Write, Reachable, IInv, Shape, TypeOK
  <2>3. Shape'
    BY <1>1, <1>2, <2>1, <2>2
    DEF IInv, Shape, TypeOK, PtrsOK, DocsOK, IndexOwned, NoLateCallback, Holds
  <2>4. IndexCovered'
    BY <1>1, <1>2, <2>1, <2>2 DEF IInv, Shape, TypeOK, IndexCovered, DocOf
  <2>5. IndexComplete'
    <3> SUFFICES ASSUME NEW t \in Sessions, Live(t), NEW k \in DocOf(t).h
                 PROVE  index[k] = t \/ \E q \in editing' : k \in heap'[ref'[q]].h
      BY <2>1, <2>2 DEF IndexComplete, Live, DocOf
    <3>1. OwnerOf[k] = t /\ t # s
      BY <1>4, CachedFit DEF Live, Fit, IInv
    <3> QED BY <3>1, <1>1, <1>2
        DEF IInv, Shape, TypeOK, PtrsOK, IndexComplete, Fit
  <2> QED BY <2>3, <2>4, <2>5 DEF IInv
<1> QED BY <1>3, <1>4

(* Rewriting the cached struct with other handles, indices rebuilt.        *)
LEMMA RewriteInv ==
  ASSUME IInv, NEW s \in Sessions, Live(s), NEW d, Fit(d, s),
         NEW q \in Free \cup {cache[s]}, NEW rf,
         Write([heap EXCEPT ![cache[s]] = d, ![q] = d], cache, pending, rf),
         rf = ref \/ \E r \in Requests : Idle(r) /\ rf = Holds(r, q),
         Touch(s), UNCHANGED editing,
         index' = updateIndices(deleteIndices(index, DocOf(s)), d)
  PROVE  IInv'
<1>1. /\ q \in Ptrs /\ cache[s] \in Ptrs /\ d # None /\ cache[s] # None
      /\ cache' = cache /\ pending' = pending /\ ref' = rf
      /\ left' \in [Sessions -> 0..TTL]
      /\ \A t \in Sessions : t # s => left'[t] = left[t]
  BY MemoryStoreAssumption
  DEF Free, Write, Fit, Touch, Live, IInv, Shape, TypeOK
<1>2. /\ heap' \in [Ptrs -> Doc \cup {None}]
      /\ heap'[cache[s]] = d
      /\ heap'[q] \in {d, None}
      /\ \A x \in Ptrs : x # cache[s] /\ x # q => heap'[x] \in {heap[x], None}
  BY <1>1 DEF IInv, Shape, TypeOK, Fit, Write, Reachable
<1>3. /\ rf \in [Requests -> Ptrs \cup {None}]
      /\ \A r \in Requests : rf[r] \in {ref[r], q}
      /\ \A r \in editing : rf[r] = ref[r]
  BY <1>1 DEF IInv, Shape, TypeOK, PtrsOK, Holds, Idle
<1>4. /\ \A t \in Sessions : t # s /\ cache[t] # None => heap'[cache[t]] = heap[cache[t]]
      /\ \A x \in pending : heap'[x] = heap[x]
      /\ \A r \in Requests : rf[r] = ref[r] /\ ref[r] # None =>
           heap'[ref[r]] = IF ref[r] = cache[s] THEN d ELSE heap[ref[r]]
      /\ \A r \in Requests : rf[r] = q => heap'[q] = d
  BY <1>1, MemoryStoreAssumption
  DEF IInv, Shape, TypeOK, PtrsOK, NoLateCallback, Write, Reachable, Free
<1>5. Shape'
  <2>1. TypeOK'
    BY <1>1, <1>2, <1>3
    DEF IInv, Shape, TypeOK, Fit, updateIndices, deleteIndices
  <2>2. PtrsOK'
    BY <1>1, <1>2, <1>3, <1>4 DEF IInv, Shape, TypeOK, PtrsOK, Fit
  <2>3. DocsOK'
    BY <1>1, <1>2 DEF IInv, Shape, TypeOK, DocsOK, Fit
  <2>4. IndexOwned'
    BY DEF IInv, Shape, TypeOK, IndexOwned, Fit, updateIndices, deleteIndices
  <2>5. NoLateCallback'
    BY <1>1, <1>4 DEF IInv, Shape, TypeOK, NoLateCallback
  <2> QED BY <2>1, <2>2, <2>3, <2>4, <2>5 DEF Shape
<1>6. IndexCovered'
  BY <1>1, <1>2, <1>4
  DEF IInv, Shape, TypeOK, IndexCovered, Fit, DocOf, updateIndices, deleteIndices
<1>7. IndexComplete'
  <2> SUFFICES ASSUME NEW t \in Sessions, cache[t] # None, left'[t] > 0,
                      NEW k \in heap'[cache[t]].h
               PROVE  index'[k] = t \/ \E r \in editing : k \in heap'[rf[r]].h
    BY <1>1 DEF IndexComplete, Live, DocOf
  <2>1. CASE t = s
    BY <2>1, <1>2 DEF Fit, Doc, updateIndices
  <2>2. CASE t # s
    <3>1. Live(t) /\ k \in DocOf(t).h /\ OwnerOf[k] = t /\ k \in Handles
      BY <2>2, <1>1, <1>4, CachedFit DEF Live, DocOf, Fit, Doc, IInv
    <3>2. index'[k] = index[k]
      BY <3>1, <2>2, <1>1, CachedFit DEF Fit, IInv, updateIndices, deleteIndices
    <3>3. \A r \in editing : k \in heap[ref[r]].h => k \in heap'[rf[r]].h
      BY <3>1, <2>2, <1>1, <1>3, <1>4, CachedFit
      DEF IInv, Shape, TypeOK, PtrsOK, DocOf, Fit
    <3> QED BY <3>1, <3>2, <3>3 DEF IInv, IndexComplete
  <2> QED BY <2>1, <2>2
<1> QED BY <1>5, <1>6, <1>7 DEF IInv

-----------------------------------------------------------------------------
(* Removal.                                                                *)
LEMMA EvictInv ==
  ASSUME IInv, NEW s \in Sessions, cache[s] # None, Evict(s),
         index' = index \/ index' = deleteIndices(index, DocOf(s))
  PROVE  IInv'
<1>1. Shape'
  BY MemoryStoreAssumption
  DEF IInv, Shape, TypeOK, PtrsOK, DocsOK, IndexOwned, NoLateCallback,
      Evict, DocOf, Write, Reachable, deleteIndices
<1>2. /\ cache' = [cache EXCEPT ![s] = None] /\ pending' = pending \cup {cache[s]}
      /\ ref' = ref /\ editing' = editing /\ left' = [left EXCEPT ![s] = 0]
      /\ \A t \in Sessions : cache[t] # None => heap'[cache[t]] = heap[cache[t]]
      /\ \A x \in pending : heap'[x] = heap[x]
      /\ \A r \in Requests : ref[r] # None => heap'[ref[r]] = heap[ref[r]]
  BY DEF IInv, Shape, TypeOK, Evict, Write, Reachable
<1>3. IndexCovered'
  BY <1>2 DEF IInv, Shape, TypeOK, PtrsOK, IndexCovered, DocOf, deleteIndices
<1>4. IndexComplete'
  <2> SUFFICES ASSUME NEW t \in Sessions, Live(t)', NEW k \in DocOf(t)'.h
               PROVE  index'[k] = t \/ \E q \in editing : k \in heap'[ref[q]].h
    BY <1>2 DEF IndexComplete
  <2>1. t # s /\ Live(t) /\ k \in DocOf(t).h
    BY <1>2 DEF Live, DocOf, IInv, Shape, TypeOK
  <2>2. index'[k] = index[k]
    BY <2>1, CachedFit DEF Fit, Doc, IInv, Live, deleteIndices
  <2> QED BY <2>1, <2>2, <1>2 DEF IInv, Shape, TypeOK, PtrsOK, IndexComplete
<1> QED BY <1>1, <1>3, <1>4 DEF IInv

(* A late callback cannot take the handles of a live session.              *)
LEMMA EvictedInv ==
  ASSUME IInv, NEW p \in Ptrs, Evicted(p)
  PROVE  IInv'
<1>1. Shape'
  BY MemoryStoreAssumption
  DEF IInv, Shape, TypeOK, PtrsOK, DocsOK, IndexOwned, NoLateCallback,
      Evicted, Write, Reachable, deleteIndices
<1>2. /\ cache' = cache /\ pending' = pending \ {p} /\ ref' = ref
      /\ editing' = editing /\ left' = left /\ index' = deleteIndices(index, heap[p])
      /\ \A t \in Sessions : cache[t] # None => heap'[cache[t]] = heap[cache[t]]
      /\ \A x \in pending \ {p} : heap'[x] = heap[x]
      /\ \A r \in Requests : ref[r] # None => heap'[ref[r]] = heap[ref[r]]
  BY DEF IInv, Shape, TypeOK, Evicted, Write, Reachable
<1>3. IndexCovered'
  BY <1>2 DEF IInv, Shape, TypeOK, PtrsOK, IndexCovered, DocOf, deleteIndices
<1>4. IndexComplete'
  <2> SUFFICES ASSUME NEW t \in Sessions, Live(t), NEW k \in DocOf(t).h
               PROVE  index'[k] = t \/ \E q \in editing : k \in heap'[ref[q]].h
    BY <1>2 DEF IndexComplete, Live, DocOf
  <2>1. k \notin heap[p].h /\ k \in Handles
    BY CachedFit
    DEF IInv, Shape, TypeOK, PtrsOK, DocsOK, NoLateCallback, Evicted, Live, Fit, Doc
  <2> QED BY <2>1, <1>2
      DEF IInv, Shape, TypeOK, PtrsOK, IndexComplete, deleteIndices
<1> QED BY <1>1, <1>3, <1>4 DEF IInv

(* Dropping the entry of a session that is gone loses no live handle.      *)
LEMMA DropStaleIndexInv ==
  ASSUME IInv, NEW k \in Handles, DropStaleIndex(k)
  PROVE  IInv'
<1>1. Shape' /\ IndexCovered'
  BY DEF IInv, Shape, TypeOK, PtrsOK, DocsOK, IndexOwned, NoLateCallback,
         IndexCovered, DocOf, DropStaleIndex
<1>2. IndexComplete'
  BY CachedFit
  DEF IInv, Shape, TypeOK, IndexOwned, IndexComplete, Live, DocOf, Fit, Doc,
      DropStaleIndex
<1> QED BY <1>1, <1>2 DEF IInv

(* Time takes sessions out of Live and changes nothing else.               *)
LEMMA TickInv ==
  ASSUME IInv, Tick
  PROVE  IInv'
<1>1. Shape' /\ IndexCovered'
  BY MemoryStoreAssumption
  DEF IInv, Shape, TypeOK, PtrsOK, DocsOK, IndexOwned, NoLateCallback,
      IndexCovered, DocOf, Tick
<1>2. IndexComplete'
  BY MemoryStoreAssumption
  DEF IInv, Shape, TypeOK, IndexComplete, Live, DocOf, Tick
<1> QED BY <1>1, <1>2 DEF IInv

-----------------------------------------------------------------------------
(* The operations that write through the cached pointer.                   *)
LEMMA InPlaceOps ==
  ASSUME IInv, InPlaceRotation = FALSE
  PROVE  /\ \A r \in Requests, k \in Handles : ForfeitAuthorizationCode(r, k) => IInv'
         /\ \A r \in Requests, k \in Handles, key \in Keys :
              RedeemPreAuthorizedCode(r, k, key) => IInv'
         /\ \A k \in Handles : ConsumeTXCodeAttempt(k) \/ Consent(k) => IInv'
         /\ \A s \in Sessions : MarkCodeAsForfeited(s) \/ SetPlainField(s) => IInv'
<1>0. \A s \in Sessions : Live(s) =>
        /\ Fit(DocOf(s), s) /\ Fit(Spent(DocOf(s)), s)
        /\ Spent(DocOf(s)).h = DocOf(s).h
  BY CachedFit DEF IInv, Live, Spent, Fit, Doc
<1>1. ASSUME NEW r \in Requests, NEW k \in Handles, ForfeitAuthorizationCode(r, k)
      PROVE  IInv'
  BY <1>0, <1>1, InPlaceInv DEF ForfeitAuthorizationCode, Live
<1>2. ASSUME NEW r \in Requests, NEW k \in Handles, NEW key \in Keys,
             RedeemPreAuthorizedCode(r, k, key)
      PROVE  IInv'
  <2> DEFINE s == index[k]
             d == DocOf(s)
             e == [sid |-> d.sid, h |-> d.h, forfeited |-> d.forfeited,
                   redeemed |-> d.redeemed \cup {key}, attempts |-> d.attempts]
  <2>1. Live(s) /\ InPlace(s, e, Holds(r, cache[s])) /\ Idle(r)
        /\ UNCHANGED <<index, editing>>
    BY <1>2 DEF RedeemPreAuthorizedCode
  <2>2. s \in Sessions /\ Fit(e, s) /\ e.h = DocOf(s).h
    BY <2>1, <1>0 DEF Live, Fit, Doc
  <2> HIDE DEF e, d, s
  <2> QED BY <2>1, <2>2, InPlaceInv
<1>3. ASSUME NEW k \in Handles, ConsumeTXCodeAttempt(k)
      PROVE  IInv'
  <2> DEFINE s == index[k]
             d == DocOf(s)
             e == [sid |-> d.sid, h |-> d.h, forfeited |-> d.forfeited,
                   redeemed |-> d.redeemed, attempts |-> d.attempts + 1]
             f == IF d.attempts >= MaxTXCodeAttempts THEN Spent(d) ELSE e
  <2>1. Live(s) /\ InPlace(s, f, ref) /\ UNCHANGED <<index, editing>>
    BY <1>3 DEF ConsumeTXCodeAttempt
  <2>2. s \in Sessions /\ Fit(f, s) /\ f.h = DocOf(s).h
    BY <2>1, <1>0, MemoryStoreAssumption DEF Live, Fit, Doc
  <2> HIDE DEF f, e, d, s
  <2> QED BY <2>1, <2>2, InPlaceInv
<1>4. ASSUME NEW k \in Handles, Consent(k)
      PROVE  IInv'
  BY <1>0, <1>4, InPlaceInv DEF Consent, Live
<1>5. ASSUME NEW s \in Sessions, MarkCodeAsForfeited(s) \/ SetPlainField(s)
      PROVE  IInv'
  BY <1>0, <1>5, InPlaceInv DEF MarkCodeAsForfeited, SetPlainField
<1> QED BY <1>1, <1>2, <1>3, <1>4, <1>5

(* AddToken indexes a token that was unseen.                               *)
LEMMA AddTokenInv ==
  ASSUME IInv, InPlaceRotation = FALSE,
         NEW k \in Handles, NEW token \in Handles, AddToken(k, token)
  PROVE  IInv'
<1> DEFINE s == index[k]
           old == DocOf(s)
           d == With(old, Assigned(old.h, {token}))
<1>1. /\ Live(s) /\ s \in Sessions /\ OwnerOf[token] = s /\ Fit(old, s)
      /\ "access_token" \notin FieldsOf(old.h) /\ FieldOf[token] = "access_token"
      /\ InPlace(s, d, ref) /\ UNCHANGED editing /\ index' = updateIndices(index, d)
  BY CachedFit DEF AddToken, Live, IInv
<1>2. /\ d \in Doc /\ d.sid = s /\ old.h \subseteq d.h
      /\ d.h = old.h \cup {token}
  BY <1>1 DEF Fit, With, Assigned, Without, FieldsOf, Doc
<1>3. Fit(d, s)
  BY <1>1, <1>2 DEF Fit, OnePerField, FieldsOf
<1>4. index' = updateIndices(deleteIndices(index, DocOf(s)), d)
  BY <1>1, <1>2 DEF updateIndices, deleteIndices
<1>5. [heap EXCEPT ![cache[s]] = d] = [heap EXCEPT ![cache[s]] = d, ![cache[s]] = d]
  BY DEF IInv, Shape, TypeOK
<1> HIDE DEF d, old, s
<1> QED BY <1>1, <1>3, <1>4, <1>5, RewriteInv DEF InPlace

-----------------------------------------------------------------------------
(* The operations that point the cache at a new struct.                    *)
LEMMA ReplaceByCopyInv ==
  ASSUME IInv, NEW s \in Sessions, ReplaceByCopy(s)
  PROVE  IInv'
<1>1. PICK p \in Free :
        Write([heap EXCEPT ![p] = DocOf(s)], [cache EXCEPT ![s] = p], pending, ref)
  BY DEF ReplaceByCopy, Replace
<1>2. /\ Live(s) /\ Touch(s) /\ UNCHANGED editing /\ Fit(DocOf(s), s)
      /\ index' = updateIndices(index, DocOf(s))
  BY CachedFit DEF ReplaceByCopy, Replace, Live, IInv
<1>3. /\ \A k \in Handles : IF k \in DocOf(s).h THEN index'[k] = s
                             ELSE index'[k] = index[k]
      /\ index' \in [Handles -> Sessions \cup {None}]
  BY <1>2 DEF updateIndices, Fit, IInv, Shape, TypeOK
<1>4. [heap EXCEPT ![p] = DocOf(s)] = [heap EXCEPT ![p] = DocOf(s), ![p] = DocOf(s)]
  BY DEF IInv, Shape, TypeOK
<1> QED BY <1>1, <1>2, <1>3, <1>4, ReplaceInv

(* ClaimAuthSession takes handle and index entry away together.            *)
LEMMA ClaimAuthSessionInv ==
  ASSUME IInv, NEW r \in Requests, NEW k \in Handles, ClaimAuthSession(r, k)
  PROVE  IInv'
<1> DEFINE s == index[k]
           d == With(DocOf(s), Without(DocOf(s).h, {"auth_session"}))
<1>1. /\ Live(s) /\ s \in Sessions /\ k \in DocOf(s).h /\ Touch(s)
      /\ FieldOf[k] = "auth_session" /\ Idle(r)
      /\ UNCHANGED editing /\ index' = [index EXCEPT ![k] = None]
  BY DEF ClaimAuthSession, Live
<1>2. PICK p \in Free, q \in Free :
        Write([heap EXCEPT ![p] = d, ![q] = d], [cache EXCEPT ![s] = p],
              pending, Holds(r, q))
  BY DEF ClaimAuthSession
<1>3. Fit(DocOf(s), s) /\ Fit(d, s)
  BY <1>1, CachedFit, WithoutFit DEF Live, IInv
<1>4. d.h = DocOf(s).h \ {k}
  BY <1>1, <1>3 DEF With, Without, Fit, OnePerField
<1>5. /\ index' \in [Handles -> Sessions \cup {None}]
      /\ \A j \in Handles : IF j = k THEN index'[j] = None ELSE index'[j] = index[j]
      /\ r \notin editing
  BY <1>1 DEF IInv, Shape, TypeOK, PtrsOK, Idle
<1> HIDE DEF d, s
<1> QED BY <1>1, <1>2, <1>3, <1>4, <1>5, ReplaceInv

(* ClaimIssuerState replaces the document and every index entry of the old *)
(* one.                                                                    *)
LEMMA ClaimIssuerStateInv ==
  ASSUME IInv, NEW r \in Requests, NEW k \in Handles, NEW new,
         ClaimIssuerState(r, k, new)
  PROVE  IInv'
<1> DEFINE s == index[k]
           d == With(heap[ref[r]],
                     Assigned(Without(heap[ref[r]].h, {"issuer_state"}), new))
<1>1. /\ Live(s) /\ s \in Sessions /\ k \in DocOf(s).h /\ Touch(s)
      /\ ref[r] # None /\ heap[ref[r]].sid = s /\ r \notin editing
      /\ new \in Minted(s, {"auth_session", "ephemeral_key_id"})
      /\ UNCHANGED editing
  BY DEF ClaimIssuerState, Live, Idle
<1>2. PICK p \in Free, q \in Free :
        Write([heap EXCEPT ![p] = d, ![q] = d], [cache EXCEPT ![s] = p],
              pending, Holds(r, q))
  BY DEF ClaimIssuerState
<1>3. Fit(d, s) /\ Fit(DocOf(s), s)
  BY <1>1, HeldFit, CachedFit, AssignedFit DEF Live, IInv
<1>4. index' = updateIndices([deleteIndices(index, DocOf(s)) EXCEPT ![k] = None], d)
  BY DEF ClaimIssuerState
<1> HIDE DEF d
<1>5. /\ index' \in [Handles -> Sessions \cup {None}]
      /\ \A j \in Handles : index'[j] = IF j \in d.h THEN s
                                         ELSE IF j \in DocOf(s).h THEN None ELSE index[j]
  BY <1>1, <1>3, <1>4 DEF IInv, Shape, TypeOK, updateIndices, deleteIndices, Fit
<1> HIDE DEF s
<1> QED BY <1>1, <1>2, <1>3, <1>5, ReplaceInv

(* ResumeIssuerState does the same through the cached pointer.             *)
LEMMA ResumeIssuerStateInv ==
  ASSUME IInv, NEW r \in Requests, NEW k \in Handles, NEW new,
         ResumeIssuerState(r, k, new)
  PROVE  IInv'
<1> DEFINE s == index[k]
           d == With(DocOf(s), Assigned(Without(DocOf(s).h,
                       {"issuer_state", "auth_session", "ephemeral_key_id"}), new))
<1>1. /\ Live(s) /\ s \in Sessions /\ Touch(s) /\ Idle(r) /\ UNCHANGED editing
      /\ new \in Minted(s, {"auth_session", "ephemeral_key_id"})
      /\ index' = updateIndices(deleteIndices(index, DocOf(s)), d)
  BY DEF ResumeIssuerState, Live
<1>2. PICK q \in Free :
        Write([heap EXCEPT ![cache[s]] = d, ![q] = d], cache, pending, Holds(r, q))
  BY DEF ResumeIssuerState
<1>3. Fit(d, s)
  BY <1>1, CachedFit, AssignedFit DEF Live, IInv
<1> HIDE DEF d, s
<1> QED BY <1>1, <1>2, <1>3, RewriteInv

(* RotateRefreshToken swaps the document for a copy with the new tokens.   *)
LEMMA RotateRefreshTokenInv ==
  ASSUME IInv, NEW r \in Requests, NEW k \in Handles, NEW new,
         RotateRefreshToken(r, k, new)
  PROVE  IInv'
<1> DEFINE s == index[k]
           d == With(heap[ref[r]], Assigned(heap[ref[r]].h, new))
<1>1. /\ Live(s) /\ s \in Sessions /\ Touch(s)
      /\ ref[r] # None /\ heap[ref[r]].sid = s /\ r \notin editing
      /\ new \in Minted(s, {"access_token", "refresh_token"})
      /\ UNCHANGED editing
      /\ index' = updateIndices(deleteIndices(index, DocOf(s)), d)
  BY DEF RotateRefreshToken, Replace, Live, Idle
<1>2. PICK p \in Free :
        Write([heap EXCEPT ![p] = d], [cache EXCEPT ![s] = p], pending, Holds(r, None))
  BY DEF RotateRefreshToken, Replace
<1>3. Fit(d, s) /\ Fit(DocOf(s), s)
  <2>1. Without(heap[ref[r]].h, {}) = heap[ref[r]].h
    BY DEF Without
  <2> QED BY <2>1, <1>1, HeldFit, CachedFit, AssignedFit DEF Live, IInv
<1> HIDE DEF d
<1>4. /\ index' \in [Handles -> Sessions \cup {None}]
      /\ \A j \in Handles : index'[j] = IF j \in d.h THEN s
                                         ELSE IF j \in DocOf(s).h THEN None ELSE index[j]
  BY <1>1, <1>3 DEF IInv, Shape, TypeOK, updateIndices, deleteIndices, Fit
<1>5. [heap EXCEPT ![p] = d] = [heap EXCEPT ![p] = d, ![p] = d]
  BY DEF IInv, Shape, TypeOK
<1> HIDE DEF s
<1> QED BY <1>1, <1>2, <1>3, <1>4, <1>5, ReplaceInv

-----------------------------------------------------------------------------
(* Every step of the store, of a request, of the cleaner and of a callback *)
(* preserves the invariant.                                                *)
LEMMA NextInv ==
  ASSUME IInv, InPlaceRotation = FALSE, [Next]_vars
  PROVE  IInv'
<1>1. ASSUME NEW r \in Requests, RequestStep(r) PROVE IInv'
  <2>1. ASSUME NEW s \in Sessions, GetByID(r, s) \/ GetSnapshot(r, s) PROVE IInv'
    BY <2>1, GetByIDInv, GetSnapshotInv
  <2>2. ASSUME NEW k \in Handles, GetByHandle(r, k) PROVE IInv'
    BY <2>2, GetByIDInv DEF GetByHandle, IInv, Shape, TypeOK
  <2>3. ASSUME NEW k \in Handles,
               Fill(r, k) \/ ForfeitAuthorizationCode(r, k) \/ ClaimAuthSession(r, k)
               \/ \E key \in Keys : RedeemPreAuthorizedCode(r, k, key)
        PROVE IInv'
    BY <2>3, FillInv, InPlaceOps, ClaimAuthSessionInv
  <2>4. ASSUME NEW k \in Handles, NEW new,
               \/ ClaimIssuerState(r, k, new) \/ ResumeIssuerState(r, k, new)
               \/ RotateRefreshToken(r, k, new)
        PROVE IInv'
    BY <2>4, ClaimIssuerStateInv, ResumeIssuerStateInv, RotateRefreshTokenInv
  <2>5. ASSUME Update(r) \/ Return(r) PROVE IInv'
    BY <2>5, UpdateInv, ReturnInv
  <2> QED BY <1>1, <2>1, <2>2, <2>3, <2>4, <2>5 DEF RequestStep
<1>2. ASSUME StoreStep PROVE IInv'
  <2>1. ASSUME NEW s \in Sessions, NEW hs, Save(s, hs) PROVE IInv'
    BY <2>1, SaveInv
  <2>2. ASSUME NEW s \in Sessions,
               MarkCodeAsForfeited(s) \/ SetPlainField(s) \/ ReplaceByCopy(s)
        PROVE IInv'
    BY <2>2, InPlaceOps, ReplaceByCopyInv
  <2>3. ASSUME NEW s \in Sessions, Delete(s) \/ Sweep(s) PROVE IInv'
    BY <2>3, EvictInv DEF Delete, Sweep
  <2>4. ASSUME NEW k \in Handles,
               ConsumeTXCodeAttempt(k) \/ Consent(k) \/ DropStaleIndex(k)
        PROVE IInv'
    BY <2>4, InPlaceOps, DropStaleIndexInv
  <2>5. ASSUME NEW k \in Handles, NEW token \in Handles, AddToken(k, token)
        PROVE IInv'
    BY <2>5, AddTokenInv
  <2>6. ASSUME NEW p \in Ptrs, Evicted(p) PROVE IInv'
    BY <2>6, EvictedInv
  <2> QED BY <1>2, <2>1, <2>2, <2>3, <2>4, <2>5, <2>6, TickInv DEF StoreStep
<1>3. ASSUME UNCHANGED vars PROVE IInv'
  BY <1>3
  DEF vars, IInv, Shape, TypeOK, PtrsOK, DocsOK, IndexOwned, NoLateCallback,
      IndexCovered, IndexComplete, Live, DocOf
<1> QED BY <1>1, <1>2, <1>3 DEF Next

(* While requests only fill the empty handle fields of documents they      *)
(* fetched, every entry of the secondary indices leads to a document that  *)
(* carries the handle, or to one whose eviction callback is still due,     *)
(* whatever the interleaving of requests, cleaner and callbacks.           *)
THEOREM IndicesFollowDocuments ==
  ASSUME InPlaceRotation = FALSE
  PROVE  Spec => []IndexCovered
<1>1. Init => IInv
  BY InitInv
<1>2. IInv /\ [Next]_vars => IInv'
  BY NextInv
<1>3. IInv => IndexCovered
  BY DEF IInv
<1> QED BY <1>1, <1>2, <1>3, PTL DEF Spec

(* Under the same condition no handle of a live session is lost: it        *)
(* resolves, or the request that wrote it has still to Update the store.   *)
THEOREM LiveHandlesIndexed ==
  ASSUME InPlaceRotation = FALSE
  PROVE  Spec => []IndexComplete
<1>1. Init => IInv
  BY InitInv
<1>2. IInv /\ [Next]_vars => IInv'
  BY NextInv
<1>3. IInv => IndexComplete
  BY DEF IInv
<1> QED BY <1>1, <1>2, <1>3, PTL DEF Spec

(* Type correctness of MemoryStore, from the same invariant.               *)
THEOREM StoreTypeCorrect ==
  ASSUME InPlaceRotation = FALSE
  PROVE  Spec => []TypeOK
<1>1. Init => IInv
  BY InitInv
<1>2. IInv /\ [Next]_vars => IInv'
  BY NextInv
<1>3. IInv => TypeOK
  BY DEF IInv, Shape
<1> QED BY <1>1, <1>2, <1>3, PTL DEF Spec
=============================================================================
