-------------------------- MODULE VerifierOPProofs --------------------------
(***************************************************************************)
(* Proofs about VerifierOP: type correctness and the presentation behind   *)
(* every signed token for both stores; one token answer per code for the   *)
(* memory store; for MongoDB, that a poll answered code_issued has the     *)
(* code, and how long the retention must be for no code to be lost to it.  *)
(***************************************************************************)
EXTENDS VerifierOP, TLAPS

(* A request that is under way has its own copy of the context when the    *)
(* store is MongoDB; before /authorize nothing is under way.               *)
CopyOK ==
  /\ \A r \in Requests :
       (Backend # "memory" /\ pc[r] # "idle") => copy[r] \in Doc
  /\ session = "none" => /\ index = {}
                         /\ \A r \in Requests : pc[r] = "idle"

(* A request redeems a code.                                               *)
ArgOK == \A r \in Requests :
           pc[r] \in {"redeeming", "forfeited", "signing"} => arg[r] \in Codes

Shape == TypeOK /\ CopyOK /\ ArgOK

(* The conjuncts that only the bookkeeping of a handler touches.           *)
Books ==
  /\ arg \in [Requests -> Codes \cup {None}]
  /\ posts \in 0..MaxPosts
  /\ minted \subseteq Codes
  /\ redeemed \subseteq Codes
  /\ replayed \subseteq redeemed

(* The conjuncts that the store operations touch.                          *)
StoreOK ==
  /\ now \in 0..MaxTime
  /\ session \in {"none", "stored", "evicted"}
  /\ doc \in Doc
  /\ keep \in Nat
  /\ index \subseteq Codes
  /\ pc \in [Requests -> Steps]
  /\ copy \in [Requests -> Doc \cup {None}]
  /\ age \in [Requests -> 0..Latency]
  /\ lease \in Nat
  /\ polled \in [status : Statuses \cup {"none", "expired", "not_found"},
                 code : Codes \cup {None}]
  /\ CopyOK

(* The shape splits into what the store, the bookkeeping and the argument  *)
(* need.                                                                   *)
LEMMA ShapeParts == ASSUME Shape PROVE StoreOK /\ Books /\ ArgOK
  BY DEF Shape, TypeOK, StoreOK, Books

(* And is put together again from them.                                    *)
LEMMA ShapeNext == ASSUME StoreOK', Books', ArgOK' PROVE Shape'
  BY DEF Shape, TypeOK, StoreOK, Books

(* A request under way works on a context.                                 *)
LEMMA MineIsDoc ==
  ASSUME StoreOK, NEW r \in Requests, pc[r] # "idle"
  PROVE  Mine(r) \in Doc
  BY DEF StoreOK, CopyOK, Mine

(* authContextRetention is a time.                                         *)
LEMMA RetentionIsNat == authContextRetention \in Nat
  BY VerifierAssumption DEF authContextRetention, Larger

(* So is the retention after an access.                                    *)
LEMMA RenewedIsNat == ASSUME StoreOK PROVE Renewed \in Nat
  BY RetentionIsNat, VerifierAssumption DEF StoreOK, Renewed

(* Authorize stores a context.                                             *)
LEMMA NewDocIsDoc == ASSUME NEW t \in Nat PROVE NewDoc(t) \in Doc
  BY VerifierAssumption DEF NewDoc, Doc, Statuses

(* What the handlers assign keeps the document a document, and none of     *)
(* them but the token endpoint touches the mark of a used code.            *)
LEMMA FieldWrites ==
  ASSUME NEW d \in Doc, NEW b \in BOOLEAN, NEW st \in Statuses,
         NEW c \in Codes, NEW t \in Nat
  PROVE  /\ SetShow(d, b) \in Doc
         /\ SetStatus(d, st) \in Doc
         /\ SetPresented(d, st, t) \in Doc
         /\ SetCode(d, c, t) \in Doc
         /\ SetForfeited(d) \in Doc
  BY DEF Doc, SetShow, SetStatus, SetPresented, SetCode, SetForfeited

(* The shape holds before /authorize.                                      *)
LEMMA InitShape == Init => Shape
  BY NewDocIsDoc, VerifierAssumption DEF Init, Shape, TypeOK, CopyOK, ArgOK, Steps

(* A Get keeps the store well-formed.                                      *)
LEMMA FetchStore ==
  ASSUME StoreOK, NEW r \in Requests, NEW s \in Steps, Fetch(r, s)
  PROVE  StoreOK'
<1>1. keep' \in Nat
  BY RenewedIsNat DEF Fetch
<1>2. copy' \in [Requests -> Doc \cup {None}]
  BY DEF Fetch, StoreOK
<1>3. pc' \in [Requests -> Steps]
  BY DEF Fetch, StoreOK
<1>4. CopyOK'
  BY DEF Fetch, StoreOK, CopyOK, Resolvable
<1> QED  BY <1>1, <1>2, <1>3, <1>4 DEF Fetch, StoreOK

(* Assignments to a fetched context keep the store well-formed.            *)
LEMMA AssignStore ==
  ASSUME StoreOK, NEW r \in Requests, NEW s \in Steps, NEW d \in Doc,
         pc[r] # "idle", Assign(r, d, s)
  PROVE  StoreOK'
<1>1. doc' \in Doc /\ copy' \in [Requests -> Doc \cup {None}]
  BY DEF Assign, StoreOK
<1>2. pc' \in [Requests -> Steps]
  BY DEF Assign, StoreOK
<1>3. CopyOK'
  BY DEF Assign, StoreOK, CopyOK
<1> QED  BY <1>1, <1>2, <1>3 DEF Assign, StoreOK

(* A request that ends, with or without a new document, keeps it so.       *)
LEMMA DoneStore ==
  ASSUME StoreOK, NEW r \in Requests, Done(r), UNCHANGED session,
         (session = "none") => index' = index
  PROVE  /\ pc' \in [Requests -> Steps]
         /\ copy' \in [Requests -> Doc \cup {None}]
         /\ age' \in [Requests -> 0..Latency]
         /\ CopyOK'
<1>1. pc' \in [Requests -> Steps]
  BY DEF Done, StoreOK, Steps
<1>2. copy' \in [Requests -> Doc \cup {None}]
  BY DEF Done, StoreOK
<1>3. age' \in [Requests -> 0..Latency]
  BY VerifierAssumption DEF Done, StoreOK
<1>4. CopyOK'
  BY DEF Done, StoreOK, CopyOK
<1> QED  BY <1>1, <1>2, <1>3, <1>4

(* A request that ends without a write keeps it so.                        *)
LEMMA LeaveStore ==
  ASSUME StoreOK, NEW r \in Requests, Leave(r)
  PROVE  StoreOK'
<1>1. Done(r) /\ UNCHANGED <<now, session, doc, keep, index, lease, polled>>
  BY DEF Leave
<1> QED  BY <1>1, DoneStore DEF StoreOK

(* An Update keeps it so.                                                  *)
LEMMA PutStore ==
  ASSUME StoreOK, NEW r \in Requests, NEW d \in Doc, Put(r, d)
  PROVE  StoreOK'
<1>1. Done(r) /\ UNCHANGED <<now, session, polled>>
  BY DEF Put
<1>2. doc' \in Doc
  BY DEF Put, StoreOK
<1>3. keep' \in Nat /\ lease' \in Nat /\ index' \subseteq Codes
  BY RenewedIsNat DEF Put, StoreOK, Larger, Doc
<1>4. (session = "none") => index' = index
  BY DEF Put, Resolvable
<1> QED  BY <1>1, <1>2, <1>3, <1>4, DoneStore DEF StoreOK

-----------------------------------------------------------------------------
(* Only the token endpoint works with a code, from its lookup to its       *)
(* answer.                                                                 *)
LEMMA HandlerArg ==
  ASSUME StoreOK, Books, ArgOK, NEW r \in Requests, Handler(r)
  PROVE  ArgOK'
<1>1. CASE \E c \in Codes : LookupCode(r, c)
  BY <1>1 DEF LookupCode, Fetch, ArgOK, StoreOK, Books
<1>2. CASE MarkCodeAsForfeited(r)
  BY <1>2 DEF MarkCodeAsForfeited, Leave, Done, ArgOK, StoreOK, Books
<1>3. CASE SignIDToken(r)
  BY <1>3 DEF SignIDToken, Assign, ArgOK, StoreOK, Books
<1>4. CASE \/ RejectPost(r) \/ RefuseToken(r)
           \/ Save(r) \/ Cancel(r) \/ AnswerToken(r)
  <2>1. Done(r)
    BY <1>4 DEF RejectPost, RefuseToken, Leave, Save, Cancel, AnswerToken, Put
  <2> QED  BY <2>1 DEF Done, ArgOK, StoreOK, Books
<1>5. CASE AcceptPost(r) \/ MintCode(r) \/ Confirm(r)
  BY <1>5 DEF AcceptPost, MintCode, Confirm, Assign, ArgOK, StoreOK, Books
<1>6. CASE ReceivePost(r) \/ OpenDisplay(r)
  BY <1>6 DEF ReceivePost, OpenDisplay, Fetch, ArgOK, StoreOK, Books
<1>7. CASE \/ GetOIDCRequestObject(r) \/ UpdateSessionPreference(r)
           \/ ProcessCallback(r)
  BY <1>7 DEF GetOIDCRequestObject, UpdateSessionPreference, ProcessCallback,
     Fetch, Put, Done, ArgOK, StoreOK, Books
<1> QED
  BY <1>1, <1>2, <1>3, <1>4, <1>5, <1>6, <1>7 DEF Handler

(* Every step of a handler preserves the shape.                            *)
LEMMA HandlerShape ==
  ASSUME Shape, NEW r \in Requests, Handler(r)
  PROVE  Shape'
<1>0. StoreOK /\ Books /\ now \in Nat /\ doc \in Doc
  BY ShapeParts, VerifierAssumption DEF StoreOK
<1>a. ArgOK'
  BY ShapeParts, HandlerArg
<1>m. pc[r] # "idle" => Mine(r) \in Doc
  BY <1>0, MineIsDoc
<1>f. Steps = {"idle", "request_object", "show", "hide", "callback", "verifying",
          "confirming", "cancelling", "minting", "saving",
          "redeeming", "forfeited", "signing"}
  BY DEF Steps
<1>s. ASSUME NEW st \in Statuses, pc[r] # "idle"
      PROVE  SetStatus(Mine(r), st) \in Doc
  BY <1>m, <1>s DEF Doc, SetStatus
<1>1. CASE GetOIDCRequestObject(r)
  <2>1. StoreOK'
    BY <1>0, <1>1, <1>m, <1>f, FetchStore, PutStore DEF GetOIDCRequestObject
  <2>2. Books'
    BY <1>0, <1>1 DEF GetOIDCRequestObject, Books, Put, Done, Fetch
  <2> QED  BY <2>1, <2>2, <1>a, ShapeNext
<1>2. CASE UpdateSessionPreference(r)
  <2>1. StoreOK'
    <3>1. CASE \E s \in {"show", "hide"} : Fetch(r, s)
      BY <1>0, <1>f, <3>1, FetchStore
    <3>2. CASE pc[r] # "idle" /\ Put(r, SetShow(Mine(r), pc[r] = "show"))
      <4>1. SetShow(Mine(r), pc[r] = "show") \in Doc
        BY <1>m, <3>2 DEF Doc, SetShow
      <4> QED  BY <1>0, <3>2, <4>1, PutStore
    <3> QED  BY <1>2, <3>1, <3>2 DEF UpdateSessionPreference
  <2>2. Books'
    BY <1>0, <1>2 DEF UpdateSessionPreference, Books, Put, Done, Fetch
  <2> QED  BY <2>1, <2>2, <1>a, ShapeNext
<1>3. CASE ProcessCallback(r)
  <2>1. StoreOK'
    <3>1. pc[r] = "callback" => SetStatus(Mine(r), "error") \in Doc
      BY <1>s DEF Statuses
    <3> QED  BY <1>0, <1>f, <1>3, <3>1, FetchStore, PutStore DEF ProcessCallback
  <2>2. Books'
    BY <1>0, <1>3 DEF ProcessCallback, Books, Put, Done, Fetch
  <2> QED  BY <2>1, <2>2, <1>a, ShapeNext
<1>4. CASE ReceivePost(r)
  <2>1. StoreOK'
    BY <1>0, <1>f, <1>4, FetchStore DEF ReceivePost
  <2>2. Books'
    BY <1>0, <1>4, VerifierAssumption DEF ReceivePost, Books, Fetch
  <2> QED  BY <2>1, <2>2, <1>a, ShapeNext
<1>5. CASE RejectPost(r) \/ RefuseToken(r)
  <2>1. Leave(r)
    BY <1>5 DEF RejectPost, RefuseToken
  <2>2. StoreOK'
    BY <1>0, <2>1, LeaveStore
  <2>3. Books'
    BY <1>0, <2>1 DEF Leave, Done, Books
  <2> QED  BY <2>2, <2>3, <1>a, ShapeNext
<1>6. CASE AcceptPost(r)
  <2>1. StoreOK'
    <3>1. pc[r] # "idle" /\ Mine(r) \in Doc
      BY <1>6, <1>m DEF AcceptPost
    <3>2. SetPresented(Mine(r), "awaiting_presentation",
                       now + PresentationTimeout) \in Doc
      BY <1>0, <3>1, VerifierAssumption DEF Doc, SetPresented, Statuses
    <3>3. SetPresented(Mine(r), "code_issued", Mine(r).expiresAt) \in Doc
      BY <3>1 DEF Doc, SetPresented, Statuses
    <3> QED  BY <1>0, <1>f, <1>6, <3>1, <3>2, <3>3, AssignStore DEF AcceptPost
  <2>2. Books'
    BY <1>0, <1>6 DEF AcceptPost, Assign, Books
  <2> QED  BY <2>1, <2>2, <1>a, ShapeNext
<1>7. CASE MintCode(r)
  <2>1. PICK c \in Codes :
          /\ minted' = minted \cup {c}
          /\ Assign(r, SetCode(Mine(r), c, now + CodeDuration), "saving")
    BY <1>7 DEF MintCode
  <2>2. StoreOK'
    <3>1. pc[r] # "idle" /\ Mine(r) \in Doc
      BY <1>7, <1>m DEF MintCode
    <3>2. SetCode(Mine(r), c, now + CodeDuration) \in Doc
      BY <1>0, <3>1, VerifierAssumption DEF Doc, SetCode
    <3> QED  BY <1>0, <1>f, <2>1, <3>1, <3>2, AssignStore
  <2>3. Books'
    BY <1>0, <2>1 DEF Assign, Books
  <2> QED  BY <2>2, <2>3, <1>a, ShapeNext
<1>8. CASE Save(r)
  <2>1. StoreOK'
    BY <1>0, <1>8, <1>m, PutStore DEF Save
  <2>2. Books'
    BY <1>0, <1>8 DEF Save, Books, Put, Done
  <2> QED  BY <2>1, <2>2, <1>a, ShapeNext
<1>9. CASE OpenDisplay(r)
  <2>1. StoreOK'
    BY <1>0, <1>f, <1>9, FetchStore DEF OpenDisplay
  <2>2. Books'
    BY <1>0, <1>9 DEF OpenDisplay, Books, Fetch
  <2> QED  BY <2>1, <2>2, <1>a, ShapeNext
<1>10. CASE Confirm(r) \/ SignIDToken(r)
  <2>1. PICK st \in Statuses, s \in Steps :
          Assign(r, SetStatus(Mine(r), st), s) /\ UNCHANGED minted
    BY <1>10 DEF Confirm, SignIDToken, Statuses, Steps
  <2>2. pc[r] # "idle"
    BY <1>10 DEF Confirm, SignIDToken
  <2>3. SetStatus(Mine(r), st) \in Doc
    BY <1>s, <2>2
  <2>4. StoreOK'
    BY <1>0, <2>1, <2>2, <2>3, AssignStore
  <2>5. Books'
    BY <1>0, <2>1 DEF Assign, Books
  <2> QED  BY <2>4, <2>5, <1>a, ShapeNext
<1>11. CASE Cancel(r)
  <2>1. SetStatus(Mine(r), "error") \in Doc
    BY <1>s, <1>11 DEF Cancel, Statuses
  <2>2. StoreOK'
    BY <1>0, <1>11, <2>1, PutStore DEF Cancel
  <2>3. Books'
    BY <1>0, <1>11 DEF Cancel, Books, Put, Done
  <2> QED  BY <2>2, <2>3, <1>a, ShapeNext
<1>12. CASE \E c \in Codes : LookupCode(r, c)
  <2>1. PICK c \in Codes : LookupCode(r, c)
    BY <1>12
  <2>2. StoreOK'
    BY <1>0, <1>f, <2>1, FetchStore DEF LookupCode
  <2>3. Books'
    BY <1>0, <2>1 DEF LookupCode, Books, Fetch
  <2> QED  BY <2>2, <2>3, <1>a, ShapeNext
<1>13. CASE MarkCodeAsForfeited(r)
  <2>1. CASE Leave(r)
    <3>1. StoreOK'
      BY <1>0, <2>1, LeaveStore
    <3>2. Books'
      BY <1>0, <2>1 DEF Leave, Done, Books
    <3> QED  BY <3>1, <3>2, <1>a, ShapeNext
  <2>2. CASE ~Leave(r)
    <3>1. /\ pc[r] = "redeeming"
          /\ doc' = SetForfeited(doc)
          /\ keep' = Renewed
          /\ pc' = [pc EXCEPT ![r] = "forfeited"]
          /\ UNCHANGED <<now, session, index, copy, age, arg, posts, minted,
                         lease, redeemed, replayed, polled>>
      BY <1>13, <2>2 DEF MarkCodeAsForfeited
    <3>2. doc' \in Doc
      BY <1>0, <3>1 DEF SetForfeited, Doc
    <3>3. keep' \in Nat
      BY <1>0, <3>1, RenewedIsNat
    <3>4. pc' \in [Requests -> Steps]
      BY <1>0, <1>f, <3>1 DEF StoreOK
    <3>5. CopyOK'
      BY <1>0, <3>1 DEF StoreOK, CopyOK
    <3>6. StoreOK'
      BY <1>0, <3>1, <3>2, <3>3, <3>4, <3>5 DEF StoreOK
    <3>7. Books'
      BY <1>0, <3>1 DEF Books
    <3> QED  BY <3>6, <3>7, <1>a, ShapeNext
  <2> QED  BY <2>1, <2>2
<1>14. CASE AnswerToken(r)
  <2>1. StoreOK'
    BY <1>0, <1>14, <1>m, PutStore DEF AnswerToken
  <2>2. Books'
    <3>1. arg[r] \in Codes
      BY ShapeParts, <1>14 DEF ArgOK, AnswerToken
    <3> QED  BY <1>0, <1>14, <3>1 DEF AnswerToken, Books, Put, Done
  <2> QED  BY <2>1, <2>2, <1>a, ShapeNext
<1> QED
  BY <1>1, <1>2, <1>3, <1>4, <1>5, <1>6, <1>7, <1>8, <1>9, <1>10, <1>11,
     <1>12, <1>13, <1>14 DEF Handler

(* Every step preserves the shape.                                         *)
LEMMA StepShape == Shape /\ [Next]_vars => Shape'
<1> SUFFICES ASSUME Shape, [Next]_vars PROVE Shape'
  OBVIOUS
<1>0. StoreOK /\ Books /\ ArgOK /\ now \in Nat /\ doc \in Doc
  BY ShapeParts, VerifierAssumption DEF StoreOK
<1>1. CASE \E r \in Requests : Handler(r)
  BY <1>1, HandlerShape
<1>2. CASE Authorize
  <2>1. doc' \in Doc /\ keep' \in Nat
    BY <1>0, <1>2, NewDocIsDoc, RetentionIsNat DEF Authorize
  <2>2. CopyOK'
    BY <1>0, <1>2 DEF Authorize, StoreOK, CopyOK
  <2>3. StoreOK'
    BY <1>0, <1>2, <2>1, <2>2 DEF Authorize, StoreOK
  <2>4. Books' /\ ArgOK'
    BY <1>0, <1>2 DEF Authorize, Books, ArgOK
  <2> QED  BY <2>3, <2>4, ShapeNext
<1>3. CASE PollSession
  <2>1. keep' \in Nat
    BY <1>0, <1>3, RenewedIsNat DEF PollSession, StoreOK
  <2>2. polled' \in [status : Statuses \cup {"none", "expired", "not_found"},
                     code : Codes \cup {None}]
    BY <1>0, <1>3 DEF PollSession, Doc
  <2>3. CopyOK'
    BY <1>0, <1>3 DEF PollSession, StoreOK, CopyOK
  <2>4. StoreOK'
    BY <1>0, <1>3, <2>1, <2>2, <2>3 DEF PollSession, StoreOK
  <2>5. Books' /\ ArgOK'
    BY <1>0, <1>3 DEF PollSession, Books, ArgOK
  <2> QED  BY <2>4, <2>5, ShapeNext
<1>4. CASE Evict
  <2>1. CopyOK'
    BY <1>0, <1>4 DEF Evict, StoreOK, CopyOK
  <2>2. StoreOK'
    BY <1>0, <1>4, <2>1 DEF Evict, StoreOK
  <2>3. Books' /\ ArgOK'
    BY <1>0, <1>4 DEF Evict, Books, ArgOK
  <2> QED  BY <2>2, <2>3, ShapeNext
<1>5. CASE Tick
  <2>1. now' \in 0..MaxTime /\ age' \in [Requests -> 0..Latency]
    BY <1>0, <1>5, VerifierAssumption DEF Tick, StoreOK
  <2>2. CopyOK'
    BY <1>0, <1>5 DEF Tick, StoreOK, CopyOK
  <2>3. StoreOK'
    BY <1>0, <1>5, <2>1, <2>2 DEF Tick, StoreOK
  <2>4. Books' /\ ArgOK'
    BY <1>0, <1>5 DEF Tick, Books, ArgOK
  <2> QED  BY <2>3, <2>4, ShapeNext
<1>6. CASE UNCHANGED vars
  BY <1>6 DEF vars, Shape, TypeOK, CopyOK, ArgOK
<1> QED
  BY <1>1, <1>2, <1>3, <1>4, <1>5, <1>6 DEF Next

(* TypeOK is an invariant, for both stores and every bound.                *)
THEOREM VerifierTypeCorrect == Spec => []TypeOK
<1>1. Shape => TypeOK
  BY DEF Shape
<1> QED  BY <1>1, InitShape, StepShape, PTL DEF Spec

-----------------------------------------------------------------------------
(* The presentation behind a code: a context with a code, or one that      *)
(* waits for the confirmation of its display, holds a presentation, and so *)
(* does the context of a request on its way from there to the token.       *)
Backed(d) == (d.code # None \/ d.status = "awaiting_presentation") => d.vp

Presented ==
  /\ Backed(doc)
  /\ (Backend = "memory" /\ index # {}) => doc.vp
  /\ \A r \in Requests : pc[r] # "idle" => Backed(Mine(r))
  /\ \A r \in Requests :
       pc[r] \in {"confirming", "minting", "saving",
                  "redeeming", "forfeited", "signing"} => Mine(r).vp

(* Nothing was presented at the start, and nothing claims it was.          *)
LEMMA InitPresented == Init => Presented
  BY DEF Init, Presented, Backed, NewDoc

(* Writes to fields other than vp that keep a context backed.              *)
LEMMA BackedWrites ==
  ASSUME NEW d \in Doc, Backed(d), NEW b \in BOOLEAN,
         NEW st \in {"error", "code_issued", "token_issued"}
  PROVE  /\ Backed(SetShow(d, b)) /\ SetShow(d, b).vp = d.vp
         /\ Backed(SetStatus(d, st)) /\ SetStatus(d, st).vp = d.vp
         /\ Backed(SetForfeited(d)) /\ SetForfeited(d).vp = d.vp
  BY DEF Backed, SetShow, SetStatus, SetForfeited

(* A fetch that leads to one of the steps above starts from a backed       *)
(* context that holds a presentation.                                      *)
LEMMA FetchPresented ==
  ASSUME Shape, Presented, NEW r \in Requests, NEW s \in Steps, Fetch(r, s),
         s \in {"confirming", "redeeming"} => doc.vp,
         s \notin {"minting", "saving", "forfeited", "signing"}
  PROVE  Presented'
<1>1. StoreOK
  BY ShapeParts
<1>2. UNCHANGED <<doc, index>>
  BY DEF Fetch
<1>3. ASSUME NEW q \in Requests, q # r
      PROVE  pc'[q] = pc[q] /\ Mine(q)' = Mine(q)
  BY <1>1, <1>3 DEF Fetch, Mine, StoreOK
<1>4. pc'[r] = s /\ Mine(r)' = doc
  BY <1>1 DEF Fetch, Mine, StoreOK
<1>5. Backed(doc)' /\ ((Backend = "memory" /\ index # {}) => doc.vp)'
  BY <1>2 DEF Presented, Backed
<1>6. \A q \in Requests : pc'[q] # "idle" => Backed(Mine(q)')
  BY <1>3, <1>4 DEF Presented
<1>7. \A q \in Requests :
        pc'[q] \in {"confirming", "minting", "saving",
                    "redeeming", "forfeited", "signing"} => Mine(q)'.vp
  BY <1>3, <1>4 DEF Presented
<1> QED  BY <1>5, <1>6, <1>7 DEF Presented, Backed

(* An assignment of a backed context that does not lose the presentation.  *)
LEMMA AssignPresented ==
  ASSUME Shape, Presented, NEW r \in Requests, NEW s \in Steps, NEW d \in Doc,
         pc[r] # "idle", Assign(r, d, s), Backed(d), Mine(r).vp => d.vp, d.vp
  PROVE  Presented'
<1>1. StoreOK
  BY ShapeParts
<1>2. CASE Backend = "memory"
  <2>1. doc' = d /\ index' = index /\ \A q \in Requests : Mine(q)' = d
    BY <1>2 DEF Assign, Mine
  <2> QED  BY <2>1 DEF Presented, Backed
<1>3. CASE Backend # "memory"
  <2>1. doc' = doc /\ index' = index
    BY <1>3 DEF Assign
  <2>2. ASSUME NEW q \in Requests, q # r
        PROVE  pc'[q] = pc[q] /\ Mine(q)' = Mine(q)
    BY <1>1, <1>3, <2>2 DEF Assign, Mine, StoreOK
  <2>3. Mine(r)' = d
    BY <1>1, <1>3 DEF Assign, Mine, StoreOK
  <2>4. Backed(doc)' /\ ((Backend = "memory" /\ index # {}) => doc.vp)'
    BY <2>1 DEF Presented, Backed
  <2>5. \A q \in Requests : pc'[q] # "idle" => Backed(Mine(q)')
    BY <2>2, <2>3 DEF Presented
  <2>6. \A q \in Requests :
          pc'[q] \in {"confirming", "minting", "saving",
                      "redeeming", "forfeited", "signing"} => Mine(q)'.vp
    BY <2>2, <2>3 DEF Presented
  <2> QED  BY <2>4, <2>5, <2>6 DEF Presented, Backed
<1> QED  BY <1>2, <1>3

(* A request ends, leaving the store as it was or with its own context.    *)
LEMMA EndPresented ==
  ASSUME Shape, Presented, NEW r \in Requests, NEW d \in Doc, pc[r] # "idle",
         Backed(d), Mine(r).vp = d.vp, Leave(r) \/ Put(r, d)
  PROVE  Presented'
<1>1. StoreOK /\ Done(r)
  BY ShapeParts DEF Leave, Put
<1>2. pc'[r] = "idle"
  BY <1>1 DEF Done, StoreOK
<1>3. ASSUME NEW q \in Requests, q # r
      PROVE  pc'[q] = pc[q] /\ copy'[q] = copy[q]
  BY <1>1, <1>3 DEF Done, StoreOK
<1>4. CASE Backend = "memory"
  <2>1. /\ doc' \in {doc, d}
        /\ doc'.vp = doc.vp
        /\ index' \subseteq index \cup ({doc'.code} \ {None})
        /\ \A q \in Requests : Mine(q)' = doc'
    BY <1>4 DEF Leave, Put, Mine
  <2>2. Backed(doc')
    BY <2>1 DEF Presented
  <2>3. \A q \in Requests :
          pc'[q] \in {"confirming", "minting", "saving",
                      "redeeming", "forfeited", "signing"} => doc'.vp
    BY <1>2, <1>3, <1>4, <2>1 DEF Presented, Mine
  <2>4. index' # {} => doc'.vp
    BY <1>4, <2>1, <2>2 DEF Presented, Backed
  <2> QED  BY <1>4, <2>1, <2>2, <2>3, <2>4 DEF Presented, Backed
<1>5. CASE Backend # "memory"
  <2>1. Backed(doc)'
    BY <1>5 DEF Leave, Put, Presented, Backed
  <2>2. \A q \in Requests : q # r => pc'[q] = pc[q] /\ Mine(q)' = Mine(q)
    BY <1>3, <1>5 DEF Mine
  <2>3. \A q \in Requests : pc'[q] # "idle" => Backed(Mine(q)')
    BY <1>2, <2>2 DEF Presented
  <2>4. \A q \in Requests :
          pc'[q] \in {"confirming", "minting", "saving",
                      "redeeming", "forfeited", "signing"} => Mine(q)'.vp
    BY <1>2, <2>2 DEF Presented
  <2> QED  BY <1>5, <2>1, <2>3, <2>4 DEF Presented, Backed
<1> QED  BY <1>4, <1>5

(* Every step of a handler keeps codes backed by a presentation.           *)
LEMMA HandlerPresented ==
  ASSUME Shape, Presented, NEW r \in Requests, Handler(r)
  PROVE  Presented'
<1>0. StoreOK /\ doc \in Doc /\ now \in Nat
  BY ShapeParts, VerifierAssumption DEF StoreOK
<1>f. Steps = {"idle", "request_object", "show", "hide", "callback", "verifying",
          "confirming", "cancelling", "minting", "saving",
          "redeeming", "forfeited", "signing"}
  BY DEF Steps
<1>m. pc[r] # "idle" => Mine(r) \in Doc /\ Backed(Mine(r))
  BY <1>0, MineIsDoc DEF Presented
<1>s. ASSUME NEW st \in {"error", "code_issued", "token_issued"}, pc[r] # "idle"
      PROVE  /\ SetStatus(Mine(r), st) \in Doc
             /\ Backed(SetStatus(Mine(r), st))
             /\ Mine(r).vp = SetStatus(Mine(r), st).vp
  BY <1>m, <1>s DEF SetStatus, Doc, Statuses, Backed
<1>1. CASE GetOIDCRequestObject(r) \/ Save(r) \/ AnswerToken(r)
  <2>1. CASE Fetch(r, "request_object")
    BY <1>f, <2>1, FetchPresented
  <2>2. CASE pc[r] # "idle" /\ Put(r, Mine(r))
    BY <1>m, <2>2, EndPresented
  <2> QED  BY <1>1, <2>1, <2>2 DEF GetOIDCRequestObject, Save, AnswerToken
<1>2. CASE UpdateSessionPreference(r)
  <2>1. CASE \E s \in {"show", "hide"} : Fetch(r, s)
    BY <1>f, <2>1, FetchPresented
  <2>2. CASE pc[r] # "idle" /\ Put(r, SetShow(Mine(r), pc[r] = "show"))
    <3>1. /\ SetShow(Mine(r), pc[r] = "show") \in Doc
          /\ Backed(SetShow(Mine(r), pc[r] = "show"))
          /\ Mine(r).vp = SetShow(Mine(r), pc[r] = "show").vp
      BY <1>m, <2>2 DEF SetShow, Doc, Backed
    <3> QED  BY <2>2, <3>1, EndPresented
  <2> QED  BY <1>2, <2>1, <2>2 DEF UpdateSessionPreference
<1>3. CASE ProcessCallback(r) \/ Cancel(r)
  <2>1. CASE Fetch(r, "callback")
    BY <1>f, <2>1, FetchPresented
  <2>2. CASE pc[r] # "idle" /\ Put(r, SetStatus(Mine(r), "error"))
    BY <1>s, <2>2, EndPresented
  <2> QED  BY <1>3, <2>1, <2>2 DEF ProcessCallback, Cancel
<1>4. CASE ReceivePost(r)
  BY <1>f, <1>4, FetchPresented DEF ReceivePost
<1>5. CASE \/ RejectPost(r) \/ RefuseToken(r)
           \/ MarkCodeAsForfeited(r) /\ Leave(r)
  <2>1. pc[r] # "idle" /\ Leave(r)
    BY <1>5 DEF RejectPost, RefuseToken, MarkCodeAsForfeited
  <2> QED  BY <1>m, <2>1, EndPresented
<1>6. CASE AcceptPost(r)
  <2>1. pc[r] # "idle" /\ Mine(r) \in Doc
    BY <1>6, <1>m DEF AcceptPost
  <2>2. CASE Assign(r, SetPresented(Mine(r), "awaiting_presentation",
                                    now + PresentationTimeout), "saving")
    <3> DEFINE d == SetPresented(Mine(r), "awaiting_presentation",
                                 now + PresentationTimeout)
    <3>1. d \in Doc /\ d.vp /\ Backed(d)
      BY <1>0, <2>1, VerifierAssumption DEF Doc, SetPresented, Statuses, Backed
    <3> QED  BY <1>f, <2>1, <2>2, <3>1, AssignPresented
  <2>3. CASE Assign(r, SetPresented(Mine(r), "code_issued", Mine(r).expiresAt),
                    "minting")
    <3> DEFINE d == SetPresented(Mine(r), "code_issued", Mine(r).expiresAt)
    <3>1. d \in Doc /\ d.vp /\ Backed(d)
      BY <2>1 DEF Doc, SetPresented, Statuses, Backed
    <3> QED  BY <1>f, <2>1, <2>3, <3>1, AssignPresented
  <2> QED  BY <1>6, <2>2, <2>3 DEF AcceptPost
<1>7. CASE MintCode(r)
  <2>1. PICK c \in Codes :
          Assign(r, SetCode(Mine(r), c, now + CodeDuration), "saving")
    BY <1>7 DEF MintCode
  <2>2. pc[r] # "idle" /\ Mine(r) \in Doc /\ Mine(r).vp
    BY <1>7, <1>m DEF MintCode, Presented
  <2> DEFINE d == SetCode(Mine(r), c, now + CodeDuration)
  <2>3. d \in Doc /\ d.vp /\ Backed(d)
    BY <1>0, <2>2, VerifierAssumption DEF Doc, SetCode, Backed
  <2> QED  BY <1>f, <2>1, <2>2, <2>3, AssignPresented
<1>8. CASE OpenDisplay(r)
  <2>1. doc.vp
    BY <1>8 DEF OpenDisplay, Presented, Backed
  <2> QED  BY <1>f, <1>8, <2>1, FetchPresented DEF OpenDisplay
<1>9. CASE Confirm(r) \/ SignIDToken(r)
  <2>1. PICK st \in {"code_issued", "token_issued"}, s \in Steps :
          Assign(r, SetStatus(Mine(r), st), s)
    BY <1>9, <1>f DEF Confirm, SignIDToken
  <2>2. pc[r] # "idle" /\ Mine(r).vp
    BY <1>9 DEF Confirm, SignIDToken, Presented
  <2> QED  BY <1>s, <2>1, <2>2, AssignPresented
<1>10. CASE \E c \in Codes : LookupCode(r, c)
  <2>1. PICK c \in Codes : LookupCode(r, c)
    BY <1>10
  <2>2. doc.vp
    BY <2>1, VerifierAssumption DEF LookupCode, Resolves, Presented, Backed
  <2> QED  BY <1>f, <2>1, <2>2, FetchPresented DEF LookupCode
<1>11. CASE MarkCodeAsForfeited(r) /\ ~Leave(r)
  <2>1. /\ pc[r] = "redeeming"
        /\ doc' = SetForfeited(doc)
        /\ pc' = [pc EXCEPT ![r] = "forfeited"]
        /\ UNCHANGED <<index, copy>>
    BY <1>11 DEF MarkCodeAsForfeited
  <2>2. Backed(doc') /\ doc'.vp = doc.vp
    BY <1>0, <2>1 DEF SetForfeited, Backed, Presented
  <2>3. \A q \in Requests : pc'[q] = IF q = r THEN "forfeited" ELSE pc[q]
    BY <1>0, <2>1 DEF StoreOK
  <2>4. \A q \in Requests : Mine(q)' = IF Backend = "memory" THEN doc' ELSE Mine(q)
    BY <2>1 DEF Mine
  <2>5. \A q \in Requests : pc'[q] # "idle" => Backed(Mine(q)')
    BY <2>1, <2>2, <2>3, <2>4 DEF Presented
  <2>6. \A q \in Requests :
          pc'[q] \in {"confirming", "minting", "saving",
                      "redeeming", "forfeited", "signing"} => Mine(q)'.vp
    BY <2>1, <2>2, <2>3, <2>4 DEF Presented, Mine
  <2> QED  BY <2>1, <2>2, <2>5, <2>6 DEF Presented, Backed
<1> QED
  BY <1>1, <1>2, <1>3, <1>4, <1>5, <1>6, <1>7, <1>8, <1>9, <1>10, <1>11
  DEF Handler

(* Every step keeps codes backed by a presentation.                        *)
LEMMA StepPresented == Shape /\ Presented /\ [Next]_vars => Presented'
<1> SUFFICES ASSUME Shape, Presented, [Next]_vars PROVE Presented'
  OBVIOUS
<1>1. CASE \E r \in Requests : Handler(r)
  BY <1>1, HandlerPresented
<1>2. CASE Authorize
  BY <1>2 DEF Authorize, Presented, Backed, Shape, CopyOK, NewDoc
<1>3. CASE PollSession \/ Evict \/ Tick \/ UNCHANGED vars
  <2>1. UNCHANGED <<doc, index, pc, copy>>
    BY <1>3 DEF PollSession, Evict, Tick, vars
  <2> QED  BY <2>1 DEF Presented, Backed, Mine
<1> QED  BY <1>1, <1>2, <1>3 DEF Next

(* Every ID token is signed from a context that holds a presentation, for  *)
(* both stores: no interleaving of repeated posts, preference updates,     *)
(* confirmations and write-backs of older copies gives a code to a session *)
(* without one.                                                            *)
THEOREM TokensRestOnPresentation == Spec => []SignsPresentedClaims
<1>1. Presented => SignsPresentedClaims
  BY DEF Presented, SignsPresentedClaims
<1> QED
  BY <1>1, InitShape, StepShape, InitPresented, StepPresented, PTL DEF Spec

-----------------------------------------------------------------------------
(* The memory store: the requests past MarkCodeAsForfeited are at most     *)
(* one, nothing was answered while there is one, and the shared struct     *)
(* keeps the mark from then on.                                            *)
Past(r) == pc[r] \in {"forfeited", "signing"}

Once ==
  /\ \A r, q \in Requests : Past(r) /\ Past(q) => r = q
  /\ (\E r \in Requests : Past(r)) => redeemed = {} /\ doc.forfeited
  /\ redeemed # {} => doc.forfeited
  /\ redeemed # {} => session # "none"
  /\ replayed = {}

(* Nobody is past the mark at the start.                                   *)
LEMMA InitOnce == Init => Once
  BY DEF Init, Once, Past

(* A step that adds nobody to the ones past the mark, answers nothing and  *)
(* keeps the mark.                                                         *)
LEMMA OnceKept ==
  ASSUME Once, UNCHANGED <<redeemed, replayed, session>>,
         doc'.forfeited = doc.forfeited,
         \A q \in Requests : Past(q)' => Past(q)
  PROVE  Once'
<1>1. \A r, q \in Requests : Past(r)' /\ Past(q)' => r = q
  BY DEF Once
<1>2. (\E r \in Requests : Past(r)') => redeemed' = {} /\ doc'.forfeited
  BY DEF Once
<1> QED  BY <1>1, <1>2 DEF Once

(* A Get takes nobody past the mark.                                       *)
LEMMA FetchOnce ==
  ASSUME Shape, Once, NEW r \in Requests, NEW s \in Steps, Fetch(r, s),
         s \notin {"forfeited", "signing"}
  PROVE  Once'
<1>1. \A q \in Requests : Past(q)' => Past(q)
  BY ShapeParts DEF Fetch, Past, StoreOK
<1> QED  BY <1>1, OnceKept DEF Fetch

(* An assignment neither takes the mark away nor lets anybody past it.     *)
LEMMA AssignOnce ==
  ASSUME Shape, Once, Backend = "memory", NEW r \in Requests, NEW s \in Steps,
         NEW d, Assign(r, d, s), d.forfeited = doc.forfeited,
         s \notin {"forfeited", "signing"} \/ Past(r)
  PROVE  Once'
<1>1. \A q \in Requests : Past(q)' => Past(q)
  BY ShapeParts DEF Assign, Past, StoreOK
<1> QED  BY <1>1, OnceKept DEF Assign

(* A request that ends leaves the mark where it was.                       *)
LEMMA EndOnce ==
  ASSUME Shape, Once, Backend = "memory", NEW r \in Requests, NEW d,
         d.forfeited = doc.forfeited, Leave(r) \/ Put(r, d),
         UNCHANGED <<redeemed, replayed>>
  PROVE  Once'
<1>1. Done(r)
  BY DEF Leave, Put
<1>2. \A q \in Requests : Past(q)' => Past(q)
  BY ShapeParts, <1>1 DEF Done, Past, StoreOK
<1>3. doc'.forfeited = doc.forfeited /\ session' = session
  BY DEF Leave, Put
<1> QED  BY <1>2, <1>3, OnceKept

(* Every step of a handler keeps one request past the mark on the shared   *)
(* struct.                                                                 *)
LEMMA HandlerOnce ==
  ASSUME Shape, Once, Backend = "memory", NEW r \in Requests, Handler(r)
  PROVE  Once'
<1>0. StoreOK /\ Mine(r) = doc
  BY ShapeParts DEF Mine
<1>f. Steps = {"idle", "request_object", "show", "hide", "callback", "verifying",
          "confirming", "cancelling", "minting", "saving",
          "redeeming", "forfeited", "signing"}
  BY DEF Steps
<1>1. CASE GetOIDCRequestObject(r) \/ Save(r)
  <2>1. CASE Fetch(r, "request_object")
    BY <1>f, <2>1, FetchOnce
  <2>2. CASE Put(r, doc) /\ UNCHANGED <<redeemed, replayed>>
    BY <2>2, EndOnce
  <2> QED  BY <1>0, <1>1, <2>1, <2>2 DEF GetOIDCRequestObject, Save
<1>2. CASE UpdateSessionPreference(r)
  <2>1. CASE \E s \in {"show", "hide"} : Fetch(r, s)
    BY <1>f, <2>1, FetchOnce
  <2>2. CASE /\ Put(r, SetShow(doc, pc[r] = "show"))
             /\ UNCHANGED <<redeemed, replayed>>
    <3>1. SetShow(doc, pc[r] = "show").forfeited = doc.forfeited
      BY DEF SetShow
    <3> QED  BY <2>2, <3>1, EndOnce
  <2> QED  BY <1>0, <1>2, <2>1, <2>2 DEF UpdateSessionPreference
<1>3. CASE ProcessCallback(r) \/ Cancel(r)
  <2>1. CASE Fetch(r, "callback")
    BY <1>f, <2>1, FetchOnce
  <2>2. CASE Put(r, SetStatus(doc, "error")) /\ UNCHANGED <<redeemed, replayed>>
    <3>1. SetStatus(doc, "error").forfeited = doc.forfeited
      BY DEF SetStatus
    <3> QED  BY <2>2, <3>1, EndOnce
  <2> QED  BY <1>0, <1>3, <2>1, <2>2 DEF ProcessCallback, Cancel
<1>4. CASE ReceivePost(r) \/ OpenDisplay(r) \/ \E c \in Codes : LookupCode(r, c)
  BY <1>f, <1>4, FetchOnce DEF ReceivePost, OpenDisplay, LookupCode
<1>5. CASE RejectPost(r) \/ RefuseToken(r)
  <2>1. Leave(r) /\ UNCHANGED <<redeemed, replayed>>
    BY <1>5 DEF RejectPost, RefuseToken, Leave
  <2> QED  BY <2>1, EndOnce
<1>6. CASE AcceptPost(r)
  <2>1. \A st, t : SetPresented(doc, st, t).forfeited = doc.forfeited
    BY DEF SetPresented
  <2> QED  BY <1>0, <1>f, <1>6, <2>1, AssignOnce DEF AcceptPost
<1>7. CASE MintCode(r)
  <2>1. \A c, t : SetCode(doc, c, t).forfeited = doc.forfeited
    BY DEF SetCode
  <2> QED  BY <1>0, <1>f, <1>7, <2>1, AssignOnce DEF MintCode
<1>8. CASE Confirm(r) \/ SignIDToken(r)
  <2>1. \A st : SetStatus(doc, st).forfeited = doc.forfeited
    BY DEF SetStatus
  <2> QED  BY <1>0, <1>f, <1>8, <2>1, AssignOnce DEF Confirm, SignIDToken, Past
<1>9. CASE MarkCodeAsForfeited(r)
  <2>1. CASE Leave(r)
    <3>1. UNCHANGED <<redeemed, replayed>>
      BY <2>1 DEF Leave
    <3> QED  BY <2>1, <3>1, EndOnce
  <2>2. CASE ~Leave(r)
    <3>1. /\ ~doc.forfeited
          /\ doc' = SetForfeited(doc)
          /\ pc' = [pc EXCEPT ![r] = "forfeited"]
          /\ UNCHANGED <<session, redeemed, replayed>>
      BY <1>9, <2>2 DEF MarkCodeAsForfeited
    <3>2. redeemed = {} /\ \A q \in Requests : ~Past(q)
      BY <3>1 DEF Once
    <3>3. doc'.forfeited
      BY <3>1 DEF SetForfeited
    <3>4. \A q \in Requests : Past(q)' => q = r
      BY <1>0, <3>1, <3>2 DEF Past, StoreOK
    <3> QED  BY <3>1, <3>2, <3>3, <3>4 DEF Once
  <2> QED  BY <2>1, <2>2
<1>10. CASE AnswerToken(r)
  <2>1. CASE UNCHANGED <<redeemed, replayed>>
    BY <1>0, <1>10, <2>1, EndOnce DEF AnswerToken
  <2>2. CASE Resolvable
    <3>1. Past(r) /\ redeemed = {} /\ doc.forfeited /\ replayed = {}
      BY <1>10 DEF AnswerToken, Past, Once
    <3>2. doc' = doc /\ session' = session /\ session # "none" /\ replayed' = {}
      BY <1>0, <1>10, <2>2, <3>1 DEF AnswerToken, Put, Resolvable
    <3>3. pc' = [pc EXCEPT ![r] = "idle"]
      BY <1>10 DEF AnswerToken, Put, Done
    <3>4. \A q \in Requests : ~Past(q)'
      BY <1>0, <3>1, <3>3 DEF Once, Past, StoreOK
    <3> QED  BY <3>1, <3>2, <3>4 DEF Once
  <2> QED  BY <1>10, <2>1, <2>2 DEF AnswerToken
<1> QED
  BY <1>1, <1>2, <1>3, <1>4, <1>5, <1>6, <1>7, <1>8, <1>9, <1>10 DEF Handler

(* Every step does, on the memory store.                                   *)
LEMMA StepOnce ==
  ASSUME Backend = "memory"
  PROVE  Shape /\ Once /\ [Next]_vars => Once'
<1> SUFFICES ASSUME Shape, Once, [Next]_vars PROVE Once'
  OBVIOUS
<1>1. CASE \E r \in Requests : Handler(r)
  BY <1>1, HandlerOnce
<1>2. CASE Authorize
  BY <1>2 DEF Authorize, Once, Past, Shape, CopyOK
<1>3. CASE PollSession \/ Evict \/ Tick \/ UNCHANGED vars
  <2>1. UNCHANGED <<doc, pc, redeemed, replayed>>
    BY <1>3 DEF PollSession, Evict, Tick, vars
  <2>2. session' # "none" \/ session' = session
    BY <1>3 DEF PollSession, Evict, Tick, vars
  <2> QED  BY <2>1, <2>2 DEF Once, Past
<1> QED  BY <1>1, <1>2, <1>3 DEF Next

(* With the memory store a code is answered with tokens at most once, for  *)
(* every number of requests, codes and presentations: MarkCodeAsForfeited  *)
(* tests and sets the mark under the store's mutex, and no later           *)
(* assignment or Update of the shared struct takes it away.                *)
THEOREM MemoryOneTokenPerCode ==
  ASSUME Backend = "memory" PROVE Spec => []OneTokenPerCode
<1>1. Once => OneTokenPerCode
  BY DEF Once, OneTokenPerCode
<1> QED
  BY <1>1, InitShape, StepShape, InitOnce, StepOnce, PTL DEF Spec

-----------------------------------------------------------------------------
(* MongoDB: every request has a copy of its own, and the retention counts  *)
(* from the session's creation.  A presentation that is to be displayed    *)
(* renews the deadline of the session, by at most one window and the time  *)
(* a handler takes; ProcessDirectPost does not look at the status, so each *)
(* of `posts' presentations may do so.                                     *)
R == authContextRetention
Window == PresentationTimeout + Latency
Span(n) == n * Window

(* R later than any deadline of the session can be.                        *)
Reach == keep + PresentationTimeout + Span(posts)
InTime(d) == /\ d.expiresAt + R <= Reach
             /\ d.codeExpiresAt + R < Reach + Latency + CodeDuration

(* A context that says so has a code.                                      *)
Carries(d) == d.status = "code_issued" => d.code # None

(* Status and code are apart only in the copy of a request that mints.     *)
CodesCarried ==
  /\ Carries(doc)
  /\ \A r \in Requests : pc[r] \notin {"idle", "minting"} => Carries(copy[r])
  /\ PollCarriesCode

(* No deadline goes beyond the reach, and a request that may store a       *)
(* deadline or a code started before it.                                   *)
DeadlinesReached ==
  /\ session = "none" => lease = 0
  /\ session # "none" =>
       /\ R <= keep
       /\ InTime(doc)
       /\ \A r \in Requests : pc[r] # "idle" => InTime(copy[r])
       /\ \A r \in Requests : pc[r] \in {"confirming", "minting"} => now + R < Reach + age[r]
       /\ \A r \in Requests : pc[r] = "verifying" => now + R + Window < Reach + age[r]
       /\ lease + R < Reach + Latency + CodeDuration

(* Time is measured in naturals.                                           *)
LEMMA TimesAreNat ==
  /\ R \in Nat /\ Window \in Nat
  /\ \A n \in Nat : Span(n) \in Nat /\ Span(n + 1) = Span(n) + Window
  /\ \A n \in Nat : \A m \in 0..n : Span(m) <= Span(n)
<1>1. R \in Nat
  BY RetentionIsNat DEF R
<1>2. Window \in Nat
  BY VerifierAssumption DEF Window
<1>3. \A w \in Nat : \A n \in Nat : n * w \in Nat /\ (n + 1) * w = n * w + w
  OBVIOUS
<1>4. \A w \in Nat : \A n \in Nat : \A m \in 0..n : m * w <= n * w
  OBVIOUS
<1> QED  BY <1>1, <1>2, <1>3, <1>4 DEF Span

(* Before /authorize there is nothing to reach.                            *)
LEMMA InitReached == Init => CodesCarried /\ DeadlinesReached
  BY VerifierAssumption DEF Init, CodesCarried, Carries, PollCarriesCode, DeadlinesReached, NewDoc

(* More posts reach further.                                               *)
LEMMA ReachGrows ==
  ASSUME Shape, keep' = keep, posts' \in {posts, posts + 1}
  PROVE  /\ Reach \in Nat /\ Reach' \in Nat /\ Reach <= Reach'
         /\ posts' = posts + 1 => Reach' = Reach + Window
         /\ \A d \in Doc : InTime(d) =>
              /\ d.expiresAt + R <= Reach'
              /\ d.codeExpiresAt + R < Reach' + Latency + CodeDuration
<1>1. keep \in Nat /\ posts \in Nat /\ PresentationTimeout \in Nat /\ Latency \in Nat /\ CodeDuration \in Nat
  BY VerifierAssumption DEF Shape, TypeOK
<1>2. Span(posts) \in Nat /\ Span(posts + 1) = Span(posts) + Window /\ Window \in Nat /\ R \in Nat
  BY <1>1, TimesAreNat
<1>3. /\ Reach \in Nat /\ Reach' \in Nat /\ Reach <= Reach'
      /\ posts' = posts + 1 => Reach' = Reach + Window
  BY <1>1, <1>2 DEF Reach
<1>4. \A d \in Doc : d.expiresAt \in Nat /\ d.codeExpiresAt \in Nat
  BY DEF Doc
<1> QED  BY <1>1, <1>2, <1>3, <1>4 DEF InTime

(* A Get hands out a copy of a context that is in time; the requests that  *)
(* may store a deadline or a code check the one they found.                *)
LEMMA FetchReached ==
  ASSUME Shape, CodesCarried, DeadlinesReached, Backend = "mongo",
         NEW r \in Requests, NEW s \in Steps, Fetch(r, s), posts' \in {posts, posts + 1},
         s \in {"confirming", "verifying"} => ~sessionExpired(doc),
         s = "verifying" => posts' = posts + 1, s # "minting"
  PROVE  CodesCarried' /\ DeadlinesReached'
<1>0. StoreOK /\ doc \in Doc /\ now \in Nat /\ session = "stored" /\ keep' = keep
  BY ShapeParts, VerifierAssumption DEF StoreOK, Fetch, Resolvable, Renewed
<1>1. /\ pc \in [Requests -> Steps] /\ copy \in [Requests -> Doc \cup {None}]
      /\ age \in [Requests -> 0..Latency] /\ Latency \in Nat
  BY <1>0, VerifierAssumption DEF StoreOK
<1>2. /\ pc'[r] = s /\ copy'[r] = doc
      /\ \A q \in Requests \ {r} : pc'[q] = pc[q] /\ copy'[q] = copy[q]
      /\ UNCHANGED <<now, session, doc, age, lease, polled>>
  BY <1>1 DEF Fetch
<1>3. CodesCarried'
  BY <1>2 DEF CodesCarried, Carries, PollCarriesCode
<1>4. /\ Reach \in Nat /\ Reach' \in Nat /\ Reach <= Reach' /\ R \in Nat /\ Window \in Nat
      /\ posts' = posts + 1 => Reach' = Reach + Window
  BY <1>0, ReachGrows, TimesAreNat
<1>5. \A d \in Doc : InTime(d) => /\ d.expiresAt + R <= Reach'
                                 /\ d.codeExpiresAt + R < Reach' + Latency + CodeDuration
  BY <1>0, ReachGrows
<1>6. /\ R <= keep /\ InTime(doc)
      /\ \A q \in Requests : pc[q] # "idle" => InTime(copy[q]) /\ copy[q] \in Doc
      /\ lease + R < Reach + Latency + CodeDuration
      /\ lease \in Nat /\ CodeDuration \in Nat
  BY <1>0, VerifierAssumption DEF DeadlinesReached, StoreOK, CopyOK
<1>7. \A q \in Requests : pc'[q] # "idle" =>
        /\ copy'[q].expiresAt + R <= Reach'
        /\ copy'[q].codeExpiresAt + R < Reach' + Latency + CodeDuration
  BY <1>0, <1>2, <1>5, <1>6
<1>8. ASSUME NEW q \in Requests, pc'[q] \in {"confirming", "minting"}
      PROVE  now + R < Reach' + age[q]
  <2>1. age[q] \in Nat
    BY <1>1
  <2>2. CASE q # r
    <3>1. now + R < Reach + age[q]
      BY <1>0, <1>2, <1>8, <2>2 DEF DeadlinesReached
    <3> QED  BY <1>0, <1>4, <2>1, <3>1
  <2>3. CASE q = r
    <3>1. now < doc.expiresAt /\ doc.expiresAt \in Nat
      BY <1>0, <1>2, <1>8, <2>3 DEF sessionExpired, Doc
    <3>2. doc.expiresAt + R <= Reach
      BY <1>6 DEF InTime
    <3> QED  BY <1>0, <1>4, <2>1, <3>1, <3>2
  <2> QED  BY <2>2, <2>3
<1>9. ASSUME NEW q \in Requests, pc'[q] = "verifying"
      PROVE  now + R + Window < Reach' + age[q]
  <2>1. age[q] \in Nat
    BY <1>1
  <2>2. CASE q # r
    <3>1. now + R + Window < Reach + age[q]
      BY <1>0, <1>2, <1>9, <2>2 DEF DeadlinesReached
    <3> QED  BY <1>0, <1>4, <2>1, <3>1
  <2>3. CASE q = r
    <3>1. now < doc.expiresAt /\ doc.expiresAt \in Nat /\ Reach' = Reach + Window
      BY <1>0, <1>2, <1>4, <1>9, <2>3 DEF sessionExpired, Doc
    <3>2. doc.expiresAt + R <= Reach
      BY <1>6 DEF InTime
    <3> QED  BY <1>0, <1>4, <2>1, <3>1, <3>2
  <2> QED  BY <2>2, <2>3
<1>10. lease + R < Reach' + Latency + CodeDuration
  <2>1. \A l, k, x, y, m, n \in Nat : l + k < x + m + n /\ x <= y => l + k < y + m + n
    OBVIOUS
  <2>2. lease \in Nat /\ R \in Nat /\ Reach \in Nat /\ Reach' \in Nat /\ Latency \in Nat /\ CodeDuration \in Nat
    BY <1>1, <1>4, <1>6
  <2>3. lease + R < Reach + Latency + CodeDuration /\ Reach <= Reach'
    BY <1>4, <1>6
  <2> QED  BY ONLY <2>1, <2>2, <2>3
<1>11. DeadlinesReached'
  BY <1>0, <1>2, <1>5, <1>6, <1>7, <1>8, <1>9, <1>10 DEF DeadlinesReached, InTime
<1> QED  BY <1>3, <1>11

(* An assignment of something that is in time.                             *)
LEMMA AssignReached ==
  ASSUME Shape, CodesCarried, DeadlinesReached, Backend = "mongo",
         NEW r \in Requests, NEW s \in {"minting", "saving", "signing"}, NEW d \in Doc,
         pc[r] # "idle", Assign(r, d, s), InTime(d), s # "minting" => Carries(d),
         s = "minting" => now + R < Reach + age[r]
  PROVE  CodesCarried' /\ DeadlinesReached'
<1>0. StoreOK /\ session # "none" /\ s \in Steps
  BY ShapeParts DEF StoreOK, CopyOK, Steps
<1>1. pc \in [Requests -> Steps] /\ copy \in [Requests -> Doc \cup {None}]
  BY <1>0 DEF StoreOK
<1>2. /\ pc'[r] = s /\ copy'[r] = d
      /\ \A q \in Requests \ {r} : pc'[q] = pc[q] /\ copy'[q] = copy[q]
      /\ UNCHANGED <<now, session, doc, keep, posts, age, lease, polled>>
  BY <1>1 DEF Assign
<1>3. CodesCarried'
  BY <1>2 DEF CodesCarried, Carries, PollCarriesCode
<1>4. Reach' = Reach
  BY <1>2 DEF Reach
<1>5. DeadlinesReached'
  BY <1>0, <1>2, <1>4 DEF DeadlinesReached, InTime
<1> QED  BY <1>3, <1>5

(* A request ends, with an Update of something that is in time.            *)
LEMMA EndReached ==
  ASSUME Shape, CodesCarried, DeadlinesReached, Backend = "mongo", NEW r \in Requests,
         NEW d \in Doc, pc[r] # "idle", Leave(r) \/ Put(r, d), InTime(d), Carries(d)
  PROVE  CodesCarried' /\ DeadlinesReached'
<1>0. StoreOK /\ session # "none"
  BY ShapeParts DEF StoreOK, CopyOK
<1>1. /\ pc \in [Requests -> Steps] /\ copy \in [Requests -> Doc \cup {None}]
      /\ age \in [Requests -> 0..Latency]
  BY <1>0 DEF StoreOK
<1>2. /\ pc'[r] = "idle"
      /\ \A q \in Requests \ {r} : pc'[q] = pc[q] /\ copy'[q] = copy[q] /\ age'[q] = age[q]
      /\ UNCHANGED <<now, session, keep, posts, polled>>
      /\ doc' \in {doc, d} /\ lease' \in {lease, d.codeExpiresAt}
  BY <1>1 DEF Leave, Put, Done, Renewed, Larger
<1>3. CodesCarried'
  BY <1>2 DEF CodesCarried, Carries, PollCarriesCode
<1>4. Reach' = Reach
  BY <1>2 DEF Reach
<1>5. lease' + R < Reach + Latency + CodeDuration
  BY <1>0, <1>2 DEF DeadlinesReached, InTime
<1>6. DeadlinesReached'
  BY <1>0, <1>2, <1>4, <1>5 DEF DeadlinesReached, InTime
<1> QED  BY <1>3, <1>6

(* Every step of a handler stays within the reach.                         *)
LEMMA HandlerReached ==
  ASSUME Shape, CodesCarried, DeadlinesReached, Backend = "mongo", NEW r \in Requests, Handler(r)
  PROVE  CodesCarried' /\ DeadlinesReached'
<1>0. StoreOK /\ doc \in Doc /\ now \in Nat /\ Mine(r) = copy[r]
  BY ShapeParts, VerifierAssumption DEF StoreOK, Mine
<1>t. /\ R \in Nat /\ Window \in Nat /\ Reach \in Nat /\ Latency \in Nat /\ CodeDuration \in Nat
      /\ PresentationTimeout \in Nat /\ age[r] \in 0..Latency
  <2>1. Reach \in Nat
    <3>1. keep \in Nat /\ posts \in Nat /\ PresentationTimeout \in Nat
      BY VerifierAssumption DEF Shape, TypeOK
    <3>2. Span(posts) \in Nat
      BY <3>1, TimesAreNat
    <3> QED  BY <3>1, <3>2 DEF Reach
  <2> QED  BY <1>0, <2>1, TimesAreNat, VerifierAssumption DEF StoreOK
<1>f. Steps = {"idle", "request_object", "show", "hide", "callback", "verifying",
          "confirming", "cancelling", "minting", "saving",
          "redeeming", "forfeited", "signing"}
  BY DEF Steps
<1>m. pc[r] # "idle" => /\ copy[r] \in Doc /\ InTime(copy[r]) /\ session # "none"
                        /\ pc[r] # "minting" => Carries(copy[r])
  BY <1>0 DEF StoreOK, CopyOK, CodesCarried, DeadlinesReached
<1>1. CASE GetOIDCRequestObject(r) \/ Save(r) \/ AnswerToken(r)
  <2>1. CASE Fetch(r, "request_object") /\ UNCHANGED posts
    BY <1>f, <2>1, FetchReached
  <2>2. CASE pc[r] \notin {"idle", "minting"} /\ Put(r, copy[r])
    BY <1>m, <2>2, EndReached
  <2> QED  BY <1>0, <1>1, <2>1, <2>2 DEF GetOIDCRequestObject, Save, AnswerToken
<1>2. CASE UpdateSessionPreference(r)
  <2>1. CASE (\E s \in {"show", "hide"} : Fetch(r, s)) /\ UNCHANGED posts
    BY <1>f, <2>1, FetchReached
  <2>2. CASE pc[r] \in {"show", "hide"} /\ Put(r, SetShow(copy[r], pc[r] = "show"))
    <3> DEFINE d == SetShow(copy[r], pc[r] = "show")
    <3>1. d \in Doc /\ InTime(d) /\ Carries(d)
      BY <1>m, <2>2 DEF SetShow, Doc, InTime, Carries
    <3> HIDE DEF d
    <3> QED  BY <2>2, <3>1, EndReached DEF d
  <2> QED  BY <1>0, <1>2, <2>1, <2>2 DEF UpdateSessionPreference
<1>3. CASE ProcessCallback(r) \/ Cancel(r)
  <2>1. CASE Fetch(r, "callback") /\ UNCHANGED posts
    BY <1>f, <2>1, FetchReached
  <2>2. CASE pc[r] \in {"callback", "cancelling"} /\ Put(r, SetStatus(copy[r], "error"))
    <3> DEFINE d == SetStatus(copy[r], "error")
    <3>1. d \in Doc /\ InTime(d) /\ Carries(d)
      BY <1>m, <2>2 DEF SetStatus, Doc, Statuses, InTime, Carries
    <3> HIDE DEF d
    <3> QED  BY <2>2, <3>1, EndReached DEF d
  <2> QED  BY <1>0, <1>3, <2>1, <2>2 DEF ProcessCallback, Cancel
<1>4. CASE ReceivePost(r)
  BY <1>f, <1>4, FetchReached DEF ReceivePost
<1>5. CASE \/ RejectPost(r) \/ RefuseToken(r)
           \/ MarkCodeAsForfeited(r) /\ Leave(r)
  <2>1. pc[r] \notin {"idle", "minting"} /\ Leave(r)
    BY <1>5 DEF RejectPost, RefuseToken, MarkCodeAsForfeited
  <2> QED  BY <1>m, <2>1, EndReached
<1>6. CASE AcceptPost(r)
  <2>1. pc[r] = "verifying" /\ copy[r] \in Doc /\ InTime(copy[r]) /\ now + R + Window < Reach + age[r]
    BY <1>6, <1>m DEF AcceptPost, DeadlinesReached
  <2>2. CASE Assign(r, SetPresented(copy[r], "awaiting_presentation",
                                    now + PresentationTimeout), "saving")
    <3> DEFINE d == SetPresented(copy[r], "awaiting_presentation", now + PresentationTimeout)
    <3>1. /\ d \in Doc /\ Carries(d) /\ d.expiresAt = now + PresentationTimeout
          /\ d.codeExpiresAt = copy[r].codeExpiresAt
      BY <1>0, <1>t, <2>1 DEF SetPresented, Doc, Statuses, Carries
    <3>2. now + PresentationTimeout + R <= Reach
      BY <1>0, <1>t, <2>1 DEF Window
    <3>3. InTime(d)
      BY <2>1, <3>1, <3>2 DEF InTime
    <3> HIDE DEF d
    <3> QED  BY <2>1, <2>2, <3>1, <3>3, AssignReached DEF d
  <2>3. CASE Assign(r, SetPresented(copy[r], "code_issued", copy[r].expiresAt), "minting")
    <3> DEFINE d == SetPresented(copy[r], "code_issued", copy[r].expiresAt)
    <3>1. d \in Doc /\ InTime(d)
      BY <2>1 DEF SetPresented, Doc, Statuses, InTime
    <3>2. now + R < Reach + age[r]
      BY <1>0, <1>t, <2>1
    <3> HIDE DEF d
    <3> QED  BY <2>1, <2>3, <3>1, <3>2, AssignReached DEF d
  <2> QED  BY <1>0, <1>6, <2>2, <2>3 DEF AcceptPost
<1>7. CASE MintCode(r)
  <2>1. PICK c \in Codes : Assign(r, SetCode(copy[r], c, now + CodeDuration), "saving")
    BY <1>0, <1>7 DEF MintCode
  <2>2. pc[r] = "minting" /\ copy[r] \in Doc /\ InTime(copy[r]) /\ now + R < Reach + age[r]
    BY <1>7, <1>m DEF MintCode, DeadlinesReached
  <2> DEFINE d == SetCode(copy[r], c, now + CodeDuration)
  <2>3. /\ d \in Doc /\ Carries(d) /\ d.codeExpiresAt = now + CodeDuration
        /\ d.expiresAt = copy[r].expiresAt
    BY <1>0, <1>t, <2>2, VerifierAssumption DEF SetCode, Doc, Carries
  <2>4. now + CodeDuration + R < Reach + Latency + CodeDuration
    BY <1>0, <1>t, <2>2
  <2>5. InTime(d)
    BY <2>2, <2>3, <2>4 DEF InTime
  <2> HIDE DEF d
  <2> QED  BY <2>1, <2>2, <2>3, <2>5, AssignReached DEF d
<1>8. CASE OpenDisplay(r)
  BY <1>f, <1>8, FetchReached DEF OpenDisplay
<1>9. CASE Confirm(r)
  <2>1. pc[r] = "confirming" /\ now + R < Reach + age[r]
    BY <1>9, <1>m DEF Confirm, DeadlinesReached
  <2> DEFINE d == SetStatus(copy[r], "code_issued")
  <2>2. d \in Doc /\ InTime(d)
    BY <1>m, <2>1 DEF SetStatus, Doc, Statuses, InTime
  <2>3. Assign(r, d, "minting")
    BY <1>0, <1>9 DEF Confirm
  <2> HIDE DEF d
  <2> QED  BY <2>1, <2>2, <2>3, AssignReached
<1>10. CASE SignIDToken(r)
  <2>1. pc[r] = "forfeited"
    BY <1>10 DEF SignIDToken
  <2> DEFINE d == SetStatus(copy[r], "token_issued")
  <2>2. d \in Doc /\ InTime(d) /\ Carries(d)
    BY <1>m, <2>1 DEF SetStatus, Doc, Statuses, InTime, Carries
  <2>3. Assign(r, d, "signing")
    BY <1>0, <1>10 DEF SignIDToken
  <2> HIDE DEF d
  <2> QED  BY <2>1, <2>2, <2>3, AssignReached
<1>11. CASE \E c \in Codes : LookupCode(r, c)
  BY <1>f, <1>11, FetchReached DEF LookupCode
<1>12. CASE MarkCodeAsForfeited(r) /\ ~Leave(r)
  <2>1. /\ pc[r] = "redeeming" /\ doc' = SetForfeited(doc) /\ keep' = keep
        /\ pc' = [pc EXCEPT ![r] = "forfeited"]
        /\ UNCHANGED <<now, session, copy, age, posts, lease, polled>>
    BY <1>12 DEF MarkCodeAsForfeited, Renewed
  <2>2. /\ doc'.status = doc.status /\ doc'.code = doc.code /\ doc'.expiresAt = doc.expiresAt
        /\ doc'.codeExpiresAt = doc.codeExpiresAt
    BY <1>0, <2>1 DEF SetForfeited
  <2>3. \A q \in Requests : pc'[q] = IF q = r THEN "forfeited" ELSE pc[q]
    BY <1>0, <2>1 DEF StoreOK
  <2>4. Reach' = Reach
    BY <2>1 DEF Reach
  <2>5. CodesCarried'
    BY <2>1, <2>2, <2>3 DEF CodesCarried, Carries, PollCarriesCode
  <2>6. DeadlinesReached'
    BY <2>1, <2>2, <2>3, <2>4 DEF DeadlinesReached, InTime
  <2> QED  BY <2>5, <2>6
<1> QED
  BY <1>1, <1>2, <1>3, <1>4, <1>5, <1>6, <1>7, <1>8, <1>9, <1>10, <1>11, <1>12
  DEF Handler

(* So does every step.                                                     *)
LEMMA StepReached ==
  ASSUME Backend = "mongo"
  PROVE  Shape /\ CodesCarried /\ DeadlinesReached /\ [Next]_vars => CodesCarried' /\ DeadlinesReached'
<1> SUFFICES ASSUME Shape, CodesCarried, DeadlinesReached, [Next]_vars
             PROVE  CodesCarried' /\ DeadlinesReached'
  OBVIOUS
<1>0. StoreOK /\ doc \in Doc /\ now \in Nat /\ keep \in Nat /\ posts \in Nat
  BY ShapeParts, VerifierAssumption DEF StoreOK, Books
<1>t. /\ R \in Nat /\ Window \in Nat /\ Span(posts) \in Nat /\ Latency \in Nat
      /\ CodeDuration \in Nat \ {0} /\ PresentationTimeout \in Nat
  BY <1>0, TimesAreNat, VerifierAssumption
<1>1. CASE \E r \in Requests : Handler(r)
  BY <1>1, HandlerReached
<1>2. CASE Authorize
  <2>1. /\ session = "none" /\ session' = "stored" /\ doc' = NewDoc(now) /\ keep' = now + R
        /\ UNCHANGED <<now, pc, copy, age, posts, lease, polled>>
        /\ lease = 0 /\ \A r \in Requests : pc[r] = "idle"
    BY <1>0, <1>2 DEF Authorize, DeadlinesReached, StoreOK, CopyOK, R
  <2>2. /\ doc'.status = "pending" /\ doc'.expiresAt = now + PresentationTimeout
        /\ doc'.codeExpiresAt = 0
    BY <2>1 DEF NewDoc
  <2>3. Reach' = now + R + PresentationTimeout + Span(posts)
    BY <2>1 DEF Reach
  <2>4. /\ R <= keep'
        /\ now + PresentationTimeout + R <= Reach' /\ 0 + R < Reach' + Latency + CodeDuration
    BY <1>0, <1>t, <2>1, <2>3
  <2>5. CodesCarried'
    BY <2>1, <2>2 DEF CodesCarried, Carries, PollCarriesCode
  <2>6. DeadlinesReached'
    BY <2>1, <2>2, <2>4 DEF DeadlinesReached, InTime
  <2> QED  BY <2>5, <2>6
<1>3. CASE PollSession \/ Evict \/ UNCHANGED vars
  <2>1. /\ UNCHANGED <<now, doc, pc, copy, age, posts, lease>> /\ keep' = keep
        /\ session' = session \/ (session = "stored" /\ session' = "evicted")
    BY <1>3 DEF PollSession, Evict, vars, Renewed
  <2>2. PollCarriesCode'
    BY <1>3 DEF PollSession, Evict, vars, PollCarriesCode, CodesCarried, Carries
  <2>3. Reach' = Reach
    BY <2>1 DEF Reach
  <2>4. DeadlinesReached'
    BY <2>1, <2>3 DEF DeadlinesReached, InTime
  <2> QED  BY <2>1, <2>2, <2>4 DEF CodesCarried, Carries
<1>4. CASE Tick
  <2>1. /\ session # "none" /\ now' = now + 1
        /\ UNCHANGED <<session, doc, keep, pc, copy, posts, lease, polled>>
    BY <1>4 DEF Tick
  <2>2. \A r \in Requests : pc[r] # "idle" => age'[r] = age[r] + 1 /\ age[r] \in Nat
    BY <1>0, <1>4, <1>t DEF Tick, StoreOK
  <2>3. Reach' = Reach /\ Reach \in Nat
    BY <1>0, <1>t, <2>1 DEF Reach
  <2>4. CodesCarried'
    BY <2>1 DEF CodesCarried, Carries, PollCarriesCode
  <2>5. \A r \in Requests : pc[r] \in {"confirming", "minting"} => now' + R < Reach + age'[r]
    <3> SUFFICES ASSUME NEW r \in Requests, pc[r] \in {"confirming", "minting"}
                 PROVE  now' + R < Reach + age'[r]
      OBVIOUS
    <3>1. now + R < Reach + age[r] /\ age'[r] = age[r] + 1 /\ age[r] \in Nat
      BY <2>1, <2>2 DEF DeadlinesReached
    <3> QED  BY <1>0, <1>t, <2>1, <2>3, <3>1
  <2>6. \A r \in Requests : pc[r] = "verifying" => now' + R + Window < Reach + age'[r]
    <3> SUFFICES ASSUME NEW r \in Requests, pc[r] = "verifying"
                 PROVE  now' + R + Window < Reach + age'[r]
      OBVIOUS
    <3>1. now + R + Window < Reach + age[r] /\ age'[r] = age[r] + 1 /\ age[r] \in Nat
      BY <2>1, <2>2 DEF DeadlinesReached
    <3> QED  BY <1>0, <1>t, <2>1, <2>3, <3>1
  <2>7. DeadlinesReached'
    BY <2>1, <2>3, <2>5, <2>6 DEF DeadlinesReached, InTime
  <2> QED  BY <2>4, <2>7
<1> QED  BY <1>1, <1>2, <1>3, <1>4 DEF Next

(* PollSession on MongoDB: a page that is told the code was issued gets    *)
(* the code, although status and code are assigned one after the other and *)
(* any number of requests write back older copies.                         *)
THEOREM PollsCarryCode == ASSUME Backend = "mongo" PROVE Spec => []PollCarriesCode
<1>1. CodesCarried => PollCarriesCode
  BY DEF CodesCarried
<1> QED
  BY <1>1, InitShape, StepShape, InitReached, StepReached, PTL DEF Spec

(* What retention the posts of a session need: a window for each of them   *)
(* and one for the first deadline, and the life of a code.                 *)
RetentionCovers == Span(MaxPosts + 1) + CodeDuration <= authContextRetention

(* No code outlives an evicted session.                                    *)
Outlived == session = "evicted" => lease < now

(* The retention suffices when it covers the posts.                        *)
LEMMA StepOutlived ==
  ASSUME Backend = "mongo", RetentionCovers
  PROVE  Shape /\ DeadlinesReached /\ Outlived /\ [Next]_vars => Outlived'
<1> SUFFICES ASSUME Shape, DeadlinesReached, Outlived, [Next]_vars PROVE Outlived'
  OBVIOUS
<1>0. now \in Nat /\ keep \in Nat /\ lease \in Nat /\ posts \in 0..MaxPosts /\ MaxPosts \in Nat
  BY VerifierAssumption DEF Shape, TypeOK
<1>1. CASE Evict
  <2>1. session = "stored" /\ now >= keep /\ UNCHANGED <<now, lease>>
    BY <1>1 DEF Evict
  <2>2. lease + R < Reach + Latency + CodeDuration
    BY <2>1 DEF DeadlinesReached
  <2>3. /\ R \in Nat /\ Window \in Nat /\ Span(posts) \in Nat /\ Span(MaxPosts) \in Nat
        /\ Span(posts) <= Span(MaxPosts) /\ Span(MaxPosts + 1) = Span(MaxPosts) + Window
    BY <1>0, TimesAreNat
  <2>4. Latency \in Nat /\ CodeDuration \in Nat /\ PresentationTimeout \in Nat
    BY VerifierAssumption
  <2>5. Reach + Latency + CodeDuration <= keep + R
    BY <1>0, <2>3, <2>4 DEF Reach, Window, RetentionCovers, R
  <2>6. lease < keep
    BY <1>0, <2>2, <2>3, <2>4, <2>5 DEF Reach
  <2> QED  BY <1>0, <2>1, <2>6 DEF Outlived
<1>2. CASE ~Evict
  <2>1. session' = "evicted" => session = "evicted" /\ lease' = lease
    <3>1. CASE Authorize \/ PollSession \/ Tick \/ UNCHANGED vars
      BY <3>1 DEF Authorize, PollSession, Tick, vars
    <3>2. ASSUME NEW r \in Requests, Handler(r)
          PROVE  session' = session /\ (session = "evicted" => lease' = lease)
      BY <3>2 DEF Handler, GetOIDCRequestObject, UpdateSessionPreference, ProcessCallback, ReceivePost,
         RejectPost, AcceptPost, MintCode, Save, OpenDisplay, Confirm, Cancel, LookupCode,
         MarkCodeAsForfeited, RefuseToken, SignIDToken, AnswerToken, Fetch, Assign, Leave, Put, Resolvable
    <3> QED  BY <1>2, <3>1, <3>2 DEF Next
  <2>2. now' \in Nat /\ now <= now'
    <3>1. now' = now \/ now' = now + 1
      <4>1. CASE Authorize \/ PollSession \/ Tick \/ UNCHANGED vars
        BY <4>1 DEF Authorize, PollSession, Tick, vars
      <4>2. ASSUME NEW r \in Requests, Handler(r) PROVE now' = now
        BY <4>2 DEF Handler, GetOIDCRequestObject, UpdateSessionPreference, ProcessCallback, ReceivePost,
           RejectPost, AcceptPost, MintCode, Save, OpenDisplay, Confirm, Cancel, LookupCode,
           MarkCodeAsForfeited, RefuseToken, SignIDToken, AnswerToken, Fetch, Assign, Leave, Put
      <4> QED  BY <1>2, <4>1, <4>2 DEF Next
    <3> QED  BY <1>0, <3>1
  <2> QED  BY <1>0, <2>1, <2>2 DEF Outlived
<1> QED  BY <1>1, <1>2

(* authContextRetention on MongoDB: a session outlives every code stored   *)
(* in it, when the retention covers the presentations that are posted.     *)
THEOREM CodesRetained ==
  ASSUME Backend = "mongo", RetentionCovers
  PROVE  Spec => []CodeRetained
<1>1. Init => Outlived
  BY DEF Init, Outlived
<1>2. Shape /\ Outlived => CodeRetained
  <2> SUFFICES ASSUME Shape, Outlived PROVE CodeRetained
    OBVIOUS
  <2>1. now \in Nat /\ lease \in Nat /\ session \in {"none", "stored", "evicted"}
    BY VerifierAssumption DEF Shape, TypeOK
  <2> QED  BY <2>1 DEF Outlived, CodeRetained, Resolvable
<1> QED
  BY <1>1, <1>2, InitShape, StepShape, InitReached, StepReached, StepOutlived, PTL DEF Spec

=============================================================================
