---------------------- MODULE CredentialEndpointProofs ----------------------
(***************************************************************************)
(* Proofs about CredentialEndpoint, for any number of requests, nonces and *)
(* entries, any size of a batch and any number of faults.  The inductive   *)
(* invariant says who owns what: a request that has spent its nonce is the *)
(* only one with it, and every entry a credential refers to belongs to one *)
(* position of one request's replies from the moment it is allocated.      *)
(***************************************************************************)
EXTENDS CredentialEndpoint, TLAPS

(* The request has spent its nonce and is not answered yet.                *)
Spent(c) == pc[c] \in {"allocate", "sign", "invalidate", "save"}

(* The request can still be answered with credentials that refer to the    *)
(* entries of its replies.                                                 *)
Live(c) == pc[c] \in {"allocate", "sign", "save"} /\ format[c] # "plain"

(* Position i of the replies to c is the entry a credential refers to.     *)
Owns(c, i) == format[c] # "plain" /\ i \in 1..Len(replies[c])

(* What a request knows at each of its steps.                              *)
RequestOK(c) ==
  /\ pc[c] \in {"new", "lookup", "consume"} => replies[c] = <<>>
  /\ pc[c] # "sign" => held[c] = None
  /\ pc[c] = "sign" /\ format[c] # "plain" => held[c] # None
  /\ pc[c] = "consume" => use[c] \in Nonces \ fresh
  /\ Spent(c) => use[c] \in Nonces \ (nonce \cup fresh)
  /\ pc[c] \in {"lookup", "consume", "allocate", "sign"} =>
       /\ keys[c] > 0
       /\ Len(replies[c]) + keys[c] <= MaxBatch
       /\ format[c] = "jwp" => keys[c] = 1 /\ replies[c] = <<>>
  /\ pc[c] \notin {"save", "end"} => saved[c] = 0
  /\ pc[c] \in {"invalidate", "save"} => Len(replies[c]) <= MaxBatch
  /\ saved[c] <= Len(replies[c])
  /\ pc[c] = "invalidate" => format[c] = "jwp" /\ Len(replies[c]) > 0

(* A spent nonce belongs to one request, or to one response.               *)
NonceOwned ==
  /\ \A c, d \in Callers : Spent(c) /\ Spent(d) /\ use[c] = use[d] => c = d
  /\ \A a \in wallet : /\ a.nonce \notin nonce \cup fresh
                       /\ \A c \in Callers : Spent(c) => use[c] # a.nonce

(* An entry that is held, or in the replies, is issued.                    *)
EntryIssued ==
  /\ \A c \in Callers : held[c] # None => issued[held[c]] # None
  /\ \A c \in Callers : \A i \in 1..MaxBatch : Owns(c, i) => issued[replies[c][i]] # None

(* An entry is held by one request, or is one position of its replies.     *)
EntryOwned ==
  /\ \A c, d \in Callers : held[c] # None /\ held[d] = held[c] => d = c
  /\ \A c, d \in Callers : \A i \in 1..MaxBatch : Owns(c, i) => held[d] # replies[c][i]
  /\ \A c, d \in Callers : \A i, j \in 1..MaxBatch :
       Owns(c, i) /\ Owns(d, j) /\ replies[d][j] = replies[c][i] => d = c /\ j = i

(* The entry of a credential that is or can be in a wallet is VALID, or an *)
(* administrator wrote it.                                                 *)
StatusKept ==
  /\ \A c \in Callers : held[c] # None /\ issued[held[c]] # Valid => held[c] \in written
  /\ \A c \in Callers : \A i \in 1..MaxBatch :
       Live(c) /\ Owns(c, i) /\ issued[replies[c][i]] # Valid => replies[c][i] \in written
  /\ \A a \in wallet : a.entry # None /\ issued[a.entry] # Valid => a.entry \in written

(* The replies that saveCredentialSubjects is done with have their row.    *)
SubjectsSaved ==
  \A c \in Callers : \A i \in 1..MaxBatch :
    c \notin anon /\ i <= saved[c] /\ replies[c][i][1] > 0 => replies[c][i] \in subjects

(* A credential in a wallet is a reply to a request that has ended.        *)
WalletFromReplies ==
  \A a \in wallet :
    /\ pc[a.by] = "end"
    /\ a.nonce = use[a.by]
    /\ a.no <= saved[a.by]
    /\ a.entry # None => Owns(a.by, a.no) /\ a.entry = replies[a.by][a.no]
    /\ a.entry = None => format[a.by] = "plain"

IInv ==
  /\ TypeOK
  /\ \A c \in Callers : RequestOK(c)
  /\ NonceOwned
  /\ EntryIssued
  /\ EntryOwned
  /\ StatusKept
  /\ SubjectsSaved
  /\ WalletFromReplies

-----------------------------------------------------------------------------
(* Init establishes the inductive invariant.                               *)
LEMMA InitIInv == Init => IInv
<1> SUFFICES ASSUME Init PROVE IInv
  OBVIOUS
<1> USE EndpointAssumption
<1>1. TypeOK
  BY DEF Init, AllocInit, TypeOK, Steps, Formats
<1>2. \A c \in Callers : RequestOK(c)
  BY DEF Init, AllocInit, RequestOK, Spent
<1>3. NonceOwned /\ EntryIssued /\ EntryOwned /\ StatusKept /\ SubjectsSaved /\ WalletFromReplies
  BY DEF Init, AllocInit, NonceOwned, EntryIssued, EntryOwned, StatusKept, SubjectsSaved,
         WalletFromReplies, Spent, Owns, Live
<1> QED BY <1>1, <1>2, <1>3 DEF IInv

(* Nonces are generated, and expire; JTIs expire.                          *)
LEMMA CacheSteps ==
  ASSUME IInv, \/ \E n \in Nonces : VCINonce(n) \/ NonceExpires(n)
               \/ \E j \in JTIs : JTIExpires(j)
  PROVE  IInv'
<1>1. UNCHANGED <<issued, held, pc, use, format, keys, replies, saved, anon,
                  subjects, wallet, written, faults>>
  BY DEF VCINonce, NonceExpires, JTIExpires, allocVars
<1>2. nonce' \cup fresh' \subseteq nonce \cup fresh /\ fresh' \subseteq fresh
  BY DEF VCINonce, NonceExpires, JTIExpires
<1>3. TypeOK'
  BY <1>1 DEF IInv, TypeOK, VCINonce, NonceExpires, JTIExpires, Credential
<1>4. ASSUME NEW c \in Callers PROVE RequestOK(c)'
  BY <1>1, <1>2 DEF IInv, RequestOK, Spent
<1>5. NonceOwned'
  BY <1>1, <1>2 DEF IInv, NonceOwned, Spent
<1>6. EntryIssued' /\ EntryOwned' /\ StatusKept' /\ SubjectsSaved' /\ WalletFromReplies'
  BY <1>1 DEF IInv, EntryIssued, EntryOwned, StatusKept, SubjectsSaved, WalletFromReplies, Owns, Live
<1> QED BY <1>3, <1>4, <1>5, <1>6 DEF IInv

(* The administrator's update is of any entry, and is remembered.          *)
LEMMA AdminStep ==
  ASSUME IInv, NEW e \in Entries, NEW s \in Statuses, AdminUpdate(e, s)
  PROVE  IInv'
<1> USE EndpointAssumption
<1>1. UNCHANGED <<held, nonce, fresh, jti, pc, use, format, keys, replies, saved, anon,
                  subjects, wallet, faults>>
  BY DEF AdminUpdate, SetStatus
<1>2. /\ issued' = [issued EXCEPT ![e] = s]
      /\ issued[e] # None /\ s # None /\ written' = written \cup {e}
  BY DEF AdminUpdate, SetStatus
<1>3. TypeOK'
  BY <1>1, <1>2 DEF IInv, TypeOK, Credential
<1>4. ASSUME NEW c \in Callers PROVE RequestOK(c)'
  BY <1>1 DEF IInv, RequestOK, Spent
<1>5. NonceOwned' /\ SubjectsSaved' /\ WalletFromReplies'
  BY <1>1 DEF IInv, NonceOwned, SubjectsSaved, WalletFromReplies, Spent, Owns
<1>6. \A x \in Entries : /\ issued[x] # None => issued'[x] # None
                         /\ x # e => issued'[x] = issued[x]
  BY <1>2 DEF IInv, TypeOK
<1>7. \A c \in Callers : held[c] # None => held[c] \in Entries
  BY DEF IInv, TypeOK
<1>8. \A c \in Callers : \A i \in 1..MaxBatch : Owns(c, i) => replies[c][i] \in Entries
  BY DEF IInv, TypeOK, Owns
<1>9. EntryIssued'
  <2>1. \A c \in Callers : held[c] # None => issued'[held[c]] # None
    BY <1>6, <1>7 DEF IInv, EntryIssued
  <2>2. \A c \in Callers : \A i \in 1..MaxBatch : Owns(c, i) => issued'[replies[c][i]] # None
    BY <1>6, <1>8 DEF IInv, EntryIssued
  <2> QED BY <1>1, <2>1, <2>2 DEF EntryIssued, Owns
<1>12. EntryOwned'
  BY <1>1 DEF IInv, EntryOwned, Owns
<1>10. \A a \in wallet : a.entry # None => a.entry \in Entries
  BY DEF IInv, TypeOK, Credential
<1>11. StatusKept'
  BY <1>1, <1>2, <1>6, <1>7, <1>8, <1>10 DEF IInv, StatusKept, Owns, Live
<1> QED BY <1>3, <1>4, <1>5, <1>9, <1>11, <1>12 DEF IInv

-----------------------------------------------------------------------------
(* Where a credential in a wallet comes from.                              *)
LEMMA WalletEntry ==
  ASSUME IInv
  PROVE  \A a \in wallet : /\ a.by \in Callers /\ a.no \in 1..MaxBatch /\ pc[a.by] = "end"
                           /\ a.entry # None => a.entry \in Entries /\ issued[a.entry] # None
<1> SUFFICES ASSUME NEW a \in wallet
             PROVE  /\ a.by \in Callers /\ a.no \in 1..MaxBatch /\ pc[a.by] = "end"
                    /\ a.entry # None => a.entry \in Entries /\ issued[a.entry] # None
  OBVIOUS
<1>1. a.by \in Callers /\ a.no \in 1..MaxBatch /\ a.entry \in Entries \cup {None}
  BY DEF IInv, TypeOK, Credential
<1>2. /\ pc[a.by] = "end"
      /\ a.entry # None => Owns(a.by, a.no) /\ a.entry = replies[a.by][a.no]
  BY DEF IInv, WalletFromReplies
<1> QED BY <1>1, <1>2 DEF IInv, EntryIssued

(* A step that ends a request, if it released its entry and left the rest  *)
(* alone.                                                                  *)
LEMMA EndKeeps ==
  ASSUME IInv, NEW c \in Callers, GoTo(c, "end"),
         held' = [held EXCEPT ![c] = None],
         UNCHANGED <<issued, fresh, use, format, keys, replies, saved, subjects, wallet,
                     written>>,
         nonce' \subseteq nonce, anon' = anon, jti' \subseteq JTIs, faults' \in 0..MaxFaults
  PROVE  IInv'
<1> USE EndpointAssumption
<1>1. TypeOK'
  BY DEF IInv, TypeOK, GoTo, Steps, Credential
<1>2. pc \in [Callers -> Steps] /\ held \in [Callers -> Entries \cup {None}]
  BY DEF IInv, TypeOK
<1>3. /\ pc'[c] = "end" /\ held'[c] = None
      /\ \A d \in Callers \ {c} : pc'[d] = pc[d] /\ held'[d] = held[d]
  BY <1>2 DEF GoTo
<1>4. ASSUME NEW d \in Callers PROVE RequestOK(d)'
  BY <1>3 DEF IInv, RequestOK, Spent
<1>5. NonceOwned'
  BY <1>3 DEF IInv, NonceOwned, Spent
<1>6. EntryIssued' /\ EntryOwned'
  <2>1. EntryIssued'
    BY <1>3 DEF IInv, EntryIssued, Owns
  <2>2. \A i \in 1..MaxBatch, d \in Callers : Owns(d, i) => replies[d][i] # None
    BY SMTT(30) DEF IInv, TypeOK, Owns
  <2>3. EntryOwned'
    BY <1>3, <2>2 DEF IInv, EntryOwned, Owns
  <2> QED BY <2>1, <2>3
<1>7. StatusKept'
  BY <1>3 DEF IInv, StatusKept, Live, Owns
<1>8. SubjectsSaved'
  BY DEF IInv, SubjectsSaved
<1>9. WalletFromReplies'
  <2>1. \A a \in wallet : a.by \in Callers
    BY DEF IInv, TypeOK, Credential
  <2> QED BY <1>3, <2>1 DEF IInv, WalletFromReplies, Owns
<1> QED BY <1>1, <1>4, <1>5, <1>6, <1>7, <1>8, <1>9 DEF IInv

(* Until its first reply a request owns nothing: what a step of it keeps   *)
(* that only moves it on.                                                  *)
LEMMA EarlyKeeps ==
  ASSUME IInv, NEW c \in Callers, TypeOK', RequestOK(c)', pc[c] # "end",
         replies[c] = <<>>, pc'[c] \in {"lookup", "consume", "allocate"},
         Spent(c)' => /\ use'[c] \in nonce \cup fresh,
         UNCHANGED <<issued, held, fresh, replies, saved, subjects, wallet, written>>,
         nonce' \subseteq nonce, anon \subseteq anon', 
         \A d \in Callers \ {c} : /\ pc'[d] = pc[d] /\ use'[d] = use[d]
                                  /\ format'[d] = format[d] /\ keys'[d] = keys[d]
  PROVE  IInv'
<1> USE EndpointAssumption
<1>1. ASSUME NEW d \in Callers PROVE RequestOK(d)'
  BY DEF IInv, RequestOK, Spent
<1>2. NonceOwned'
  BY DEF IInv, NonceOwned, RequestOK, Spent
<1>3. \A d \in Callers, i \in 1..MaxBatch : (Owns(d, i)' <=> Owns(d, i)) /\ (Owns(d, i) => d # c)
  BY DEF Owns
<1>4. EntryIssued' /\ EntryOwned'
  BY <1>3 DEF IInv, EntryIssued, EntryOwned
<1>5. StatusKept'
  BY <1>3 DEF IInv, StatusKept, Live
<1>6. SubjectsSaved'
  BY DEF IInv, SubjectsSaved
<1>7. WalletFromReplies'
  <2>1. \A a \in wallet : a.by \in Callers \ {c} /\ a.no \in 1..MaxBatch
    BY DEF IInv, TypeOK, Credential, WalletFromReplies
  <2> QED BY <1>3, <2>1 DEF IInv, WalletFromReplies
<1> QED BY <1>1, <1>2, <1>4, <1>5, <1>6, <1>7 DEF IInv

(* The request is received.                                                *)
LEMMA ReceiveStep ==
  ASSUME IInv, NEW c \in Callers, NEW j \in JTIs, ReceiveRequest(c, j)
  PROVE  IInv'
<1> USE EndpointAssumption
<1>1. /\ pc[c] = "new" /\ replies[c] = <<>> /\ held[c] = None /\ saved[c] = 0
      /\ jti' = jti \cup {j}
      /\ UNCHANGED <<issued, held, nonce, fresh, use, replies, saved, subjects, wallet,
                     written, faults>>
  BY DEF IInv, RequestOK, ReceiveRequest, allocVars
<1>2. CASE GoTo(c, "end") /\ UNCHANGED <<format, keys, anon>>
  <2>1. held' = [held EXCEPT ![c] = None]
    BY <1>1 DEF IInv, TypeOK
  <2> QED BY <1>1, <1>2, <2>1, EndKeeps DEF IInv, TypeOK
<1>3. CASE ~(GoTo(c, "end") /\ UNCHANGED <<format, keys, anon>>)
  <2>1. PICK f \in Formats, k \in 1..MaxBatch :
          /\ f = "jwp" => k = 1
          /\ format' = [format EXCEPT ![c] = f]
          /\ keys' = [keys EXCEPT ![c] = k]
    BY <1>3 DEF ReceiveRequest
  <2>2. pc' = [pc EXCEPT ![c] = "lookup"] /\ (anon' = anon \/ anon' = anon \cup {c})
    BY <1>3 DEF ReceiveRequest, GoTo
  <2>3. TypeOK'
    BY <1>1, <2>1, <2>2 DEF IInv, TypeOK, Steps, Credential
  <2>4. RequestOK(c)'
    BY <1>1, <2>1, <2>2 DEF IInv, TypeOK, RequestOK, Spent
  <2> QED BY <1>1, <2>1, <2>2, <2>3, <2>4, EarlyKeeps DEF IInv, TypeOK, Spent
<1> QED BY <1>2, <1>3

(* Its nonce is looked up, and stays in the cache.                         *)
LEMMA LookUpStep == ASSUME IInv, NEW c \in Callers, LookUpNonce(c) PROVE IInv'
<1> USE EndpointAssumption
<1>1. /\ pc[c] = "lookup" /\ replies[c] = <<>> /\ held[c] = None /\ saved[c] = 0
      /\ UNCHANGED <<issued, held, nonce, fresh, jti, format, keys, replies, saved, anon,
                     subjects, wallet, written, faults>>
  BY DEF IInv, RequestOK, LookUpNonce, allocVars
<1>2. CASE GoTo(c, "end") /\ UNCHANGED use
  <2>1. held' = [held EXCEPT ![c] = None]
    BY <1>1 DEF IInv, TypeOK
  <2> QED BY <1>1, <1>2, <2>1, EndKeeps DEF IInv, TypeOK
<1>3. CASE ~(GoTo(c, "end") /\ UNCHANGED use)
  <2>1. PICK n \in nonce : use' = [use EXCEPT ![c] = n]
    BY <1>3 DEF LookUpNonce
  <2>2. pc' = [pc EXCEPT ![c] = "consume"]
    BY <1>3 DEF LookUpNonce, GoTo
  <2>3. TypeOK'
    BY <1>1, <2>1, <2>2 DEF IInv, TypeOK, Steps, Credential
  <2>4. RequestOK(c)'
    BY <1>1, <2>1, <2>2 DEF IInv, TypeOK, RequestOK, Spent
  <2> QED BY <1>1, <2>1, <2>2, <2>3, <2>4, EarlyKeeps DEF IInv, TypeOK, Spent
<1> QED BY <1>2, <1>3

(* GetAndDelete: the request that finds the nonce is its only owner.       *)
LEMMA ConsumeStep == ASSUME IInv, NEW c \in Callers, ConsumeNonce(c) PROVE IInv'
<1> USE EndpointAssumption
<1>1. /\ pc[c] = "consume" /\ replies[c] = <<>> /\ held[c] = None /\ saved[c] = 0
      /\ nonce' = nonce \ {use[c]}
      /\ UNCHANGED <<issued, held, fresh, jti, use, format, keys, replies, saved, anon,
                     subjects, wallet, written, faults>>
  BY DEF IInv, RequestOK, ConsumeNonce, allocVars
<1>2. CASE GoTo(c, "end")
  <2>1. held' = [held EXCEPT ![c] = None]
    BY <1>1 DEF IInv, TypeOK
  <2> QED BY <1>1, <1>2, <2>1, EndKeeps DEF IInv, TypeOK
<1>3. CASE use[c] \in nonce /\ GoTo(c, "allocate")
  <2>2. pc' = [pc EXCEPT ![c] = "allocate"]
    BY <1>3 DEF GoTo
  <2>3. TypeOK'
    BY <1>1, <2>2 DEF IInv, TypeOK, Steps, Credential
  <2>4. RequestOK(c)'
    BY <1>1, <1>3, <2>2 DEF IInv, TypeOK, RequestOK, Spent
  <2> QED BY <1>1, <1>3, <2>2, <2>3, <2>4, EarlyKeeps DEF IInv, TypeOK, Spent
<1> QED BY <1>2, <1>3 DEF ConsumeNonce

-----------------------------------------------------------------------------
(* The entry that AddStatus gives was nobody's.                            *)
LEMMA AllocateStep == ASSUME IInv, NEW c \in Callers, AllocateEntry(c) PROVE IInv'
<1> USE EndpointAssumption
<1>1. /\ pc[c] = "allocate" /\ held[c] = None /\ saved[c] = 0
      /\ UNCHANGED <<nonce, fresh, jti, use, format, keys, replies, saved, anon,
                     subjects, wallet, written>>
  BY DEF IInv, RequestOK, AllocateEntry
<1>2. held \in [Callers -> Entries \cup {None}] /\ pc \in [Callers -> Steps]
      /\ issued \in [Entries -> Statuses \cup {None}]
  BY DEF IInv, TypeOK
<1>3. CASE Failure /\ GoTo(c, "end") /\ UNCHANGED allocVars
  <2>1. held' = [held EXCEPT ![c] = None] /\ UNCHANGED issued
    BY <1>1, <1>2, <1>3 DEF allocVars
  <2>2. faults' \in 0..MaxFaults
    BY <1>3 DEF IInv, TypeOK, Failure
  <2> QED BY <1>1, <1>3, <2>1, <2>2, EndKeeps DEF IInv, TypeOK
<1>4. ASSUME GoTo(c, "sign"), NEW e \in Entries \cup {None},
             held' = [held EXCEPT ![c] = e], faults' \in 0..MaxFaults,
             format[c] # "plain" => e # None,
             e # None => issued[e] = None /\ issued' = [issued EXCEPT ![e] = 0],
             e = None => issued' = issued
      PROVE  IInv'
  <2>1. /\ pc'[c] = "sign" /\ held'[c] = e
        /\ \A d \in Callers \ {c} : pc'[d] = pc[d] /\ held'[d] = held[d]
    BY <1>2, <1>4 DEF GoTo
  <2>2. /\ e # None => issued'[e] = Valid
        /\ \A x \in Entries : x # e => issued'[x] = issued[x]
    BY <1>2, <1>4 DEF Valid
  <2>3. TypeOK'
    BY <1>1, <1>4 DEF IInv, TypeOK, GoTo, Steps, Credential
  <2>4. ASSUME NEW d \in Callers PROVE RequestOK(d)'
    BY <1>1, <1>4, <2>1 DEF IInv, RequestOK, Spent
  <2>5. NonceOwned'
    BY <1>1, <2>1 DEF IInv, NonceOwned, Spent
  <2>6. \A d \in Callers, i \in 1..MaxBatch :
          /\ Owns(d, i)' <=> Owns(d, i)
          /\ Owns(d, i) => replies[d][i] \in Entries /\ issued[replies[d][i]] # None
                           /\ replies[d][i] # e
    BY <1>1, <1>4, SMTT(30) DEF IInv, TypeOK, EntryIssued, Owns
  <2>7. \A d \in Callers : held[d] # None => /\ held[d] \in Entries /\ held[d] # e
                                             /\ issued[held[d]] # None
    BY <1>2, <1>4 DEF IInv, EntryIssued
  <2>8. EntryIssued'
    <3>1. \A d \in Callers : held'[d] # None => issued'[held'[d]] # None
      BY <2>1, <2>2, <2>7 DEF Valid
    <3>2. \A d \in Callers : \A i \in 1..MaxBatch : Owns(d, i) => issued'[replies[d][i]] # None
      BY <2>2, <2>6
    <3> QED BY <1>1, <2>6, <3>1, <3>2 DEF EntryIssued
  <2>9. EntryOwned'
    <3>1. \A d, x \in Callers : held'[d] # None /\ held'[x] = held'[d] => x = d
      BY <2>1, <2>7 DEF IInv, EntryOwned
    <3>2. \A d, x \in Callers : \A i \in 1..MaxBatch : Owns(d, i) => held'[x] # replies[d][i]
      BY <2>1, <2>6 DEF IInv, EntryOwned
    <3> QED BY <1>1, <2>6, <3>1, <3>2 DEF IInv, EntryOwned
  <2>10. StatusKept'
    <3>1. \A d \in Callers : held'[d] # None /\ issued'[held'[d]] # Valid => held'[d] \in written
      BY <2>1, <2>2, <2>7 DEF IInv, StatusKept
    <3>2. \A d \in Callers : \A i \in 1..MaxBatch :
            Live(d)' /\ Owns(d, i) /\ issued'[replies[d][i]] # Valid => replies[d][i] \in written
      BY <1>1, <2>1, <2>2, <2>6 DEF IInv, StatusKept, Live
    <3>3. \A a \in wallet : a.entry # None => a.entry \in Entries /\ issued[a.entry] # None
      BY WalletEntry
    <3>4. \A a \in wallet : a.entry # None /\ issued'[a.entry] # Valid => a.entry \in written
      BY <1>4, <2>2, <3>3 DEF IInv, StatusKept
    <3> QED BY <1>1, <2>6, <3>1, <3>2, <3>4 DEF StatusKept
  <2>11. SubjectsSaved'
    BY <1>1 DEF IInv, SubjectsSaved
  <2>12. WalletFromReplies'
    <3>1. \A a \in wallet : a.by \in Callers \ {c}
      BY <1>1 DEF IInv, TypeOK, Credential, WalletFromReplies
    <3> QED BY <1>1, <2>1, <3>1 DEF IInv, WalletFromReplies, Owns
  <2> QED BY <2>3, <2>4, <2>5, <2>8, <2>9, <2>10, <2>11, <2>12 DEF IInv
<1>5. CASE \E e \in Entries : Allocate(c, e) /\ GoTo(c, "sign") /\ UNCHANGED faults
  <2>1. PICK e \in Entries : Allocate(c, e) /\ GoTo(c, "sign") /\ UNCHANGED faults
    BY <1>5
  <2>2. e # None /\ faults' \in 0..MaxFaults
    BY <2>1 DEF IInv, TypeOK
  <2> QED BY <2>1, <2>2, <1>4 DEF Allocate
<1>6. CASE Failure /\ format[c] = "plain" /\ GoTo(c, "sign") /\ UNCHANGED allocVars
  <2>1. held' = [held EXCEPT ![c] = None] /\ UNCHANGED issued
    BY <1>1, <1>2, <1>6 DEF allocVars
  <2>2. faults' \in 0..MaxFaults
    BY <1>6 DEF IInv, TypeOK, Failure
  <2> QED BY <1>4, <1>6, <2>1, <2>2
<1> QED BY <1>3, <1>5, <1>6 DEF AllocateEntry

(* Appending an entry to the replies.                                      *)
LEMMA AppendEntry ==
  ASSUME NEW s \in Seq(Entries), NEW e \in Entries
  PROVE  /\ Append(s, e) \in Seq(Entries)
         /\ Len(Append(s, e)) = Len(s) + 1
         /\ \A i \in 1..Len(s) : Append(s, e)[i] = s[i]
         /\ Append(s, e)[Len(s) + 1] = e
OBVIOUS

(* However a call ends, the entry it held is released and nothing written. *)
LEMMA Released ==
  ASSUME IInv, NEW c \in Callers, ReleaseHeld(c)
  PROVE  held' = [held EXCEPT ![c] = None] /\ issued' = issued
BY DEF IInv, TypeOK, ReleaseHeld, Release, allocVars

(* The issuer answers: the entry moves from the call to the replies.  The  *)
(* request goes on with the next key, to its rows, or to hand it back.     *)
LEMMA ReplyKeeps ==
  ASSUME IInv, NEW c \in Callers, pc[c] = "sign",
         held' = [held EXCEPT ![c] = None],
         NEW e \in Entries, format[c] # "plain" => e = held[c],
         replies' = [replies EXCEPT ![c] = Append(@, e)],
         pc'[c] \in {"allocate", "invalidate", "save"},
         \A d \in Callers \ {c} : pc'[d] = pc[d] /\ keys'[d] = keys[d],
         TypeOK', RequestOK(c)',
         UNCHANGED <<issued, nonce, fresh, use, format, saved, anon, subjects, wallet,
                     written>>
  PROVE  IInv'
<1> USE EndpointAssumption
<1> DEFINE n == Len(replies[c]) + 1
<1>1. /\ replies \in [Callers -> Seq(Entries)] /\ held \in [Callers -> Entries \cup {None}]
      /\ pc \in [Callers -> Steps]
  BY DEF IInv, TypeOK
<1>2. /\ held'[c] = None
      /\ \A d \in Callers \ {c} : held'[d] = held[d] /\ replies'[d] = replies[d]
  BY <1>1
<1>3. /\ Len(replies'[c]) = n /\ n \in Nat /\ replies'[c][n] = e
      /\ \A i \in 1..Len(replies[c]) : replies'[c][i] = replies[c][i]
  BY <1>1, AppendEntry
<1>4. saved[c] = 0 /\ n <= MaxBatch
  BY <1>1 DEF IInv, RequestOK, TypeOK
<1>5. ASSUME NEW d \in Callers, NEW i \in 1..MaxBatch
      PROVE  /\ Owns(d, i)' <=> Owns(d, i) \/ (format[c] # "plain" /\ d = c /\ i = n)
             /\ Owns(d, i) => replies'[d][i] = replies[d][i] /\ ~(d = c /\ i = n)
  BY <1>1, <1>2, <1>3, SMTT(30) DEF Owns
<1> HIDE DEF n
<1>6. ASSUME NEW d \in Callers PROVE RequestOK(d)'
  <2>1. CASE d # c
    BY <1>2, <2>1 DEF IInv, RequestOK, Spent
  <2> QED BY <2>1
<1>7. NonceOwned'
  BY DEF IInv, NonceOwned, Spent
<1>8. EntryIssued'
  <2>1. \A d \in Callers : held'[d] # None => issued[held'[d]] # None
    BY <1>2 DEF IInv, EntryIssued
  <2>2. format[c] # "plain" => issued[e] # None
    BY DEF IInv, EntryIssued
  <2>3. \A d \in Callers : \A i \in 1..MaxBatch : Owns(d, i)' => issued[replies'[d][i]] # None
    <3> SUFFICES ASSUME NEW d \in Callers, NEW i \in 1..MaxBatch, Owns(d, i)'
                 PROVE  issued[replies'[d][i]] # None
      OBVIOUS
    <3>1. CASE Owns(d, i)
      <4>1. replies'[d][i] = replies[d][i]
        BY <3>1, <1>5
      <4> QED BY <3>1, <4>1 DEF IInv, EntryIssued
    <3>2. CASE format[c] # "plain" /\ d = c /\ i = n
      BY <3>2, <1>3, <2>2
    <3> QED BY <3>1, <3>2, <1>5
  <2> QED BY <2>1, <2>3 DEF EntryIssued
<1>9. EntryOwned'
  <2>1. \A d, x \in Callers : held'[d] # None /\ held'[x] = held'[d] => x = d
    BY <1>2 DEF IInv, EntryOwned
  <2>2. \A d, x \in Callers : \A i \in 1..MaxBatch : Owns(d, i)' => held'[x] # replies'[d][i]
    <3> SUFFICES ASSUME NEW d \in Callers, NEW x \in Callers, NEW i \in 1..MaxBatch,
                        Owns(d, i)', held'[x] = replies'[d][i]
                 PROVE  FALSE
      OBVIOUS
    <3>1. CASE Owns(d, i)
      <4>1. replies'[d][i] \in Entries /\ replies'[d][i] = replies[d][i]
        BY <3>1, <1>1, <1>5, SMTT(30) DEF Owns
      <4>2. held[x] # replies[d][i]
        BY <3>1 DEF IInv, EntryOwned
      <4> QED BY <4>1, <4>2, <1>2, ZenonT(30)
    <3>2. CASE format[c] # "plain" /\ d = c /\ i = n
      BY <3>2, <1>2, <1>3 DEF IInv, EntryOwned
    <3> QED BY <3>1, <3>2, <1>5
  <2>3. \A d, x \in Callers : \A i, j \in 1..MaxBatch :
          Owns(d, i)' /\ Owns(x, j)' /\ replies'[x][j] = replies'[d][i] => x = d /\ j = i
    <3>1. \A d \in Callers : \A i \in 1..MaxBatch :
            format[c] # "plain" /\ Owns(d, i) => replies[d][i] # e
      BY DEF IInv, EntryOwned
    <3> SUFFICES ASSUME NEW d \in Callers, NEW x \in Callers, NEW i \in 1..MaxBatch,
                        NEW j \in 1..MaxBatch, Owns(d, i)', Owns(x, j)',
                        replies'[x][j] = replies'[d][i]
                 PROVE  x = d /\ j = i
      OBVIOUS
    <3>2. CASE Owns(d, i) /\ Owns(x, j)
      <4>1. replies'[d][i] = replies[d][i] /\ replies'[x][j] = replies[x][j]
        BY <3>2, <1>5
      <4>2. Owns(d, i) /\ Owns(x, j) /\ replies[x][j] = replies[d][i] => x = d /\ j = i
        BY DEF IInv, EntryOwned
      <4> QED BY <3>2, <4>1, <4>2
    <3>3. CASE Owns(d, i) /\ ~Owns(x, j)
      <4>1. replies'[d][i] = replies[d][i] /\ format[c] # "plain" /\ x = c /\ j = n
        BY <3>3, <1>5
      <4> QED BY <3>1, <3>3, <4>1, <1>3, ZenonT(30)
    <3>4. CASE ~Owns(d, i) /\ Owns(x, j)
      <4>1. replies'[x][j] = replies[x][j] /\ format[c] # "plain" /\ d = c /\ i = n
        BY <3>4, <1>5
      <4> QED BY <3>1, <3>4, <4>1, <1>3
    <3>5. CASE ~Owns(d, i) /\ ~Owns(x, j)
      BY <3>5, <1>5
    <3> QED BY <3>2, <3>3, <3>4, <3>5
  <2> QED BY <2>1, <2>2, <2>3 DEF EntryOwned
<1>10. StatusKept'
  <2>1. \A d \in Callers : held'[d] # None /\ issued[held'[d]] # Valid => held'[d] \in written
    BY <1>2 DEF IInv, StatusKept
  <2>2. format[c] # "plain" /\ issued[e] # Valid => e \in written
    BY DEF IInv, StatusKept
  <2>3. \A d \in Callers : \A i \in 1..MaxBatch :
          Live(d)' /\ Owns(d, i)' /\ issued[replies'[d][i]] # Valid => replies'[d][i] \in written
    <3>1. \A d \in Callers : Live(d)' => Live(d)
      BY DEF Live
    <3> SUFFICES ASSUME NEW d \in Callers, NEW i \in 1..MaxBatch, Live(d)', Owns(d, i)',
                        issued[replies'[d][i]] # Valid
                 PROVE  replies'[d][i] \in written
      OBVIOUS
    <3>2. CASE Owns(d, i)
      BY <3>1, <3>2, <1>5 DEF IInv, StatusKept
    <3>3. CASE format[c] # "plain" /\ d = c /\ i = n
      BY <3>3, <1>3, <2>2
    <3> QED BY <3>2, <3>3, <1>5
  <2> QED BY <2>1, <2>3 DEF IInv, StatusKept
<1>11. SubjectsSaved'
  BY <1>2, <1>4 DEF IInv, SubjectsSaved
<1>12. WalletFromReplies'
  <2>1. \A a \in wallet : a.by \in Callers \ {c} /\ a.no \in 1..MaxBatch
    BY WalletEntry
  <2> QED BY <1>2, <1>5, <2>1 DEF IInv, WalletFromReplies
<1> QED BY <1>6, <1>7, <1>8, <1>9, <1>10, <1>11, <1>12 DEF IInv

(* The credential is signed.                                               *)
LEMMA SignStep == ASSUME IInv, NEW c \in Callers, Sign(c) PROVE IInv'
<1> USE EndpointAssumption
<1> DEFINE e == ReplyEntry(c)
<1>1. /\ pc[c] = "sign" /\ held' = [held EXCEPT ![c] = None] /\ issued' = issued
      /\ UNCHANGED <<nonce, fresh, jti, use, format, saved, anon, subjects, wallet,
                     written, faults>>
  BY Released DEF Sign
<1>2. /\ replies \in [Callers -> Seq(Entries)] /\ held \in [Callers -> Entries \cup {None}]
      /\ pc \in [Callers -> Steps] /\ keys \in [Callers -> 0..MaxBatch]
  BY DEF IInv, TypeOK
<1>3. e \in Entries /\ (format[c] # "plain" => e = held[c])
  BY <1>1, <1>2 DEF ReplyEntry, IInv, RequestOK
<1>4. /\ replies' = [replies EXCEPT ![c] = Append(@, e)]
      /\ keys' = [keys EXCEPT ![c] = @ - 1]
      /\ pc' = [pc EXCEPT ![c] = IF keys[c] > 1 THEN "allocate" ELSE "save"]
  BY DEF Sign, GoTo
<1>5. /\ keys[c] > 0 /\ Len(replies[c]) + keys[c] <= MaxBatch /\ saved[c] = 0
      /\ format[c] = "jwp" => keys[c] = 1
      /\ use[c] \in Nonces \ (nonce \cup fresh)
  BY <1>1 DEF IInv, RequestOK, Spent
<1>6. /\ Append(replies[c], e) \in Seq(Entries) /\ Len(replies'[c]) = Len(replies[c]) + 1
      /\ Len(replies[c]) \in Nat
  BY <1>2, <1>3, <1>4, AppendEntry
<1>7. TypeOK'
  <2>1. keys' \in [Callers -> 0..MaxBatch]
    BY <1>2, <1>4, <1>5
  <2>2. replies' \in [Callers -> Seq(Entries)]
    BY <1>2, <1>4, <1>6
  <2> QED BY <1>1, <1>2, <1>4, <2>1, <2>2 DEF IInv, TypeOK, Steps, Credential
<1>8. RequestOK(c)'
  <2>1. /\ keys'[c] = keys[c] - 1 /\ held'[c] = None
        /\ pc'[c] = IF keys[c] > 1 THEN "allocate" ELSE "save"
    BY <1>1, <1>2, <1>4
  <2> QED BY <1>1, <1>2, <1>5, <1>6, <2>1 DEF RequestOK, Spent
<1>9. pc'[c] \in {"allocate", "invalidate", "save"}
  BY <1>2, <1>4
<1> HIDE DEF e
<1> QED BY <1>1, <1>2, <1>3, <1>4, <1>7, <1>8, <1>9, ReplyKeeps

(* Signing fails: only MakeJWP remembers its entry, to hand it back.       *)
LEMMA SignFailsStep == ASSUME IInv, NEW c \in Callers, SignFails(c) PROVE IInv'
<1> USE EndpointAssumption
<1>1. /\ pc[c] = "sign" /\ held' = [held EXCEPT ![c] = None] /\ issued' = issued
      /\ UNCHANGED <<nonce, fresh, jti, use, format, keys, saved, anon, subjects,
                     wallet, written>>
  BY Released DEF SignFails
<1>2. faults' \in 0..MaxFaults
  BY DEF IInv, TypeOK, SignFails, Failure
<1>3. CASE format[c] # "jwp"
  BY <1>1, <1>2, <1>3, EndKeeps DEF SignFails, IInv, TypeOK
<1>4. CASE format[c] = "jwp"
  <2>1. /\ replies \in [Callers -> Seq(Entries)] /\ held \in [Callers -> Entries \cup {None}]
        /\ pc \in [Callers -> Steps] /\ keys \in [Callers -> 0..MaxBatch]
    BY DEF IInv, TypeOK
  <2>2. /\ replies[c] = <<>> /\ held[c] \in Entries /\ keys[c] = 1 /\ saved[c] = 0
        /\ use[c] \in Nonces \ (nonce \cup fresh)
    BY <1>1, <1>4, <2>1 DEF IInv, RequestOK, Spent
  <2>3. Append(<<>>, held[c]) = <<held[c]>>
    OBVIOUS
  <2>4. /\ replies' = [replies EXCEPT ![c] = Append(@, held[c])]
        /\ pc' = [pc EXCEPT ![c] = "invalidate"]
    BY <1>4, <2>2, <2>3 DEF SignFails, GoTo
  <2>5. TypeOK'
    <3>1. replies' \in [Callers -> Seq(Entries)]
      BY <2>1, <2>2, <2>4, AppendEntry
    <3> QED BY <1>1, <1>2, <2>1, <2>2, <2>4, <3>1 DEF IInv, TypeOK, Steps, Credential
  <2>6. RequestOK(c)'
    <3>1. pc'[c] = "invalidate" /\ held'[c] = None /\ Len(replies'[c]) = 1
      BY <1>1, <2>1, <2>2, <2>4
    <3>2. 1 <= MaxBatch
      BY <2>1, <2>2
    <3> QED BY <1>1, <1>4, <2>2, <3>1, <3>2 DEF RequestOK, Spent
  <2>7. pc'[c] = "invalidate"
    BY <2>1, <2>4
  <2> QED BY <1>1, <2>1, <2>2, <2>4, <2>5, <2>6, <2>7, ReplyKeeps
<1> QED BY <1>3, <1>4

(* The entry handed back is the request's own, and in no wallet.           *)
LEMMA InvalidateStep ==
  ASSUME IInv, NEW c \in Callers, InvalidateStatusEntry(c)
  PROVE  IInv'
<1> USE EndpointAssumption
<1> DEFINE e == replies[c][1]
<1>1. /\ pc[c] = "invalidate" /\ GoTo(c, "end") /\ held[c] = None
      /\ UNCHANGED <<nonce, fresh, jti, use, format, keys, replies, saved, anon,
                     subjects, wallet, written>>
  BY DEF IInv, RequestOK, InvalidateStatusEntry
<1>2. /\ replies \in [Callers -> Seq(Entries)] /\ held \in [Callers -> Entries \cup {None}]
      /\ pc \in [Callers -> Steps] /\ issued \in [Entries -> Statuses \cup {None}]
  BY DEF IInv, TypeOK
<1>3. CASE Failure /\ UNCHANGED allocVars
  <2>1. held' = [held EXCEPT ![c] = None] /\ issued' = issued
    BY <1>1, <1>2, <1>3 DEF allocVars
  <2>2. faults' \in 0..MaxFaults
    BY <1>3 DEF IInv, TypeOK, Failure
  <2> QED BY <1>1, <2>1, <2>2, EndKeeps DEF IInv, TypeOK
<1>4. CASE SetStatus(e, Invalid) /\ UNCHANGED faults
  <2>1. /\ issued' = [issued EXCEPT ![e] = Invalid] /\ issued[e] # None
        /\ UNCHANGED held
    BY <1>4 DEF SetStatus
  <2>2. Len(replies[c]) \in Nat /\ Len(replies[c]) > 0 /\ format[c] = "jwp"
    BY <1>1, <1>2 DEF IInv, RequestOK
  <2>3. MaxBatch > 0 => Owns(c, 1)
    BY <2>2 DEF Owns
  <2>4. e \in Entries
    BY <1>2, <2>2
  <2>5. \A x \in Entries : /\ x # e => issued'[x] = issued[x]
                           /\ issued[x] # None => issued'[x] # None
    BY <1>2, <2>1 DEF Invalid
  <2>6. /\ pc'[c] = "end"
        /\ \A d \in Callers \ {c} : pc'[d] = pc[d]
    BY <1>1, <1>2 DEF GoTo
  <2>7. TypeOK'
    BY <1>1, <1>4, <2>1, <2>4 DEF IInv, TypeOK, GoTo, Steps, Credential, Invalid
  <2>8. ASSUME NEW d \in Callers PROVE RequestOK(d)'
    BY <1>1, <2>1, <2>6 DEF IInv, RequestOK, Spent
  <2>9. NonceOwned'
    BY <1>1, <2>6 DEF IInv, NonceOwned, Spent
  <2>10. \A d \in Callers : \A i \in 1..MaxBatch :
           /\ Owns(d, i)' <=> Owns(d, i)
           /\ Owns(d, i) => replies[d][i] \in Entries /\ issued[replies[d][i]] # None
    <3>1. \A d \in Callers : \A i \in 1..MaxBatch : Owns(d, i)' <=> Owns(d, i)
      BY <1>1 DEF Owns
    <3>2. ASSUME NEW d \in Callers, NEW i \in 1..MaxBatch, Owns(d, i)
          PROVE  replies[d][i] \in Entries
      <4>1. replies[d] \in Seq(Entries) /\ i \in 1..Len(replies[d])
        BY <1>2, <3>2 DEF Owns
      <4> QED BY <4>1
    <3>3. \A d \in Callers : \A i \in 1..MaxBatch : Owns(d, i) => issued[replies[d][i]] # None
      BY DEF IInv, EntryIssued
    <3> QED BY <3>1, <3>2, <3>3
  <2>11. EntryIssued'
    <3>1. \A d \in Callers : held[d] # None => issued'[held[d]] # None
      BY <1>2, <2>5 DEF IInv, EntryIssued
    <3>2. \A d \in Callers : \A i \in 1..MaxBatch : Owns(d, i) => issued'[replies[d][i]] # None
      BY <2>5, <2>10
    <3> QED BY <1>1, <2>1, <2>10, <3>1, <3>2 DEF EntryIssued
  <2>12. EntryOwned'
    BY <1>1, <2>1, <2>10 DEF IInv, EntryOwned
  <2>13. StatusKept'
    <3>1. MaxBatch > 0 => \A d \in Callers : held[d] # e
      <4>1. \A d \in Callers : \A i \in 1..MaxBatch : Owns(c, i) => held[d] # replies[c][i]
        BY DEF IInv, EntryOwned
      <4> QED BY <2>3, <4>1
    <3>2. MaxBatch > 0 => \A d \in Callers : \A i \in 1..MaxBatch :
                           Owns(d, i) /\ replies[d][i] = e => d = c
      <4>1. \A d \in Callers : \A i, k \in 1..MaxBatch :
              Owns(c, k) /\ Owns(d, i) /\ replies[d][i] = replies[c][k] => d = c
        BY DEF IInv, EntryOwned
      <4> QED BY <2>3, <4>1
    <3>3. MaxBatch > 0
      BY <1>1, <2>2 DEF IInv, RequestOK
    <3>4. \A d \in Callers : held[d] # None /\ issued'[held[d]] # Valid => held[d] \in written
      BY <1>2, <2>5, <3>1, <3>3 DEF IInv, StatusKept
    <3>5. \A d \in Callers : \A i \in 1..MaxBatch :
            Live(d)' /\ Owns(d, i) /\ issued'[replies[d][i]] # Valid => replies[d][i] \in written
      BY <1>1, <2>5, <2>6, <2>10, <3>2, <3>3 DEF IInv, StatusKept, Live
    <3>6. \A a \in wallet : a.entry # None => a.entry \in Entries /\ a.entry # e
      <4> SUFFICES ASSUME NEW a \in wallet, a.entry # None
                   PROVE  a.entry \in Entries /\ a.entry # e
        OBVIOUS
      <4>1. /\ a.by \in Callers /\ a.no \in 1..MaxBatch /\ pc[a.by] = "end"
            /\ a.entry \in Entries
        BY WalletEntry
      <4>2. Owns(a.by, a.no) /\ a.entry = replies[a.by][a.no]
        BY DEF IInv, WalletFromReplies
      <4> QED BY <1>1, <3>2, <3>3, <4>1, <4>2
    <3>7. \A a \in wallet : a.entry # None /\ issued'[a.entry] # Valid => a.entry \in written
      BY <2>5, <3>6 DEF IInv, StatusKept
    <3> QED BY <1>1, <2>1, <2>10, <3>4, <3>5, <3>7 DEF StatusKept
  <2>14. SubjectsSaved'
    BY <1>1 DEF IInv, SubjectsSaved
  <2>15. WalletFromReplies'
    <3>1. \A a \in wallet : a.by \in Callers \ {c} /\ a.no \in 1..MaxBatch
      BY <1>1, WalletEntry
    <3> QED BY <1>1, <2>6, <2>10, <3>1 DEF IInv, WalletFromReplies
  <2> QED BY <2>7, <2>8, <2>9, <2>11, <2>12, <2>13, <2>14, <2>15 DEF IInv
<1> QED BY <1>3, <1>4 DEF InvalidateStatusEntry

(* The request dies.                                                       *)
LEMMA DieStep == ASSUME IInv, NEW c \in Callers, Die(c) PROVE IInv'
<1>1. /\ held' = [held EXCEPT ![c] = None] /\ issued' = issued /\ GoTo(c, "end")
      /\ UNCHANGED <<nonce, fresh, jti, use, format, keys, replies, saved, anon,
                     subjects, wallet, written>>
  BY Released DEF Die
<1>2. faults' \in 0..MaxFaults
  BY EndpointAssumption DEF IInv, TypeOK, Die, Failure
<1> QED BY <1>1, <1>2, EndKeeps DEF IInv, TypeOK

-----------------------------------------------------------------------------
(* A reply is done with: its row is written, or none is due.               *)
LEMMA SavedKeeps ==
  ASSUME IInv, NEW c \in Callers, pc[c] = "save",
         NEW n \in saved[c]..Len(replies[c]), saved' = [saved EXCEPT ![c] = n],
         subjects \subseteq subjects', subjects' \subseteq Entries,
         c \notin anon => \A i \in 1..MaxBatch :
           i > saved[c] /\ i <= n /\ replies[c][i][1] > 0 => replies[c][i] \in subjects',
         UNCHANGED <<issued, held, nonce, fresh, jti, pc, use, format, keys, replies, anon,
                     wallet, written, faults>>
  PROVE  IInv'
<1> USE EndpointAssumption
<1>1. /\ saved \in [Callers -> 0..MaxBatch] /\ replies \in [Callers -> Seq(Entries)]
      /\ Len(replies[c]) \in Nat /\ Len(replies[c]) <= MaxBatch
  BY DEF IInv, TypeOK, RequestOK
<1>2. n \in 0..MaxBatch /\ saved[c] <= n
  BY <1>1
<1>3. saved'[c] = n /\ \A d \in Callers \ {c} : saved'[d] = saved[d]
  BY <1>1
<1>4. TypeOK'
  BY <1>1, <1>2 DEF IInv, TypeOK, Credential
<1>5. ASSUME NEW d \in Callers PROVE RequestOK(d)'
  BY <1>1, <1>3 DEF IInv, RequestOK, Spent
<1>6. NonceOwned' /\ EntryIssued' /\ EntryOwned' /\ StatusKept'
  BY DEF IInv, NonceOwned, EntryIssued, EntryOwned, StatusKept, Spent, Owns, Live
<1>7. SubjectsSaved'
  <2>1. SUFFICES ASSUME NEW d \in Callers, NEW i \in 1..MaxBatch, d \notin anon,
                        i <= saved'[d], replies[d][i][1] > 0
                 PROVE  replies[d][i] \in subjects'
    BY DEF SubjectsSaved
  <2>2. CASE i <= saved[d]
    BY <2>1, <2>2 DEF IInv, SubjectsSaved
  <2>3. CASE ~(i <= saved[d]) /\ d = c
    <3>1. i > saved[c]
      BY <1>1, <2>3
    <3>2. i <= n /\ replies[c][i][1] > 0 /\ c \notin anon
      BY <1>3, <2>1, <2>3
    <3> QED BY <2>3, <3>1, <3>2
  <2>4. CASE d # c
    <3>1. saved'[d] = saved[d]
      BY <1>3, <2>4
    <3> QED BY <2>1, <3>1 DEF IInv, SubjectsSaved
  <2> QED BY <2>2, <2>3, <2>4
<1>8. WalletFromReplies'
  <2>1. \A a \in wallet : a.by \in Callers \ {c}
    BY WalletEntry
  <2> QED BY <1>3, <2>1 DEF IInv, WalletFromReplies, Owns
<1> QED BY <1>4, <1>5, <1>6, <1>7, <1>8 DEF IInv

(* saveCredentialSubjects, for a request with or without an identifier.    *)
LEMMA SaveStep ==
  ASSUME IInv, NEW c \in Callers, SkipCredentialSubjects(c) \/ SaveCredentialSubject(c)
  PROVE  IInv'
<1> USE EndpointAssumption
<1>1. /\ saved \in [Callers -> 0..MaxBatch] /\ replies \in [Callers -> Seq(Entries)]
      /\ Len(replies[c]) \in Nat /\ subjects \subseteq Entries
  BY DEF IInv, TypeOK
<1>2. pc[c] = "save" /\ saved[c] < Len(replies[c]) /\ held[c] = None
  BY DEF IInv, RequestOK, SkipCredentialSubjects, SaveCredentialSubject
<1>3. CASE SkipCredentialSubjects(c)
  <2>1. /\ c \in anon /\ saved' = [saved EXCEPT ![c] = Len(replies[c])]
        /\ UNCHANGED <<issued, held, nonce, fresh, jti, pc, use, format, keys, replies, subjects,
                       wallet, written, faults, anon>>
    BY <1>3 DEF SkipCredentialSubjects, allocVars
  <2>2. Len(replies[c]) \in saved[c]..Len(replies[c])
    BY <1>1, <1>2
  <2> QED BY <1>1, <1>2, <2>1, <2>2, SavedKeeps
<1>4. CASE SaveCredentialSubject(c)
  <2> DEFINE e == replies[c][saved[c] + 1]
  <2>1. /\ c \notin anon
        /\ UNCHANGED <<issued, held, nonce, fresh, jti, use, format, keys, replies,
                       wallet, written, anon>>
    BY <1>4 DEF SaveCredentialSubject, allocVars
  <2>2. e \in Entries
    BY <1>1, <1>2
  <2>3. CASE /\ subjects' = IF e[1] > 0 THEN subjects \cup {e} ELSE subjects
             /\ saved' = [saved EXCEPT ![c] = @ + 1]
             /\ UNCHANGED <<pc, faults>>
    <3>1. /\ saved[c] + 1 \in saved[c]..Len(replies[c])
          /\ saved' = [saved EXCEPT ![c] = saved[c] + 1]
          /\ subjects \subseteq subjects' /\ subjects' \subseteq Entries
      BY <1>1, <1>2, <2>2, <2>3
    <3>2. \A i \in 1..MaxBatch :
            i > saved[c] /\ i <= saved[c] + 1 /\ replies[c][i][1] > 0 => replies[c][i] \in subjects'
      <4> SUFFICES ASSUME NEW i \in 1..MaxBatch, i > saved[c], i <= saved[c] + 1,
                          replies[c][i][1] > 0
                   PROVE  replies[c][i] \in subjects'
        OBVIOUS
      <4>1. i = saved[c] + 1
        <5>1. saved[c] \in Nat
          BY <1>1
        <5> QED BY <5>1
      <4> QED BY <4>1, <2>3
    <3> QED BY <1>2, <2>1, <2>3, <3>1, <3>2, SavedKeeps
  <2>4. CASE /\ Failure \/ UNCHANGED faults
             /\ GoTo(c, "end")
             /\ UNCHANGED <<saved, subjects>>
    <3>1. held' = [held EXCEPT ![c] = None]
      BY <1>2, <2>1 DEF IInv, TypeOK
    <3>2. faults' \in 0..MaxFaults
      BY <2>4 DEF IInv, TypeOK, Failure
    <3> QED BY <2>1, <2>4, <3>1, <3>2, EndKeeps DEF IInv, TypeOK
  <2> QED BY <1>4, <2>3, <2>4 DEF SaveCredentialSubject
<1> QED BY <1>3, <1>4

(* The response: the request's entries and its nonce go to the wallet.     *)
LEMMA RespondStep == ASSUME IInv, NEW c \in Callers, Respond(c) PROVE IInv'
<1> USE EndpointAssumption
<1> DEFINE given == {[nonce |-> use[c], by |-> c, no |-> i, entry |-> Reference(c, i)] :
                       i \in 1..Len(replies[c])}
<1>1. /\ pc[c] = "save" /\ saved[c] = Len(replies[c]) /\ wallet' = wallet \cup given
      /\ pc' = [pc EXCEPT ![c] = "end"] /\ held[c] = None
      /\ UNCHANGED <<issued, held, nonce, fresh, jti, use, format, keys, replies, saved, anon,
                     subjects, written, faults>>
  BY DEF IInv, RequestOK, Respond, GoTo, allocVars
<1>2. /\ use[c] \in Nonces \ (nonce \cup fresh)
      /\ replies[c] \in Seq(Entries) /\ Len(replies[c]) \in 0..MaxBatch
      /\ pc \in [Callers -> Steps]
  BY <1>1 DEF IInv, TypeOK, RequestOK, Spent
<1>3. /\ pc'[c] = "end"
      /\ \A d \in Callers \ {c} : pc'[d] = pc[d]
  BY <1>1, <1>2
<1>4. ASSUME NEW a \in given
      PROVE  /\ a.nonce = use[c] /\ a.by = c /\ a.no \in 1..Len(replies[c])
             /\ a.no \in 1..MaxBatch
             /\ a.entry = IF format[c] = "plain" THEN None ELSE replies[c][a.no]
             /\ a \in Credential
  <2>1. PICK i \in 1..Len(replies[c]) :
          a = [nonce |-> use[c], by |-> c, no |-> i, entry |-> Reference(c, i)]
    OBVIOUS
  <2>2. i \in 1..MaxBatch /\ replies[c][i] \in Entries
    BY <1>2, SMTT(30)
  <2>3. Reference(c, i) \in Entries \cup {None}
    BY <2>2 DEF Reference
  <2> QED BY <1>2, <2>1, <2>2, <2>3 DEF Credential, Reference
<1> HIDE DEF given
<1>5. TypeOK'
  BY <1>1, <1>4 DEF IInv, TypeOK, Steps
<1>6. ASSUME NEW d \in Callers PROVE RequestOK(d)'
  BY <1>1, <1>3 DEF IInv, RequestOK, Spent
<1>7. NonceOwned'
  <2>1. \A d \in Callers : Spent(d)' => Spent(d) /\ d # c
    BY <1>3 DEF Spent
  <2>2. Spent(c)
    BY <1>1 DEF Spent
  <2> QED BY <1>1, <1>2, <1>4, <2>1, <2>2 DEF IInv, NonceOwned
<1>8. EntryIssued' /\ EntryOwned'
  BY <1>1 DEF IInv, EntryIssued, EntryOwned, Owns
<1>9. StatusKept'
  <2>1. \A d \in Callers : Live(d)' => Live(d)
    BY <1>1, <1>3 DEF Live
  <2>2. ASSUME NEW a \in given, a.entry # None, issued[a.entry] # Valid
        PROVE  a.entry \in written
    <3>1. Owns(c, a.no) /\ Live(c) /\ a.entry = replies[c][a.no]
      BY <1>1, <1>4, <2>2 DEF Owns, Live
    <3> QED BY <1>4, <2>2, <3>1 DEF IInv, StatusKept
  <2> QED BY <1>1, <2>1, <2>2 DEF IInv, StatusKept, Owns
<1>10. SubjectsSaved'
  BY <1>1 DEF IInv, SubjectsSaved
<1>11. WalletFromReplies'
  <2>1. \A a \in wallet : a.by \in Callers \ {c} /\ a.no \in 1..MaxBatch
    BY <1>1, WalletEntry
  <2>2. \A d \in Callers : \A i \in 1..MaxBatch : Owns(d, i)' <=> Owns(d, i)
    BY <1>1 DEF Owns
  <2>3. ASSUME NEW a \in given
        PROVE  /\ a.by \in Callers /\ pc'[a.by] = "end" /\ a.nonce = use[a.by]
               /\ a.no <= saved[a.by]
               /\ a.entry # None => Owns(a.by, a.no) /\ a.entry = replies[a.by][a.no]
               /\ a.entry = None => format[a.by] = "plain"
    <3>1. replies[c][a.no] \in Entries
      BY <1>2, <1>4
    <3>2. a.by = c /\ a.nonce = use[c] /\ a.no \in 1..Len(replies[c])
      BY <1>4
    <3>3. a.no <= saved[c]
      BY <1>1, <1>2, <3>2
    <3>4. /\ a.entry # None => format[c] # "plain" /\ a.entry = replies[c][a.no]
          /\ a.entry = None => format[c] = "plain"
      BY <1>4, <3>1
    <3> QED BY <1>3, <3>2, <3>3, <3>4 DEF Owns
  <2> QED BY <1>1, <1>3, <1>4, <2>1, <2>2, <2>3 DEF IInv, WalletFromReplies
<1> QED BY <1>5, <1>6, <1>7, <1>8, <1>9, <1>10, <1>11 DEF IInv

-----------------------------------------------------------------------------
(* Every step of the specification keeps the inductive invariant.          *)
LEMMA StepIInv == IInv /\ [Next]_vars => IInv'
<1> SUFFICES ASSUME IInv, [Next]_vars PROVE IInv'
  OBVIOUS
<1>1. CASE UNCHANGED vars
  <2>1. UNCHANGED <<issued, held, nonce, fresh, jti, pc, use, format, keys, replies, saved, anon,
                    subjects, wallet, written, faults>>
    BY <1>1 DEF vars, allocVars, endVars
  <2>2. TypeOK' /\ \A c \in Callers : RequestOK(c)'
    BY <2>1 DEF IInv, TypeOK, RequestOK, Spent, Credential
  <2>3. NonceOwned' /\ EntryIssued' /\ EntryOwned' /\ StatusKept' /\ SubjectsSaved'
        /\ WalletFromReplies'
    BY <2>1 DEF IInv, NonceOwned, EntryIssued, EntryOwned, StatusKept, SubjectsSaved,
                WalletFromReplies, Spent, Owns, Live
  <2> QED BY <2>2, <2>3 DEF IInv
<1>2. CASE \E n \in Nonces : VCINonce(n) \/ NonceExpires(n)
  BY <1>2, CacheSteps
<1>3. CASE \E j \in JTIs : JTIExpires(j)
  BY <1>3, CacheSteps
<1>4. CASE \E c \in Callers :
             \/ \E j \in JTIs : ReceiveRequest(c, j)
             \/ LookUpNonce(c) \/ ConsumeNonce(c)
             \/ AllocateEntry(c) \/ Sign(c) \/ SignFails(c) \/ InvalidateStatusEntry(c) \/ Die(c)
             \/ SkipCredentialSubjects(c) \/ SaveCredentialSubject(c) \/ Respond(c)
  BY <1>4, ReceiveStep, LookUpStep, ConsumeStep, AllocateStep, SignStep, SignFailsStep,
     InvalidateStep, DieStep, SaveStep, RespondStep
<1>5. CASE \E e \in Entries, s \in Statuses : AdminUpdate(e, s)
  BY <1>5, AdminStep
<1> QED BY <1>1, <1>2, <1>3, <1>4, <1>5 DEF Next

(* The inductive invariant holds in every reachable state.                 *)
LEMMA IInvHolds == Spec => []IInv
BY InitIInv, StepIInv, PTL DEF Spec

(* Type correctness of the credential endpoint: the keys left, the replies *)
(* and the rows written never leave the bounds of a batch.                 *)
THEOREM EndpointTypeCorrect == Spec => []TypeOK
<1>1. IInv => TypeOK
  BY DEF IInv
<1> QED BY <1>1, IInvHolds, PTL

(* GetAndDelete spends a nonce once: however many requests have looked it  *)
(* up, the credentials issued for it are those of one response.            *)
THEOREM NonceBuysOne == Spec => []NonceBuysOneResponse
<1>1. Init => NonceBuysOneResponse
  BY DEF Init, NonceBuysOneResponse
<1>2. IInv /\ NonceBuysOneResponse /\ [Next]_vars => NonceBuysOneResponse'
  <2> SUFFICES ASSUME IInv, NonceBuysOneResponse, [Next]_vars
               PROVE  NonceBuysOneResponse'
    OBVIOUS
  <2>1. CASE UNCHANGED wallet
    BY <2>1 DEF NonceBuysOneResponse
  <2>2. CASE \E c \in Callers : Respond(c)
    <3>1. PICK c \in Callers : Respond(c)
      BY <2>2
    <3>2. /\ Spent(c)
          /\ \A a \in wallet' : a \in wallet \/ (a.nonce = use[c] /\ a.by = c)
      BY <3>1 DEF Respond, Spent
    <3>3. \A a \in wallet : a.nonce # use[c]
      BY <3>2 DEF IInv, NonceOwned
    <3> QED BY <3>2, <3>3 DEF NonceBuysOneResponse
  <2> QED BY <2>1, <2>2 DEF Next, vars, endVars, VCINonce, NonceExpires, JTIExpires,
       ReceiveRequest, LookUpNonce, ConsumeNonce, AllocateEntry, Sign, SignFails,
       InvalidateStatusEntry, Die, SkipCredentialSubjects, SaveCredentialSubject, AdminUpdate
<1> QED BY <1>1, <1>2, IInvHolds, PTL DEF Spec

(* The credentials in the wallets have an entry each, and what a verifier  *)
(* reads there is VALID until an administrator writes something else: an   *)
(* entry handed back by MakeJWP is nobody's.                               *)
THEOREM WalletOwnsItsEntry == Spec => []WalletOwnsEntry
<1>1. IInv => WalletOwnsEntry
  <2> SUFFICES ASSUME IInv, NEW a \in wallet, a.entry # None
               PROVE  /\ \A b \in wallet : b.entry = a.entry => a = b
                      /\ issued[a.entry] # None
                      /\ issued[a.entry] # Valid => a.entry \in written
    BY DEF WalletOwnsEntry
  <2>1. ASSUME NEW b \in wallet, b.entry = a.entry PROVE a = b
    <3>1. /\ a.by \in Callers /\ a.no \in 1..MaxBatch
          /\ b.by \in Callers /\ b.no \in 1..MaxBatch
      BY WalletEntry
    <3>2. /\ Owns(a.by, a.no) /\ a.entry = replies[a.by][a.no] /\ a.nonce = use[a.by]
          /\ Owns(b.by, b.no) /\ b.entry = replies[b.by][b.no] /\ b.nonce = use[b.by]
      BY <2>1 DEF IInv, WalletFromReplies
    <3>3. a.by = b.by /\ a.no = b.no
      BY <2>1, <3>1, <3>2 DEF IInv, EntryOwned
    <3>4. a.nonce = b.nonce /\ a \in Credential /\ b \in Credential
      BY <3>2, <3>3 DEF IInv, TypeOK
    <3> QED BY <2>1, <3>3, <3>4 DEF Credential
  <2> QED BY <2>1, WalletEntry DEF IInv, StatusKept
<1> QED BY <1>1, IInvHolds, PTL

(* Whatever call of the batch failed, a credential of an identified person *)
(* is in the wallet only if its row is written, in every section but 0.    *)
THEOREM WalletSearchable == Spec => []WalletIsSearchable
<1>1. IInv => WalletIsSearchable
  <2> SUFFICES ASSUME IInv, NEW a \in wallet, a.by \notin anon, a.entry # None, a.entry[1] > 0
               PROVE  a.entry \in subjects
    BY DEF WalletIsSearchable
  <2>1. /\ a.by \in Callers /\ a.no \in 1..MaxBatch
        /\ a.no <= saved[a.by] /\ a.entry = replies[a.by][a.no]
    BY WalletEntry DEF IInv, WalletFromReplies
  <2> QED BY <2>1 DEF IInv, SubjectsSaved
<1> QED BY <1>1, IInvHolds, PTL
=============================================================================
