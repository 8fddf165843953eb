------------------------- MODULE CredentialEndpoint -------------------------
(***************************************************************************)
(* The credential endpoint of the API gateway (VCICredential), the calls   *)
(* it makes to the issuer (MakeSDJWT, MakeMDoc, MakeVC20, MakeJWP), and    *)
(* the registry behind both: status list entries, as StatusAllocator       *)
(* promises them, and the credential subjects the admin pages search.      *)
(*                                                                         *)
(* A caller of StatusAllocator is one credential request.  Requests run    *)
(* concurrently on any replica; every cache, gRPC or database operation is *)
(* a step, and so is the signing between two of them.                      *)
(***************************************************************************)
EXTENDS StatusAllocator, Sequences, FiniteSets

CONSTANTS Nonces,    \* c_nonce values
          JTIs,      \* identifiers of DPoP proofs
          MaxBatch,  \* BatchCredentialIssuance.BatchSize
          MaxFaults  \* bound: failed calls to the issuer or the registry

ASSUME EndpointAssumption ==
  /\ Entries \subseteq Nat \X Nat
  /\ <<0, 0>> \in Entries
  /\ {0, 1} \subseteq Statuses
  /\ {MaxBatch, MaxFaults} \subseteq Nat
  /\ None \notin Statuses /\ None \notin Entries /\ None \notin Nonces

VARIABLES nonce,     \* cacheService.VCINonce: the nonces it holds
          fresh,     \* nonces not generated yet
          jti,       \* cacheService.DPopJTI
          pc, use, format,  \* of a request: step, expectedNonce, format
          keys,      \* jwks or subject DIDs the issuer is still to be called for
          replies,   \* the statusEntry of each reply of the issuer
          saved,     \* how many of them saveCredentialSubjects is done with
          anon,      \* requests whose context has no identifier
          subjects,  \* CredentialSubjectsColl
          wallet,    \* history: credentials that wallets were given
          written,   \* history: entries of which an administrator wrote the status
          faults
endVars == <<nonce, fresh, jti, pc, use, format, keys, replies, saved, anon,
             subjects, wallet, written, faults>>
vars == <<allocVars, endVars>>

(* "plain" stands for mso_mdoc and ldp_vc: what the issuer makes of them   *)
(* carries no status reference.                                            *)
Formats == {"sd-jwt", "jwp", "plain"}
Steps == {"new", "lookup", "consume", "allocate", "sign", "invalidate", "save", "end"}
Valid == 0
Invalid == 1

Credential ==
  [nonce : Nonces, by : Callers, no : 1..MaxBatch, entry : Entries \cup {None}]

TypeOK ==
  /\ issued \in [Entries -> Statuses \cup {None}]
  /\ held \in [Callers -> Entries \cup {None}]
  /\ fresh \subseteq Nonces
  /\ nonce \subseteq Nonces \ fresh
  /\ jti \subseteq JTIs
  /\ pc \in [Callers -> Steps]
  /\ use \in [Callers -> Nonces \cup {None}]
  /\ format \in [Callers -> Formats]
  /\ keys \in [Callers -> 0..MaxBatch]
  /\ replies \in [Callers -> Seq(Entries)]
  /\ saved \in [Callers -> 0..MaxBatch]
  /\ anon \subseteq Callers
  /\ subjects \subseteq Entries
  /\ wallet \subseteq Credential
  /\ written \subseteq Entries
  /\ faults \in 0..MaxFaults

Init ==
  /\ AllocInit
  /\ fresh = Nonces /\ nonce = {} /\ jti = {}
  /\ pc = [c \in Callers |-> "new"]
  /\ use = [c \in Callers |-> None]
  /\ format = [c \in Callers |-> "plain"]
  /\ keys = [c \in Callers |-> 0]
  /\ replies = [c \in Callers |-> <<>>]
  /\ saved = [c \in Callers |-> 0]
  /\ anon = {} /\ subjects = {} /\ wallet = {} /\ written = {} /\ faults = 0

GoTo(c, step) == pc' = [pc EXCEPT ![c] = step]
Failure == faults < MaxFaults /\ faults' = faults + 1

-----------------------------------------------------------------------------
(* VCINonce, and the nonce a token response carries.                       *)
VCINonce(n) ==
  /\ n \in fresh
  /\ fresh' = fresh \ {n}
  /\ nonce' = nonce \cup {n}
  /\ UNCHANGED <<allocVars, jti, pc, use, format, keys, replies, saved,
                 anon, subjects, wallet, written, faults>>

(* The TTL of the two caches, external.                                    *)
NonceExpires(n) ==
  /\ n \in nonce
  /\ nonce' = nonce \ {n}
  /\ UNCHANGED <<allocVars, fresh, jti, pc, use, format, keys, replies, saved,
                 anon, subjects, wallet, written, faults>>

JTIExpires(j) ==
  /\ j \in jti
  /\ jti' = jti \ {j}
  /\ UNCHANGED <<allocVars, nonce, fresh, pc, use, format, keys, replies, saved,
                 anon, subjects, wallet, written, faults>>

(* The DPoP proof's JTI is spent before anything else is checked; the      *)
(* token, the scope, the document and the key proofs follow, and each can  *)
(* refuse the request, as a spent JTI does.  A BBS credential is one.      *)
ReceiveRequest(c, j) ==
  /\ pc[c] = "new"
  /\ jti' = jti \cup {j}
  /\ \/ /\ j \notin jti
        /\ \E f \in Formats, k \in 1..MaxBatch :
             /\ f = "jwp" => k = 1
             /\ format' = [format EXCEPT ![c] = f]
             /\ keys' = [keys EXCEPT ![c] = k]
        /\ anon' = anon \/ anon' = anon \cup {c}
        /\ GoTo(c, "lookup")
     \/ GoTo(c, "end") /\ UNCHANGED <<format, keys, anon>>
  /\ UNCHANGED <<allocVars, nonce, fresh, use, replies, saved, subjects, wallet,
                 written, faults>>

(* VCINonce.Get: the nonce of the proof if the cache has it, or that of    *)
(* the authorization context.  The key proofs are then verified against    *)
(* it, which takes time and may fail without spending it.                  *)
LookUpNonce(c) ==
  /\ pc[c] = "lookup"
  /\ \/ \E n \in nonce : use' = [use EXCEPT ![c] = n] /\ GoTo(c, "consume")
     \/ GoTo(c, "end") /\ UNCHANGED use
  /\ UNCHANGED <<allocVars, nonce, fresh, jti, format, keys, replies, saved,
                 anon, subjects, wallet, written, faults>>

(* Mutant of ConsumeNonce: what GetAndDelete found is not looked at.       *)
ConsumeNonceUnchecked(c) ==
  /\ pc[c] = "consume"
  /\ nonce' = nonce \ {use[c]}
  /\ GoTo(c, "allocate") \/ GoTo(c, "end")
  /\ UNCHANGED <<allocVars, fresh, jti, use, format, keys, replies, saved,
                 anon, subjects, wallet, written, faults>>

(* VCINonce.GetAndDelete.  A request that has spent its nonce can still    *)
(* fail on the identifier or on its auxiliary data.                        *)
ConsumeNonce(c) ==
  /\ pc[c] = "consume"
  /\ nonce' = nonce \ {use[c]}
  /\ (use[c] \in nonce /\ GoTo(c, "allocate")) \/ GoTo(c, "end")
  /\ UNCHANGED <<allocVars, fresh, jti, use, format, keys, replies, saved,
                 anon, subjects, wallet, written, faults>>

-----------------------------------------------------------------------------
(* Mutant of AllocateEntry: the credentials of a batch share one entry.    *)
AllocateEntryOnce(c) ==
  /\ pc[c] = "allocate"
  /\ IF replies[c] = <<>>
     THEN \E e \in Entries : Allocate(c, e)
     ELSE held' = [held EXCEPT ![c] = replies[c][1]] /\ UNCHANGED issued
  /\ GoTo(c, "sign")
  /\ UNCHANGED <<nonce, fresh, jti, use, format, keys, replies, saved, anon, subjects,
                 wallet, written, faults>>

(* The issuer, called once per key.  TokenStatusListAddStatus gives it an  *)
(* entry that is VALID from then on, or fails.  MakeMDoc and MakeVC20 then *)
(* go on with section and index 0; MakeSDJWT and MakeJWP fail.             *)
AllocateEntry(c) ==
  /\ pc[c] = "allocate"
  /\ \/ /\ \E e \in Entries : Allocate(c, e)
        /\ GoTo(c, "sign")
        /\ UNCHANGED faults
     \/ /\ Failure
        /\ GoTo(c, IF format[c] = "plain" THEN "sign" ELSE "end")
        /\ UNCHANGED allocVars
  /\ UNCHANGED <<nonce, fresh, jti, use, format, keys, replies, saved, anon, subjects,
                 wallet, written>>

(* Without an entry the reply says section 0, index 0.                     *)
ReplyEntry(c) == IF held[c] = None THEN <<0, 0>> ELSE held[c]
ReleaseHeld(c) == IF held[c] = None THEN UNCHANGED allocVars ELSE Release(c)

(* Mutant of Sign: the loop over the keys runs once too often.             *)
SignOnceMore(c) ==
  /\ pc[c] = "sign"
  /\ replies' = [replies EXCEPT ![c] = Append(@, ReplyEntry(c))]
  /\ keys' = [keys EXCEPT ![c] = @ - 1]
  /\ ReleaseHeld(c)
  /\ GoTo(c, IF keys[c] > 0 THEN "allocate" ELSE "save")
  /\ UNCHANGED <<nonce, fresh, jti, use, format, saved, anon, subjects, wallet, written,
                 faults>>

(* The credential is signed and the issuer answers.                        *)
Sign(c) ==
  /\ pc[c] = "sign"
  /\ replies' = [replies EXCEPT ![c] = Append(@, ReplyEntry(c))]
  /\ keys' = [keys EXCEPT ![c] = @ - 1]
  /\ ReleaseHeld(c)
  /\ GoTo(c, IF keys[c] > 1 THEN "allocate" ELSE "save")
  /\ UNCHANGED <<nonce, fresh, jti, use, format, saved, anon, subjects, wallet, written,
                 faults>>

(* Signing fails.  MakeJWP hands its entry back; the other formats leave   *)
(* it VALID.                                                               *)
SignFails(c) ==
  /\ pc[c] = "sign"
  /\ Failure
  /\ ReleaseHeld(c)
  /\ IF format[c] = "jwp"
     THEN replies' = [replies EXCEPT ![c] = <<held[c]>>] /\ GoTo(c, "invalidate")
     ELSE UNCHANGED replies /\ GoTo(c, "end")
  /\ UNCHANGED <<nonce, fresh, jti, use, format, keys, saved, anon, subjects, wallet,
                 written>>

(* invalidateStatusEntry: best effort.                                     *)
InvalidateStatusEntry(c) ==
  /\ pc[c] = "invalidate"
  /\ \/ SetStatus(replies[c][1], Invalid) /\ UNCHANGED faults
     \/ Failure /\ UNCHANGED allocVars
  /\ GoTo(c, "end")
  /\ UNCHANGED <<nonce, fresh, jti, use, format, keys, replies, saved, anon, subjects,
                 wallet, written>>

(* The gateway or the issuer dies with the request; what it wrote stays.   *)
Die(c) ==
  /\ pc[c] \notin {"new", "end"}
  /\ Failure
  /\ ReleaseHeld(c)
  /\ GoTo(c, "end")
  /\ UNCHANGED <<nonce, fresh, jti, use, format, keys, replies, saved, anon, subjects,
                 wallet, written>>

-----------------------------------------------------------------------------
(* Mutant of SaveCredentialSubject: an error of the registry is logged and *)
(* the rest of the batch goes on.                                          *)
SaveCredentialSubjectLenient(c) ==
  /\ pc[c] = "save" /\ c \notin anon
  /\ saved[c] < Len(replies[c])
  /\ LET e == replies[c][saved[c] + 1]
     IN \/ e[1] > 0 /\ subjects' = subjects \cup {e} /\ UNCHANGED faults
        \/ e[1] = 0 /\ UNCHANGED <<subjects, faults>>
        \/ e[1] > 0 /\ Failure /\ UNCHANGED subjects
  /\ saved' = [saved EXCEPT ![c] = @ + 1]
  /\ UNCHANGED <<allocVars, nonce, fresh, jti, pc, use, format, keys, replies, wallet,
                 written, anon>>

(* saveCredentialSubjects without an identifier.                           *)
SkipCredentialSubjects(c) ==
  /\ pc[c] = "save"
  /\ c \in anon
  /\ saved[c] < Len(replies[c])
  /\ saved' = [saved EXCEPT ![c] = Len(replies[c])]
  /\ UNCHANGED <<allocVars, nonce, fresh, jti, pc, use, format, keys, replies, subjects,
                 wallet, written, faults, anon>>

(* saveCredentialSubjects, one entry: section 0 is skipped; the collection *)
(* has a unique index on section and index, and an error ends the request  *)
(* although its credentials are signed.                                    *)
SaveCredentialSubject(c) ==
  /\ pc[c] = "save" /\ c \notin anon
  /\ saved[c] < Len(replies[c])
  /\ LET e == replies[c][saved[c] + 1]
     IN \/ /\ e[1] > 0 => e \notin subjects
           /\ subjects' = IF e[1] > 0 THEN subjects \cup {e} ELSE subjects
           /\ saved' = [saved EXCEPT ![c] = @ + 1]
           /\ UNCHANGED <<pc, faults>>
        \/ /\ e[1] > 0
           /\ Failure \/ (e \in subjects /\ UNCHANGED faults)
           /\ GoTo(c, "end")
           /\ UNCHANGED <<saved, subjects>>
  /\ UNCHANGED <<allocVars, nonce, fresh, jti, use, format, keys, replies, wallet,
                 written, anon>>

(* The response.  The wallet's credentials refer to the entries the issuer *)
(* put into them, which for a plain one is none.                           *)
Reference(c, i) == IF format[c] = "plain" THEN None ELSE replies[c][i]

Respond(c) ==
  /\ pc[c] = "save"
  /\ saved[c] = Len(replies[c])
  /\ wallet' = wallet \cup
       {[nonce |-> use[c], by |-> c, no |-> i, entry |-> Reference(c, i)] : i \in 1..Len(replies[c])}
  /\ GoTo(c, "end")
  /\ UNCHANGED <<allocVars, nonce, fresh, jti, use, format, keys, replies, saved,
                 anon, subjects, written, faults>>

(* The registry's admin page: UpdateStatus writes the section and index    *)
(* that the form names, whether SearchPerson has listed them or not.  The  *)
(* status of a decoy is overwritten when the decoy is claimed, and without *)
(* a document nothing is written: neither changes `issued'.                *)
AdminUpdate(e, s) ==
  /\ SetStatus(e, s)
  /\ written' = written \cup {e}
  /\ UNCHANGED <<nonce, fresh, jti, pc, use, format, keys, replies, saved, anon,
                 subjects, wallet, faults>>

Next ==
  \/ \E n \in Nonces : VCINonce(n) \/ NonceExpires(n)
  \/ \E j \in JTIs : JTIExpires(j)
  \/ \E c \in Callers :
       \/ \E j \in JTIs : ReceiveRequest(c, j)
       \/ LookUpNonce(c) \/ ConsumeNonce(c)
       \/ AllocateEntry(c) \/ Sign(c) \/ SignFails(c) \/ InvalidateStatusEntry(c) \/ Die(c)
       \/ SkipCredentialSubjects(c) \/ SaveCredentialSubject(c) \/ Respond(c)
  \/ \E e \in Entries, s \in Statuses : AdminUpdate(e, s)

Spec == Init /\ [][Next]_vars

-----------------------------------------------------------------------------
(* VCICredential: a nonce is looked up before the proofs are verified and  *)
(* spent after; however many requests pass the look-up with it, one gets   *)
(* credentials for it.                                                     *)
NonceBuysOneResponse ==
  \A a, b \in wallet : a.nonce = b.nonce => a.by = b.by

(* No two credentials that wallets hold share a status entry, and none of  *)
(* them refers to an entry that a failed issuance handed back: what a      *)
(* verifier reads at the entry is VALID, or what an administrator wrote.   *)
WalletOwnsEntry ==
  \A a \in wallet :
    a.entry # None =>
      /\ \A b \in wallet : b.entry = a.entry => a = b
      /\ issued[a.entry] # None
      /\ issued[a.entry] # Valid => a.entry \in written

(* A credential of an identified person reaches the wallet only after its  *)
(* subject row was written, whichever call of the batch failed, so that an *)
(* administrator finds and can revoke it: in every section but 0.          *)
WalletIsSearchable ==
  \A a \in wallet :
    a.by \notin anon /\ a.entry # None /\ a.entry[1] > 0 => a.entry \in subjects

(* saveCredentialSubjects: "saves credential subject info linked to Token  *)
(* Status List entries, once per credential issued".                       *)
EveryCredentialSearchable ==
  \A a \in wallet : a.by \notin anon /\ a.entry # None => a.entry \in subjects
=============================================================================
