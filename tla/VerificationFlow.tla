-------------------------- MODULE VerificationFlow --------------------------
(***************************************************************************)
(* The verifier's own page: /ui/interaction, /ui/resume, /ui/completion,   *)
(* /ui/notify and /ui/result of its tabs, and the direct posts of wallets, *)
(* composed with the notification service.  A tab must end with the result *)
(* although its page is reloaded, its stream breaks, writes fail, messages *)
(* are lost and the process restarts.                                      *)
(*                                                                         *)
(* An authorization context is abstracted to its VerifierResponseCode:     *)
(* Pending until it is set; None when the store has no such context.       *)
(* `late' is the clock: it passes ExpiresAt of a session at any time.      *)
(***************************************************************************)
EXTENDS Notify

CONSTANTS Tabs, Posts,  \* browser tabs; direct post requests in progress
          Jtis,         \* ids of key-binding JWTs
          Pending,
          MaxFaults     \* bound: reloads, lost connections, failures, restarts

Codes == Messages  \* response codes; a redirect is its code
Contexts == Codes \cup {Pending, None}
Post == [phase : {"verify", "claimed", "cached", "saved"},
         session : Ids, jti : Jtis \cup {None}, code : Codes \cup {None}]
Preference == [session : Ids, doc : Contexts]

ASSUME FlowAssumption ==
  /\ MaxFaults \in Nat
  /\ Pending \notin Codes /\ Pending # None
  /\ None \notin Ids \cup Tabs \cup Jtis
  /\ None \notin Post /\ None \notin Preference

VARIABLES backend,  \* "memory", or "mongo" with a RESP bus
          payments, \* the sessions that ask for a payment (EC TS12)
          ctx,      \* AuthContext, by session id
          late,     \* whether the deadline of a session has passed
          creds,    \* the response codes put into the Credential cache
          used,     \* UsedJTI: the jti of every accepted payment
          saved, paid,  \* history: the session and jti a code was persisted for
          announced,  \* history: the codes that were published
          overwritten,  \* history: the sessions that lost their marker
          post, tab,
          handler,  \* what endpointUINotify knows of each stream
          pref,     \* a session preference update, between read and write
          faults
flowVars == <<ctx, late, creds, used, saved, paid, announced, overwritten, post, tab, handler, pref, faults>>
config == <<backend, payments>>
vars == <<config, notifyVars, flowVars>>

Tab == [phase : {"menu", "reload", "ready", "connecting", "watching", "unchecked",
                 "load", "done", "gone", "told", "refused"},
        sid : Ids \cup {None}, code : Codes \cup {None}]

TypeOK ==
  /\ NotifyTypeOK
  /\ backend \in {"memory", "mongo"}
  /\ payments \subseteq Ids
  /\ ctx \in [Ids -> Contexts]
  /\ late \in [Ids -> BOOLEAN]
  /\ creds \subseteq Codes
  /\ used \subseteq Jtis
  /\ saved \in [Codes -> Ids \cup {None}]
  /\ paid \in [Codes -> Jtis \cup {None}]
  /\ announced \subseteq Codes
  /\ overwritten \subseteq Ids
  /\ post \in [Posts -> Post \cup {None}]
  /\ tab \in [Tabs -> Tab]
  /\ handler \in [Streams -> [tab : Tabs \cup {None}, armed : BOOLEAN]]
  /\ pref \in Preference \cup {None}
  /\ faults \in 0..MaxFaults

Menu == [phase |-> "menu", sid |-> None, code |-> None]
NoHandler == [tab |-> None, armed |-> FALSE]

Init ==
  /\ NotifyInit
  /\ backend \in {"memory", "mongo"}
  /\ payments \in SUBSET Ids
  /\ ctx = [s \in Ids |-> None]
  /\ late = [s \in Ids |-> FALSE]
  /\ creds = {}
  /\ used = {}
  /\ saved = [c \in Codes |-> None]
  /\ paid = [c \in Codes |-> None]
  /\ announced = {}
  /\ overwritten = {}
  /\ post = [p \in Posts |-> None]
  /\ tab = [t \in Tabs |-> Menu]
  /\ handler = [h \in Streams |-> NoHandler]
  /\ pref = None
  /\ faults = 0

Failure == faults < MaxFaults /\ faults' = faults + 1
Completed(s) == ctx[s] \in Codes

(* One fresh id, request or stream is as good as another.                  *)
Any(set) == CHOOSE x \in set : TRUE
FreshCodes == {c \in Codes : c \notin creds /\ \A p \in Posts : post[p] = None \/ post[p].code # c}
IdleStreams == {h \in Streams : stream[h] = None}

(* Client side of an event stream.                                         *)
Attached(h, t) == handler[h].tab = t
Leave(t) == handler' = [h \in Streams |->
                          IF Attached(h, t) THEN [handler[h] EXCEPT !.tab = None]
                          ELSE handler[h]]

-----------------------------------------------------------------------------
(* VerificationDirectPost.                                                 *)

(* Decrypt, look the context up by state and check the deadline; whether   *)
(* the session is already complete is not looked at.  What answers a       *)
(* payment carries one key-binding JWT with a jti of the wallet's choice:  *)
(* transaction_data names one credential query.                            *)
PostArrives(s, j) ==
  /\ \E p \in Posts : post[p] = None
  /\ ctx[s] # None
  /\ ~late[s]
  /\ j \in (IF s \in payments THEN Jtis ELSE {None})
  /\ post' = [post EXCEPT ![Any({p \in Posts : post[p] = None})] =
                [phase |-> "verify", session |-> s, jti |-> j, code |-> None]]
  /\ UNCHANGED <<notifyVars, ctx, late, creds, used, saved, paid, announced, overwritten, tab, handler, pref, faults>>

At(p, phase) == post[p] # None /\ post[p].phase = phase
PostEnds(p) == post' = [post EXCEPT ![p] = None]

(* Mutant of ClaimRefused: the deferred release gives back a jti that      *)
(* another request has claimed.                                            *)
ClaimRefusedReleasing(p) ==
  /\ At(p, "verify")
  /\ post[p].jti \in used
  /\ used' = used \ {post[p].jti}
  /\ PostEnds(p)
  /\ UNCHANGED <<notifyVars, ctx, late, creds, saved, paid, announced, overwritten, tab, handler, pref, faults>>

(* claimJTI: this jti was claimed before.                                  *)
ClaimRefused(p) ==
  /\ At(p, "verify")
  /\ post[p].jti \in used
  /\ PostEnds(p)
  /\ UNCHANGED <<notifyVars, ctx, late, creds, used, saved, paid, announced, overwritten, tab, handler, pref, faults>>

(* Mutant of Claim: the empty jti of other presentations is recorded too.  *)
ClaimAlways(p) ==
  /\ At(p, "verify")
  /\ post[p].jti \notin used
  /\ used' = used \cup {post[p].jti}
  /\ post' = [post EXCEPT ![p].phase = "claimed"]
  /\ UNCHANGED <<notifyVars, ctx, late, creds, saved, paid, announced, overwritten, tab, handler, pref, faults>>

(* The presentation is verified; a payment's jti is claimed.               *)
Claim(p) ==
  /\ At(p, "verify")
  /\ post[p].jti \notin used
  /\ used' = used \cup ({post[p].jti} \ {None})
  /\ post' = [post EXCEPT ![p].phase = "claimed"]
  /\ UNCHANGED <<notifyVars, ctx, late, creds, saved, paid, announced, overwritten, tab, handler, pref, faults>>

(* A check refuses the presentation, or the replay store does not answer.  *)
VerifyFails(p) ==
  /\ At(p, "verify")
  /\ PostEnds(p)
  /\ UNCHANGED <<notifyVars, ctx, late, creds, used, saved, paid, announced, overwritten, tab, handler, pref, faults>>

(* Mutant of CacheCredentials: Set, which swallows a failed write.         *)
CacheCredentialsUnseen(p) ==
  /\ At(p, "claimed")
  /\ FreshCodes # {}
  /\ \/ creds' = creds \cup {Any(FreshCodes)} /\ UNCHANGED faults
     \/ backend = "mongo" /\ Failure /\ UNCHANGED creds
  /\ post' = [post EXCEPT ![p].phase = "cached", ![p].code = Any(FreshCodes)]
  /\ UNCHANGED <<notifyVars, ctx, late, used, saved, paid, announced, overwritten, tab, handler, pref>>

(* Credential.SetNX under a fresh response code.                           *)
CacheCredentials(p) ==
  /\ At(p, "claimed")
  /\ FreshCodes # {}
  /\ creds' = creds \cup {Any(FreshCodes)}
  /\ post' = [post EXCEPT ![p].phase = "cached", ![p].code = Any(FreshCodes)]
  /\ UNCHANGED <<notifyVars, ctx, late, used, saved, paid, announced, overwritten, tab, handler, pref, faults>>

(* The completion marker: AuthContext.Save, an upsert.                     *)
SaveMarker(p) ==
  /\ At(p, "cached")
  /\ ctx' = [ctx EXCEPT ![post[p].session] = post[p].code]
  /\ saved' = [saved EXCEPT ![post[p].code] = post[p].session]
  /\ paid' = [paid EXCEPT ![post[p].code] = post[p].jti]
  /\ post' = [post EXCEPT ![p].phase = "saved"]
  /\ UNCHANGED <<notifyVars, late, creds, used, announced, overwritten, tab, handler, pref, faults>>

(* One of the two writes fails: what was claimed is released, unless that  *)
(* fails as well.                                                          *)
WriteFails(p) ==
  /\ At(p, "claimed") \/ At(p, "cached")
  /\ backend = "mongo"
  /\ Failure
  /\ used' \in {used, used \ {post[p].jti}}
  /\ PostEnds(p)
  /\ UNCHANGED <<notifyVars, ctx, late, creds, saved, paid, announced, overwritten, tab, handler, pref>>

(* notify.Submit, which the bus may refuse.                                *)
Announce(p) ==
  /\ At(p, "saved")
  /\ Submit(post[p].session, post[p].code)
  /\ announced' = announced \cup {post[p].code}
  /\ PostEnds(p)
  /\ UNCHANGED <<ctx, late, creds, used, saved, paid, overwritten, tab, handler, pref, faults>>

AnnounceFails(p) ==
  /\ At(p, "saved")
  /\ backend = "mongo"
  /\ Failure
  /\ PostEnds(p)
  /\ UNCHANGED <<notifyVars, ctx, late, creds, used, saved, paid, announced, overwritten, tab, handler, pref>>

-----------------------------------------------------------------------------
(* UIInteraction.                                                          *)

(* tryReuseInFlightSession.                                                *)
Reusable(s) == s # None /\ ctx[s] = Pending /\ ~late[s] /\ s \notin payments

(* The tab asks for the query its session was made for.                    *)
Rejoin(t) ==
  /\ tab[t].phase = "menu"
  /\ Reusable(tab[t].sid)
  /\ tab' = [tab EXCEPT ![t].phase = "ready"]
  /\ UNCHANGED <<notifyVars, ctx, late, creds, used, saved, paid, announced, overwritten, post, handler, pref, faults>>

(* A fresh session, also for a tab with a hint: a payment, another query,  *)
(* or a session that is over.                                              *)
UIInteraction(t, s) ==
  /\ tab[t].phase = "menu"
  /\ ctx[s] = None /\ ~late[s]
  /\ ctx' = [ctx EXCEPT ![s] = Pending]
  /\ tab' = [tab EXCEPT ![t].phase = "ready", ![t].sid = s]
  /\ UNCHANGED <<notifyVars, late, creds, used, saved, paid, announced, overwritten, post, handler, pref, faults>>

-----------------------------------------------------------------------------
(* endpointUINotify.                                                       *)

(* IsActiveAuthSession.                                                    *)
Active(s) == Completed(s) \/ (ctx[s] = Pending /\ ~late[s])

(* Mutant of Deadline: nobody tells the tab that the session expired.      *)
DeadlineUnarmed(s) == FALSE /\ ctx[s] = Pending

(* The expiry event is armed unless the session has its outcome.           *)
Deadline(s) == ctx[s] = Pending

Connect(t) ==
  /\ tab[t].phase = "ready"
  /\ Active(tab[t].sid)
  /\ IdleStreams # {}
  /\ OpenListener(Any(IdleStreams), tab[t].sid)
  /\ handler' = [handler EXCEPT ![Any(IdleStreams)] = [tab |-> t, armed |-> Deadline(tab[t].sid)]]
  /\ tab' = [tab EXCEPT ![t].phase = "connecting"]
  /\ UNCHANGED <<ctx, late, creds, used, saved, paid, announced, overwritten, post, pref, faults>>

(* 404, or 503 when the store fails: an EventSource gives up on both.      *)
Refuse(t) ==
  /\ tab[t].phase = "ready"
  /\ \/ ~Active(tab[t].sid) /\ UNCHANGED faults
     \/ backend = "mongo" /\ Failure
  /\ tab' = [tab EXCEPT ![t].phase = "refused"]
  /\ UNCHANGED <<notifyVars, ctx, late, creds, used, saved, paid, announced, overwritten, post, handler, pref>>

(* OpenListener goes on whether the client is still there or not.          *)
Opening(h) ==
  /\ Attach(h) \/ Subscribe(h) \/ Install(h)
  /\ UNCHANGED flowVars

(* The stream ends at once; the EventSource connects again.                *)
OpeningFails(h) ==
  /\ backend = "mongo"
  /\ Failure
  /\ SubscribeFails(h)
  /\ handler' = [handler EXCEPT ![h] = NoHandler]
  /\ tab' = [t \in Tabs |-> IF Attached(h, t) THEN [tab[t] EXCEPT !.phase = "ready"] ELSE tab[t]]
  /\ UNCHANGED <<ctx, late, creds, used, saved, paid, announced, overwritten, post, pref>>

(* The deferred CloseListener, once the client has gone.                   *)
HandlerReturns(h) ==
  /\ handler[h].tab = None
  /\ \/ Unregister(h) /\ UNCHANGED handler
     \/ Reclaim(h) /\ handler' = [handler EXCEPT ![h] = NoHandler]
  /\ UNCHANGED <<ctx, late, creds, used, saved, paid, announced, overwritten, post, tab, pref, faults>>

GroupDelivers(s) == FanOut(s) /\ UNCHANGED flowVars

OnStream(t, h) == Attached(h, t) /\ InPhase(h, "open")

(* c.Stream: the message reaches the page, which closes the stream.        *)
ReceiveMessage(t, h) ==
  /\ OnStream(t, h)
  /\ stream[h].chan # None
  /\ tab' = [tab EXCEPT ![t] = [phase |-> "load", sid |-> None, code |-> stream[h].chan]]
  /\ Leave(t)
  /\ UNCHANGED <<notifyVars, ctx, late, creds, used, saved, paid, announced, overwritten, post, pref, faults>>

(* handleSessionExpired.  (sid stands for the session that was shown.)     *)
ReceiveExpired(t, h) ==
  /\ OnStream(t, h)
  /\ handler[h].armed
  /\ late[tab[t].sid]
  /\ tab' = [tab EXCEPT ![t].phase = "told"]
  /\ Leave(t)
  /\ UNCHANGED <<notifyVars, ctx, late, creds, used, saved, paid, announced, overwritten, post, pref, faults>>

(* Mutant of Reconcile: checks before the listener is registered.          *)
ReconcileEarly(t, h) ==
  /\ tab[t].phase = "connecting"
  /\ Attached(h, t)
  /\ IF Completed(tab[t].sid)
     THEN /\ tab' = [tab EXCEPT ![t] = [phase |-> "load", sid |-> None, code |-> ctx[tab[t].sid]]]
          /\ Leave(t)
     ELSE tab' = [tab EXCEPT ![t].phase = "watching"] /\ UNCHANGED handler
  /\ UNCHANGED <<notifyVars, ctx, late, creds, used, saved, paid, announced, overwritten, post, pref, faults>>

(* _reconcileCompletion, on the stream's open event: the answer of         *)
(* CompletedResponseCode, or a failure the page does not repeat.           *)
Reconcile(t, h) ==
  /\ tab[t].phase = "connecting"
  /\ OnStream(t, h)
  /\ IF Completed(tab[t].sid)
     THEN /\ tab' = [tab EXCEPT ![t] = [phase |-> "load", sid |-> None, code |-> ctx[tab[t].sid]]]
          /\ Leave(t)
     ELSE tab' = [tab EXCEPT ![t].phase = "watching"] /\ UNCHANGED handler
  /\ UNCHANGED <<notifyVars, ctx, late, creds, used, saved, paid, announced, overwritten, post, pref, faults>>

ReconcileFails(t, h) ==
  /\ tab[t].phase = "connecting"
  /\ OnStream(t, h)
  /\ Failure
  /\ tab' = [tab EXCEPT ![t].phase = "unchecked"]
  /\ UNCHANGED <<notifyVars, ctx, late, creds, used, saved, paid, announced, overwritten, post, handler, pref>>

OnQR == {"ready", "connecting", "watching", "unchecked"}

(* The connection is lost; the EventSource connects again.                 *)
Disconnect(t, h) ==
  /\ Attached(h, t)
  /\ Failure
  /\ tab' = [tab EXCEPT ![t].phase = "ready"]
  /\ Leave(t)
  /\ UNCHANGED <<notifyVars, ctx, late, creds, used, saved, paid, announced, overwritten, post, pref>>

-----------------------------------------------------------------------------
(* The rest of the page.                                                   *)

(* F5: sessionStorage keeps the code of a result or the id of a session.   *)
Reload(t) ==
  /\ tab[t].phase \in OnQR \cup {"refused", "done"}
  /\ Failure
  /\ tab' = [tab EXCEPT ![t].phase = IF tab[t].code # None THEN "load" ELSE "reload"]
  /\ Leave(t)
  /\ UNCHANGED <<notifyVars, ctx, late, creds, used, saved, paid, announced, overwritten, post, pref>>

(* resumeFromSessionID, by the status UIResume answers with.  A failed     *)
(* lookup leaves the menu with the id still stored.                        *)
Resume(t) ==
  /\ tab[t].phase = "reload"
  /\ LET s == tab[t].sid
     IN tab' = [tab EXCEPT ![t] =
                  IF Completed(s) THEN [phase |-> "load", sid |-> None, code |-> ctx[s]]
                  ELSE IF ctx[s] = Pending /\ ~late[s] THEN [tab[t] EXCEPT !.phase = "ready"]
                  ELSE Menu]
  /\ UNCHANGED <<notifyVars, ctx, late, creds, used, saved, paid, announced, overwritten, post, handler, pref, faults>>

ResumeFails(t) ==
  /\ tab[t].phase = "reload"
  /\ backend = "mongo"
  /\ tab' = [tab EXCEPT ![t].phase = "menu"]
  /\ UNCHANGED <<notifyVars, ctx, late, creds, used, saved, paid, announced, overwritten, post, handler, pref, faults>>

(* loadVerificationResult: VerificationCallback has the credentials, until *)
(* the cache drops them after five minutes.                                *)
LoadResult(t) ==
  /\ tab[t].phase = "load"
  /\ \/ tab[t].code \in creds /\ tab' = [tab EXCEPT ![t].phase = "done"]
     \/ tab' = [tab EXCEPT ![t] = [phase |-> "gone", sid |-> None, code |-> None]]
  /\ UNCHANGED <<notifyVars, ctx, late, creds, used, saved, paid, announced, overwritten, post, handler, pref, faults>>

BackToMenu(t) ==
  /\ tab[t].phase \in {"done", "gone", "told"}
  /\ tab' = [tab EXCEPT ![t] = Menu]
  /\ UNCHANGED <<notifyVars, ctx, late, creds, used, saved, paid, announced, overwritten, post, handler, pref, faults>>

-----------------------------------------------------------------------------
(* UpdateSessionPreference.  In memory the context it changes is the one   *)
(* the store holds; a Mongo document is read, changed and replaced.        *)

ReadPreference(s) ==
  /\ backend = "mongo"
  /\ pref = None
  /\ ctx[s] # None
  /\ pref' = [session |-> s, doc |-> ctx[s]]
  /\ UNCHANGED <<notifyVars, ctx, late, creds, used, saved, paid, announced, overwritten, post, tab, handler, faults>>

UpdatePreference ==
  /\ pref # None
  /\ ctx' = IF ctx[pref.session] = None THEN ctx
            ELSE [ctx EXCEPT ![pref.session] = pref.doc]
  /\ overwritten' = overwritten \cup
       {s \in {pref.session} : Completed(s) /\ pref.doc = Pending}
  /\ pref' = None
  /\ UNCHANGED <<notifyVars, late, creds, used, saved, paid, announced, post, tab, handler, faults>>

-----------------------------------------------------------------------------
(* Time, and the process.                                                  *)

DeadlinePasses(s) ==
  /\ ctx[s] # None /\ ~late[s]
  /\ late' = [late EXCEPT ![s] = TRUE]
  /\ UNCHANGED <<notifyVars, ctx, creds, used, saved, paid, announced, overwritten, post, tab, handler, pref, faults>>

(* authContextRetention is longer than the presentation timeout, and by    *)
(* codeIssuanceMargin or more than a post that began before it.            *)
Evict(s) ==
  /\ ctx[s] # None /\ late[s]
  /\ \A p \in Posts : post[p] # None => post[p].session # s
  /\ ctx' = [ctx EXCEPT ![s] = None]
  /\ UNCHANGED <<notifyVars, late, creds, used, saved, paid, announced, overwritten, post, tab, handler, pref, faults>>

(* The process ends and starts again: requests in progress end, streams    *)
(* break, and what was in memory is lost.                                  *)
Restart ==
  /\ Failure
  /\ CH' = [s \in Ids |-> None]
  /\ listeners' = [s \in Ids |-> 0]
  /\ stream' = [h \in Streams |-> None]
  /\ handler' = [h \in Streams |-> NoHandler]
  /\ post' = [p \in Posts |-> None]
  /\ pref' = None
  /\ tab' = [t \in Tabs |-> IF \E h \in Streams : Attached(h, t)
                            THEN [tab[t] EXCEPT !.phase = "ready"] ELSE tab[t]]
  /\ IF backend = "mongo" THEN UNCHANGED <<ctx, late, used>>
     ELSE /\ ctx' = [s \in Ids |-> None]
          /\ late' = [s \in Ids |-> ctx[s] # None \/ late[s]]
          /\ used' = {}
  /\ UNCHANGED <<creds, saved, paid, announced, overwritten>>

-----------------------------------------------------------------------------
Streaming(h) == Opening(h) \/ HandlerReturns(h)
Page(t) ==
  \/ Connect(t) \/ Refuse(t) \/ Resume(t) \/ LoadResult(t)
  \/ \E h \in Streams : Reconcile(t, h) \/ ReceiveMessage(t, h) \/ ReceiveExpired(t, h)

Next ==
  /\ \/ \E p \in Posts :
          \/ ClaimRefused(p) \/ Claim(p) \/ VerifyFails(p)
          \/ CacheCredentials(p) \/ SaveMarker(p) \/ WriteFails(p) \/ Announce(p) \/ AnnounceFails(p)
     \/ \E t \in Tabs :
          \/ Rejoin(t) \/ \E s \in Ids : UIInteraction(t, s)
          \/ Page(t) \/ ResumeFails(t) \/ Reload(t) \/ BackToMenu(t)
          \/ \E h \in Streams : ReconcileFails(t, h) \/ Disconnect(t, h)
     \/ \E h \in Streams : Streaming(h) \/ OpeningFails(h)
     \/ \E s \in Ids : (\E j \in Jtis \cup {None} : PostArrives(s, j)) \/ GroupDelivers(s) \/ ReadPreference(s) \/ DeadlinePasses(s) \/ Evict(s)
     \/ UpdatePreference
     \/ Restart
  /\ UNCHANGED config

Spec == Init /\ [][Next]_vars

-----------------------------------------------------------------------------
HandedOut ==
  {ctx[s] : s \in Ids} \cup {tab[t].code : t \in Tabs}
    \cup {CH[s].buf : s \in {i \in Ids : CH[i] # None}}
    \cup {stream[h].chan : h \in {g \in Streams : stream[g] # None}}

(* Every response code a tab has, can receive or can look up stands for    *)
(* credentials that were cached: the browser's only key never leads to a   *)
(* result that is not there yet (handlers_verification.go, "Cache          *)
(* validated credentials" and "Notify AFTER credentials are cached").      *)
CodesResolve == \A c \in HandedOut \cap Codes : c \in creds

MessageWaits(h, s) == stream[h].chan # None \/ (CH[s] # None /\ CH[s].buf # None)

(* Subscribe before check, persist before publish: when the session of a   *)
(* tab whose check said "pending" is complete and its code was published,  *)
(* the tab's stream or its group holds a message, whoever opened, closed   *)
(* or reopened streams of the session in the meantime.                     *)
NoLostCompletion ==
  \A t \in Tabs, h \in Streams :
    /\ tab[t].phase = "watching"
    /\ OnStream(t, h)
    /\ ctx[tab[t].sid] \in announced
    => MessageWaits(h, tab[t].sid)

(* One key-binding JWT of a payment is accepted once, through concurrent   *)
(* posts of it, refused ones, failed writes, retries and restarts          *)
(* (claimJTI).  The nonce makes it one of one session, which accepts       *)
(* another JWT with a jti of its own even when it is complete.             *)
PaymentAcceptedOnce ==
  \A c, d \in Codes :
    paid[c] # None /\ paid[c] = paid[d] /\ saved[c] = saved[d] => c = d

(* No tab waits for ever: on the stream of one that was told "pending"     *)
(* something will end the wait, an armed deadline or a message, also when  *)
(* the session completed or expired while the stream was being opened.     *)
(* (Not when its session left the store or lost its marker meanwhile.)     *)
WatcherHasAnEnd ==
  \A t \in Tabs, h \in Streams :
    /\ tab[t].phase = "watching"
    /\ OnStream(t, h)
    /\ ctx[tab[t].sid] # None
    /\ tab[t].sid \notin overwritten
    => handler[h].armed \/ MessageWaits(h, tab[t].sid)

(* "A tab that reloads after Submit has fired but before it was observed   *)
(* must mint a fresh session": a completed session does not become         *)
(* pending again.                                                          *)
CompletionSticks == [][\A s \in Ids : Completed(s) => ctx'[s] # Pending]_vars

(* The page takes the expiry event to mean that the deadline "has passed   *)
(* and nothing more will arrive": no result for a tab that was told so.    *)
ToldMeansOver == \A t \in Tabs : tab[t].phase = "told" => ~Completed(tab[t].sid)
=============================================================================
