-------------------------- MODULE StatusAllocator --------------------------
(***************************************************************************)
(* What the registry promises about status list entries, whatever it does  *)
(* inside: an entry is given to at most one credential, its status starts  *)
(* VALID, and only an explicit status update changes it afterwards.        *)
(*                                                                         *)
(* `issued[e]' is the status of the credential that owns entry e, or None  *)
(* while e is a decoy; `held[c]' is the entry that caller c's              *)
(* TokenStatusListAddStatus call has been given and not yet answered with. *)
(***************************************************************************)
EXTENDS Naturals

CONSTANTS Entries,   \* the positions of all status lists
          Callers,   \* concurrent TokenStatusListAddStatus calls
          Statuses,  \* status values; 0 is VALID
          None

VARIABLES issued, held
allocVars == <<issued, held>>

AllocInit ==
  /\ issued = [e \in Entries |-> None]
  /\ held = [c \in Callers |-> None]

(* AddStatus with the VALID status of a new credential.                    *)
Allocate(c, e) ==
  /\ held[c] = None
  /\ issued[e] = None
  /\ issued' = [issued EXCEPT ![e] = 0]
  /\ held' = [held EXCEPT ![c] = e]

(* The call is answered, or the caller's replica dies with it.             *)
Release(c) ==
  /\ held[c] # None
  /\ held' = [held EXCEPT ![c] = None]
  /\ UNCHANGED issued

(* UpdateStatus of an entry that a credential owns.                        *)
SetStatus(e, s) ==
  /\ issued[e] # None
  /\ issued' = [issued EXCEPT ![e] = s]
  /\ UNCHANGED held

AllocNext ==
  \/ \E c \in Callers : Release(c) \/ \E e \in Entries : Allocate(c, e)
  \/ \E e \in Entries, s \in Statuses : SetStatus(e, s)

AllocSpec == AllocInit /\ [][AllocNext]_allocVars
=============================================================================
