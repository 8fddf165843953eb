----------------------------- MODULE StatusList -----------------------------
(***************************************************************************)
(* The registry's token status lists: the MongoDB collection of entries    *)
(* (methods_token_status_list.go), the metadata document that names the    *)
(* current section (methods_token_status_list_metadata.go), and AddStatus  *)
(* of the token status list issuer (tokenstatuslistissuer/methods.go).     *)
(*                                                                         *)
(* A section is filled with decoys when it is created; AddStatus claims a  *)
(* decoy for a credential.  Each database operation is one step, so calls  *)
(* on the same or on several replicas interleave between them.  InsertMany *)
(* is ordered and not atomic: its documents appear one at a time.          *)
(***************************************************************************)
EXTENDS Integers, Sequences, FiniteSets

CONSTANTS Callers,      \* concurrent AddStatus calls, on any replica
          SectionSize,  \* entries of a section (1000000 by default)
          LowDecoys,    \* 1000: with no more decoys a new section is made
          Want,         \* 10: how many random decoys an Add looks for
          MaxRetries,   \* 3 claims before Add gives up
          Statuses,     \* status values that can be written; 0 is VALID
          MaxSection,   \* bound: no section after this one is created
          MaxFaults,    \* bound: database errors and crashes
          None

ASSUME StatusListAssumption ==
  /\ SectionSize \in Nat \ {0}
  /\ LowDecoys \in Nat
  /\ Want \in Nat \ {0}
  /\ MaxRetries \in Nat \ {0}
  /\ MaxSection \in Nat
  /\ MaxFaults \in Nat
  /\ 0 \in Statuses
  /\ None \notin Statuses
  /\ None \notin (Int \X Int)
  /\ None \notin [decoy : BOOLEAN, status : Statuses]

VARIABLES docs,    \* (section, index) -> TokenStatusListDoc, or None
          meta,    \* TokenStatusListMetadataDoc
          pc,      \* where each AddStatus call is
          section, \* the section the call works on
          pos,     \* documents its InsertMany has written
          read,    \* the metadata document UpdateCurrentSection has read
          decoys,  \* the result of getRandomDecoys
          tries,   \* failed claims
          got,     \* the entry the call has claimed
          faults   \* database errors and crashes so far
vars == <<docs, meta, pc, section, pos, read, decoys, tries, got, faults>>
callVars == <<pc, section, pos, read, decoys, tries, got>>

Sections == 0..MaxSection
Indexes == 0..(SectionSize - 1)
Entries == Sections \X Indexes
Doc == [decoy : BOOLEAN, status : Statuses]
Meta == [current : Sections, sections : Seq(Sections)]
Steps == {"idle", "count", "insert", "find", "update", "sample", "claim", "noise"}

TypeOK ==
  /\ docs \in [Entries -> Doc \cup {None}]
  /\ meta \in Meta
  /\ pc \in [Callers -> Steps]
  /\ section \in [Callers -> Sections]
  /\ pos \in [Callers -> 0..SectionSize]
  /\ read \in [Callers -> Seq(Sections)]
  /\ decoys \in [Callers -> SUBSET Entries]
  /\ tries \in [Callers -> 0..(MaxRetries - 1)]
  /\ got \in [Callers -> Entries \cup {None}]
  /\ faults \in 0..MaxFaults

Decoy(s) == [decoy |-> TRUE, status |-> s]

FirstSection(n, s) ==
  [e \in Entries |-> IF e[1] = 0 /\ e[2] < n THEN Decoy(s) ELSE None]

(* New: initMetadataDoc and InitializeIfEmpty.  A start that died inside   *)
(* the InsertMany of section 0 leaves a prefix of it, which the next start *)
(* finds not empty and accepts.                                            *)
Init ==
  /\ \E n \in 1..SectionSize, s \in Statuses : docs = FirstSection(n, s)
  /\ meta = [current |-> 0, sections |-> <<0>>]
  /\ pc = [c \in Callers |-> "idle"]
  /\ section = [c \in Callers |-> 0]
  /\ pos = [c \in Callers |-> 0]
  /\ read = [c \in Callers |-> <<>>]
  /\ decoys = [c \in Callers |-> {}]
  /\ tries = [c \in Callers |-> 0]
  /\ got = [c \in Callers |-> None]
  /\ faults = 0

IsDecoy(e) == docs[e] # None /\ docs[e].decoy
DecoysOf(s) == {e \in Entries : e[1] = s /\ IsDecoy(e)}

-----------------------------------------------------------------------------
(* A call ends, with an answer or an error; what it wrote stays.           *)
End(c) ==
  /\ pc' = [pc EXCEPT ![c] = "idle"]
  /\ section' = [section EXCEPT ![c] = 0]
  /\ pos' = [pos EXCEPT ![c] = 0]
  /\ read' = [read EXCEPT ![c] = <<>>]
  /\ decoys' = [decoys EXCEPT ![c] = {}]
  /\ tries' = [tries EXCEPT ![c] = 0]
  /\ got' = [got EXCEPT ![c] = None]

At(c, step) == pc[c] = step
GoTo(c, step) == pc' = [pc EXCEPT ![c] = step]

-----------------------------------------------------------------------------
(* CreateNewSectionIfNeeded.                                               *)

GetCurrentSection(c) ==
  /\ At(c, "idle")
  /\ GoTo(c, "count")
  /\ section' = [section EXCEPT ![c] = meta.current]
  /\ UNCHANGED <<docs, meta, pos, read, decoys, tries, got, faults>>

(* Mutant of CountDecoys: at exactly the threshold no section is made.     *)
CountDecoysBelow(c) ==
  /\ At(c, "count")
  /\ IF Cardinality(DecoysOf(section[c])) < LowDecoys
     THEN /\ section[c] < MaxSection
          /\ GoTo(c, "insert")
          /\ section' = [section EXCEPT ![c] = section[c] + 1]
     ELSE /\ GoTo(c, "sample")
          /\ UNCHANGED section
  /\ UNCHANGED <<docs, meta, pos, read, decoys, tries, got, faults>>

(* The count stops at LowDecoys + 1, which is enough to compare.           *)
CountDecoys(c) ==
  /\ At(c, "count")
  /\ IF Cardinality(DecoysOf(section[c])) <= LowDecoys
     THEN /\ section[c] < MaxSection
          /\ GoTo(c, "insert")
          /\ section' = [section EXCEPT ![c] = section[c] + 1]
     ELSE /\ GoTo(c, "sample")
          /\ UNCHANGED section
  /\ UNCHANGED <<docs, meta, pos, read, decoys, tries, got, faults>>

(* Mutant of InsertDoc: a duplicate key is taken for work already done.    *)
InsertDocTolerant(c) ==
  /\ At(c, "insert")
  /\ LET e == <<section[c], pos[c]>>
     IN \/ docs[e] # None /\ UNCHANGED docs
        \/ /\ docs[e] = None
           /\ \E s \in Statuses : docs' = [docs EXCEPT ![e] = Decoy(s)]
  /\ pos' = [pos EXCEPT ![c] = pos[c] + 1]
  /\ GoTo(c, IF pos[c] + 1 = SectionSize THEN "find" ELSE "insert")
  /\ UNCHANGED <<meta, faults, section, read, decoys, tries, got>>

(* Mutant of InsertDoc: an unordered InsertMany skips what is there.       *)
InsertDocUnordered(c) ==
  /\ At(c, "insert")
  /\ \E i \in Indexes, s \in Statuses :
       /\ docs[<<section[c], i>>] = None
       /\ docs' = [docs EXCEPT ![<<section[c], i>>] = Decoy(s)]
  /\ pos' = [pos EXCEPT ![c] = pos[c] + 1]
  /\ GoTo(c, IF pos[c] + 1 = SectionSize THEN "find" ELSE "insert")
  /\ UNCHANGED <<meta, faults, section, read, decoys, tries, got>>

(* One document of CreateNewSection's InsertMany; a duplicate key ends it. *)
InsertDoc(c) ==
  /\ At(c, "insert")
  /\ LET e == <<section[c], pos[c]>>
     IN \/ /\ docs[e] # None
           /\ End(c)
           /\ UNCHANGED docs
        \/ /\ docs[e] = None
           /\ \E s \in Statuses : docs' = [docs EXCEPT ![e] = Decoy(s)]
           /\ pos' = [pos EXCEPT ![c] = pos[c] + 1]
           /\ GoTo(c, IF pos[c] + 1 = SectionSize THEN "find" ELSE "insert")
           /\ UNCHANGED <<section, read, decoys, tries, got>>
  /\ UNCHANGED <<meta, faults>>

(* UpdateCurrentSection reads the metadata document...                     *)
FindMeta(c) ==
  /\ At(c, "find")
  /\ GoTo(c, "update")
  /\ read' = [read EXCEPT ![c] = meta.sections]
  /\ UNCHANGED <<docs, meta, section, pos, decoys, tries, got, faults>>

(* ... and writes it back with the new section appended.                   *)
UpdateCurrentSection(c) ==
  /\ At(c, "update")
  /\ GoTo(c, "sample")
  /\ meta' = [current |-> section[c], sections |-> Append(read[c], section[c])]
  /\ UNCHANGED <<docs, section, pos, read, decoys, tries, got, faults>>

-----------------------------------------------------------------------------
(* Add.                                                                    *)

(* getRandomDecoys: 50 random indexes are looked up, so any few of the     *)
(* decoys may be found, and none of them even when there are some.         *)
GetRandomDecoys(c) ==
  /\ At(c, "sample")
  /\ \/ /\ End(c)
     \/ /\ \E found \in SUBSET DecoysOf(section[c]) :
             /\ Cardinality(found) \in 1..Want
             /\ decoys' = [decoys EXCEPT ![c] = found]
        /\ GoTo(c, "claim")
        /\ UNCHANGED <<section, pos, read, tries, got>>
  /\ UNCHANGED <<docs, meta, faults>>

(* Mutant of Claim: the update does not ask for decoy: true.               *)
ClaimUnguarded(c) ==
  /\ At(c, "claim")
  /\ \E e \in decoys[c] :
       /\ docs' = [docs EXCEPT ![e] = [decoy |-> FALSE, status |-> 0]]
       /\ got' = [got EXCEPT ![c] = e]
  /\ GoTo(c, "noise")
  /\ UNCHANGED <<meta, section, pos, read, decoys, tries, faults>>

(* UpdateOne with decoy: true in its filter claims one of them.            *)
Claim(c) ==
  /\ At(c, "claim")
  /\ \E e \in decoys[c] :
       /\ IsDecoy(e)
       /\ docs' = [docs EXCEPT ![e] = [decoy |-> FALSE, status |-> 0]]
       /\ got' = [got EXCEPT ![c] = e]
  /\ GoTo(c, "noise")
  /\ UNCHANGED <<meta, section, pos, read, decoys, tries, faults>>

(* Mutant of ClaimLost: one retry too many.                                *)
ClaimLostOnceMore(c) ==
  /\ At(c, "claim")
  /\ \E e \in decoys[c] : ~IsDecoy(e)
  /\ IF tries[c] < MaxRetries
     THEN /\ GoTo(c, "sample")
          /\ tries' = [tries EXCEPT ![c] = tries[c] + 1]
          /\ decoys' = [decoys EXCEPT ![c] = {}]
          /\ UNCHANGED <<section, pos, read, got>>
     ELSE End(c)
  /\ UNCHANGED <<docs, meta, faults>>

(* Another call claimed the decoy picked: look again, up to MaxRetries.    *)
ClaimLost(c) ==
  /\ At(c, "claim")
  /\ \E e \in decoys[c] : ~IsDecoy(e)
  /\ IF tries[c] + 1 < MaxRetries
     THEN /\ GoTo(c, "sample")
          /\ tries' = [tries EXCEPT ![c] = tries[c] + 1]
          /\ decoys' = [decoys EXCEPT ![c] = {}]
          /\ UNCHANGED <<section, pos, read, got>>
     ELSE End(c)
  /\ UNCHANGED <<docs, meta, faults>>

(* The BulkWrite that gives the other decoys found new random statuses,    *)
(* as many of them as it gets to; then AddStatus returns.                  *)
Noise(c) ==
  /\ At(c, "noise")
  /\ \E hit \in SUBSET (decoys[c] \ {got[c]}) :
       \E s \in [hit -> Statuses] :
         docs' = [e \in Entries |->
                    IF e \in hit /\ IsDecoy(e) THEN Decoy(s[e]) ELSE docs[e]]
  /\ End(c)
  /\ UNCHANGED <<meta, faults>>

-----------------------------------------------------------------------------
(* UpdateStatus, from the issuer over gRPC or from the admin page: whether *)
(* the entry is a decoy is neither asked nor changed.                      *)
UpdateStatus(e, s) ==
  /\ docs[e] # None
  /\ docs' = [docs EXCEPT ![e] = [decoy |-> docs[e].decoy, status |-> s]]
  /\ UNCHANGED <<meta, faults, callVars>>

(* A database operation fails or the replica dies: the call is over.       *)
Fault(c) ==
  /\ ~At(c, "idle")
  /\ faults < MaxFaults
  /\ faults' = faults + 1
  /\ End(c)
  /\ UNCHANGED <<docs, meta>>

AddStatus(c) ==
  \/ GetCurrentSection(c)
  \/ CountDecoys(c)
  \/ InsertDoc(c)
  \/ FindMeta(c)
  \/ UpdateCurrentSection(c)
  \/ GetRandomDecoys(c)
  \/ Claim(c)
  \/ ClaimLost(c)
  \/ Noise(c)

Next ==
  \/ \E c \in Callers : AddStatus(c) \/ Fault(c)
  \/ \E e \in Entries, s \in Statuses : UpdateStatus(e, s)

Spec == Init /\ [][Next]_vars

(* Credentials keep being requested, and a call that is running goes on.   *)
FairSpec == Spec /\ \A c \in Callers : WF_vars(AddStatus(c))

-----------------------------------------------------------------------------
(* GetAllStatusesForSection sorts a section by index and puts the statuses *)
(* into the list by position, so position and index have to agree: the     *)
(* indexes of a section that are there have no gap below them, however     *)
(* many replicas were creating it and wherever one of them stopped.        *)
PositionIsIndex ==
  \A e \in Entries :
    docs[e] # None => \A i \in Indexes : i < e[2] => docs[<<e[1], i>>] # None

(* UpdateCurrentSection's read and write are two operations, and nothing   *)
(* but the unique index of the entries keeps a second creator from running *)
(* between them: the list of sections that aggregation publishes must name *)
(* every section up to the current one, once and in order, and a section   *)
(* that was rolled over to must have been filled completely.               *)
SectionsInOrder ==
  /\ meta.sections = [i \in 1..(meta.current + 1) |-> i - 1]
  /\ \A e \in Entries : e[1] \in 1..meta.current => docs[e] # None

(* The status of the credential that owns an entry; a decoy has no owner.  *)
Issued == [e \in Entries |->
             IF docs[e] # None /\ ~docs[e].decoy THEN docs[e].status ELSE None]

SA == INSTANCE StatusAllocator WITH issued <- Issued, held <- got

(* The registry implements the allocator: overlapping AddStatus calls,     *)
(* their retries and the noise written over decoys never give an entry     *)
(* that already belongs to a credential to another one, take it back, or   *)
(* change its status; a crash only loses the caller its own answer.        *)
ImplementsAllocator == SA!AllocSpec

Low == Cardinality(DecoysOf(meta.current)) <= LowDecoys

(* The call that inserted the first document is the only one to get on.    *)
Creating(s) == \E c \in Callers :
  section[c] = s /\ pos[c] > 0 /\ pc[c] \in {"insert", "find", "update"}

(* The documents of the next section exist and nobody is going to finish   *)
(* the rollover to it.                                                     *)
Orphaned ==
  /\ meta.current < MaxSection
  /\ docs[<<meta.current + 1, 0>>] # None
  /\ ~Creating(meta.current + 1)

Exhausted == meta.current = MaxSection

(* CreateNewSectionIfNeeded: when the section runs low a new one follows,  *)
(* although every caller that comes upon a section under construction      *)
(* fails, unless the replica that creates it dies.                         *)
LowSectionRollsOver == (Low /\ ~Exhausted) ~> (~Low \/ Orphaned \/ Exhausted)

(* "Ready = can accept a request and populate a status entry for a         *)
(* credential" (HealthProbe): nothing HealthProbe looks at changes when a  *)
(* rollover is orphaned, so a section that is low should be followed by a  *)
(* fresh one here too.                                                     *)
ReadyPopulatesEntry == (Low /\ ~Exhausted) ~> (~Low \/ Exhausted)

=============================================================================
