-------------------------- MODULE StatusListProofs --------------------------
(***************************************************************************)
(* Proofs about StatusList, for every number of calls, any section size,   *)
(* threshold, number of retries and of faults.  The inductive invariant    *)
(* adds to the properties what each call knows at each step; its heart is  *)
(* that the call that inserted the first document of a section is alone in *)
(* creating it, although no lock is taken.                                 *)
(***************************************************************************)
EXTENDS StatusList, TLAPS

(* The call is past the first document of the section it creates.          *)
Owner(c) == pc[c] \in {"insert", "find", "update"} /\ pos[c] > 0

CallOK(c) ==
  /\ pc[c] \in {"idle", "count"} => pos[c] = 0
  /\ pc[c] = "count" => section[c] <= meta.current
  /\ pc[c] = "insert" => section[c] \in 1..(meta.current + 1) /\ pos[c] < SectionSize
  /\ pc[c] \in {"find", "update"} => pos[c] = SectionSize
  /\ pc[c] = "update" => read[c] = meta.sections
  /\ got[c] # None <=> pc[c] = "noise"
  /\ Owner(c) => /\ section[c] = meta.current + 1
                 /\ \A i \in Indexes : i < pos[c] => docs[<<section[c], i>>] # None

OneCreator == \A c, d \in Callers : Owner(c) /\ Owner(d) => c = d

IInv ==
  /\ TypeOK
  /\ PositionIsIndex
  /\ SectionsInOrder
  /\ \A c \in Callers : CallOK(c)
  /\ OneCreator

-----------------------------------------------------------------------------
(* A decoy is a document.                                                  *)
LEMMA DecoyIsDoc == \A s \in Statuses : Decoy(s) \in Doc /\ Decoy(s) # None
<1> SUFFICES ASSUME NEW s \in Statuses PROVE Decoy(s) \in Doc /\ Decoy(s) # None
  OBVIOUS
<1>1. Decoy(s) \in Doc
  BY DEF Decoy, Doc
<1>2. None \notin Doc
  BY StatusListAssumption DEF Doc
<1> QED BY <1>1, <1>2

(* Init establishes the inductive invariant.                               *)
LEMMA InitIInv == Init => IInv
<1> SUFFICES ASSUME Init PROVE IInv
  OBVIOUS
<1>a. PICK n \in 1..SectionSize, s \in Statuses : docs = FirstSection(n, s)
  BY DEF Init
<1>1. docs = [e \in Entries |-> IF e[1] = 0 /\ e[2] < n THEN Decoy(s) ELSE None]
  BY <1>a DEF FirstSection
<1> USE StatusListAssumption
<1>2. Decoy(s) \in Doc /\ Decoy(s) # None
  BY DecoyIsDoc
<1>3. docs \in [Entries -> Doc \cup {None}]
  BY <1>1, <1>2
<1>4. \A e \in Entries : e[1] \in Sections /\ e[2] \in Indexes /\ e = <<e[1], e[2]>>
  BY DEF Entries
<1>5. meta \in Meta
  <2>1. <<0>> \in Seq(Sections) /\ 0 \in Sections
    BY DEF Sections
  <2> QED BY <2>1 DEF Init, Meta
<1>6. TypeOK
  BY <1>3, <1>5 DEF Init, TypeOK, Steps, Sections, Indexes
<1>7. PositionIsIndex
  <2> SUFFICES ASSUME NEW e \in Entries, docs[e] # None, NEW i \in Indexes, i < e[2]
               PROVE  docs[<<e[1], i>>] # None
    BY DEF PositionIsIndex
  <2>1. e[1] = 0 /\ e[2] < n
    BY <1>1
  <2>2. <<e[1], i>> \in Entries
    BY <1>4 DEF Entries
  <2>3. i < n
    BY <2>1, <1>4 DEF Indexes
  <2> QED BY <1>1, <1>2, <2>1, <2>2, <2>3
<1>8. SectionsInOrder
  BY DEF Init, SectionsInOrder
<1>9. (\A c \in Callers : CallOK(c)) /\ OneCreator
  BY DEF Init, CallOK, Owner, OneCreator
<1> QED BY <1>6, <1>7, <1>8, <1>9 DEF IInv

(* The components of an entry.                                             *)
LEMMA EntryParts ==
  /\ \A e \in Entries : e[1] \in Sections /\ e[2] \in Indexes /\ e = <<e[1], e[2]>>
  /\ \A s \in Sections, i \in Indexes : <<s, i>> \in Entries
BY DEF Entries

(* What a step that ends its call, and leaves the metadata alone, keeps.   *)
LEMMA EndKeeps ==
  ASSUME IInv, NEW c \in Callers, End(c), UNCHANGED meta,
         docs' \in [Entries -> Doc \cup {None}],
         \A e \in Entries : docs[e] # None => docs'[e] # None,
         \A e \in Entries : docs'[e] # None => docs[e] # None,
         faults' \in 0..MaxFaults
  PROVE  IInv'
<1> USE StatusListAssumption
<1>1. TypeOK'
  <2>1. <<>> \in Seq(Sections)
    OBVIOUS
  <2> QED BY <2>1 DEF IInv, TypeOK, End, Steps, Sections
<1>2. PositionIsIndex'
  BY EntryParts DEF IInv, PositionIsIndex
<1>3. SectionsInOrder'
  BY DEF IInv, SectionsInOrder
<1>4. ASSUME NEW d \in Callers PROVE CallOK(d)'
  <2>1. CASE d = c
    BY <2>1 DEF IInv, TypeOK, End, CallOK, Owner
  <2>2. CASE d # c
    <3>1. /\ pc'[d] = pc[d] /\ pos'[d] = pos[d] /\ section'[d] = section[d]
          /\ read'[d] = read[d] /\ got'[d] = got[d]
      BY <2>2 DEF IInv, TypeOK, End
    <3>2. section[d] \in Sections
      BY DEF IInv, TypeOK
    <3>3. CallOK(d)
      BY DEF IInv
    <3> QED BY <3>1, <3>2, <3>3, EntryParts DEF CallOK, Owner
  <2> QED BY <2>1, <2>2
<1>5. OneCreator'
  BY DEF IInv, TypeOK, End, OneCreator, Owner
<1> QED BY <1>1, <1>2, <1>3, <1>4, <1>5 DEF IInv

(* What a step of call c that neither creates a section nor ends keeps.    *)
LEMMA StepKeeps ==
  ASSUME IInv, NEW c \in Callers, UNCHANGED <<meta, read, faults>>, TypeOK',
         \A e \in Entries : docs[e] # None <=> docs'[e] # None,
         \A d \in Callers \ {c} : /\ pc'[d] = pc[d] /\ section'[d] = section[d]
                                  /\ pos'[d] = pos[d] /\ got'[d] = got[d],
         CallOK(c)', ~Owner(c)'
  PROVE  IInv'
<1> USE StatusListAssumption
<1>1. PositionIsIndex'
  BY EntryParts DEF IInv, PositionIsIndex
<1>2. SectionsInOrder'
  BY DEF IInv, SectionsInOrder
<1>3. ASSUME NEW d \in Callers PROVE CallOK(d)'
  <2>1. CASE d # c
    <3>1. /\ pc'[d] = pc[d] /\ pos'[d] = pos[d] /\ section'[d] = section[d]
          /\ read'[d] = read[d] /\ got'[d] = got[d]
      BY <2>1
    <3>2. section[d] \in Sections
      BY DEF IInv, TypeOK
    <3>3. CallOK(d)
      BY DEF IInv
    <3> QED BY <3>1, <3>2, <3>3, EntryParts DEF CallOK, Owner
  <2> QED BY <2>1
<1>4. OneCreator'
  BY DEF IInv, OneCreator, Owner
<1> QED BY <1>1, <1>2, <1>3, <1>4 DEF IInv

-----------------------------------------------------------------------------
(* Steps that read: the current section and the number of its decoys.      *)
LEMMA ReadSteps ==
  ASSUME IInv, NEW c \in Callers, GetCurrentSection(c) \/ CountDecoys(c)
  PROVE  IInv'
<1> USE StatusListAssumption
<1>1. CASE GetCurrentSection(c)
  <2>1. meta.current \in Sections
    BY DEF IInv, TypeOK, Meta
  <2>2. TypeOK'
    BY <1>1, <2>1 DEF IInv, TypeOK, GetCurrentSection, GoTo, Steps
  <2>3. CallOK(c)' /\ ~Owner(c)'
    BY <1>1, <2>1 DEF IInv, TypeOK, CallOK, Owner, GetCurrentSection, GoTo, At, Sections
  <2> QED BY <1>1, <2>2, <2>3, StepKeeps DEF IInv, TypeOK, GetCurrentSection, GoTo
<1>2. CASE CountDecoys(c)
  <2>1. meta.current \in Sections /\ section[c] \in Sections /\ pos[c] = 0 /\ pc[c] = "count"
    BY <1>2 DEF IInv, TypeOK, Meta, CallOK, CountDecoys, At
  <2>2. \/ /\ section[c] < MaxSection
           /\ pc' = [pc EXCEPT ![c] = "insert"]
           /\ section' = [section EXCEPT ![c] = section[c] + 1]
        \/ /\ pc' = [pc EXCEPT ![c] = "sample"]
           /\ UNCHANGED section
    BY <1>2 DEF CountDecoys, GoTo
  <2>3. UNCHANGED <<docs, meta, pos, read, decoys, tries, got, faults>>
    BY <1>2 DEF CountDecoys
  <2>4. TypeOK'
    <3>a. section \in [Callers -> Sections]
      BY DEF IInv, TypeOK
    <3>b. section[c] < MaxSection => section[c] + 1 \in Sections
      BY <2>1 DEF Sections
    <3>1. section' \in [Callers -> Sections]
      BY <3>a, <3>b, <2>2
    <3>2. pc' \in [Callers -> Steps]
      BY <2>2 DEF IInv, TypeOK, Steps
    <3> QED BY <3>1, <3>2, <2>3 DEF IInv, TypeOK
  <2>5. CallOK(c)' /\ ~Owner(c)'
    BY <2>1, <2>2, <2>3 DEF IInv, TypeOK, CallOK, Owner, Sections
  <2> QED BY <2>2, <2>3, <2>4, <2>5, StepKeeps DEF IInv, TypeOK
<1> QED BY <1>1, <1>2

(* InsertDoc: a duplicate key ends the call; otherwise the document is the *)
(* first of the section after the current one, or the creator's next.      *)
LEMMA InsertStep == ASSUME IInv, NEW c \in Callers, InsertDoc(c) PROVE IInv'
<1> USE StatusListAssumption
<1> DEFINE e == <<section[c], pos[c]>>
<1>1. CASE docs[e] # None
  <2>1. End(c) /\ UNCHANGED <<docs, meta, faults>>
    BY <1>1 DEF InsertDoc
  <2> QED BY <2>1, EndKeeps DEF IInv, TypeOK
<1>2. CASE docs[e] = None
  <2>1. PICK s \in Statuses : docs' = [docs EXCEPT ![e] = Decoy(s)]
    BY <1>2 DEF InsertDoc
  <2>2. /\ pc[c] = "insert"
        /\ pos' = [pos EXCEPT ![c] = pos[c] + 1]
        /\ pc' = [pc EXCEPT ![c] = IF pos[c] + 1 = SectionSize THEN "find" ELSE "insert"]
        /\ UNCHANGED <<meta, faults, section, read, decoys, tries, got>>
    BY <1>2 DEF InsertDoc, GoTo, At
  <2>3. /\ section[c] \in 1..(meta.current + 1) /\ section[c] \in Sections
        /\ pos[c] \in Indexes /\ e \in Entries /\ meta.current \in Sections
    BY <2>2, EntryParts, SMTT(30) DEF IInv, TypeOK, CallOK, Indexes, Meta, Sections
  <2>4. Decoy(s) \in Doc /\ Decoy(s) # None
    BY DecoyIsDoc
  <2>5. /\ docs' \in [Entries -> Doc \cup {None}] /\ docs'[e] # None
        /\ \A f \in Entries : f # e => docs'[f] = docs[f]
    BY <2>1, <2>3, <2>4 DEF IInv, TypeOK
  <2>6. TypeOK'
    BY <2>2, <2>3, <2>5 DEF IInv, TypeOK, Steps, Indexes
  <2>7. /\ section[c] = meta.current + 1
        /\ \A i \in Indexes : i < pos[c] => docs[<<section[c], i>>] # None
    <3>1. CASE pos[c] > 0
      BY <3>1, <2>2 DEF IInv, CallOK, Owner
    <3>2. CASE pos[c] = 0
      <4>1. e[1] = section[c]
        OBVIOUS
      <4>2. section[c] \notin 1..meta.current
        BY <1>2, <2>3, <4>1 DEF IInv, SectionsInOrder
      <4> QED BY <3>2, <4>2, <2>3 DEF Indexes, Sections
    <3> QED BY <3>1, <3>2, <2>3 DEF Indexes
  <2>8. \A d \in Callers : Owner(d) => d = c
    <3> SUFFICES ASSUME NEW d \in Callers, Owner(d), d # c PROVE FALSE
      OBVIOUS
    <3>1. section[d] = section[c] /\ pos[d] > 0
      BY <2>7 DEF IInv, CallOK, Owner
    <3>2. pos[c] = 0
      BY <2>2, <2>3 DEF IInv, OneCreator, Owner, Indexes
    <3>3. docs[<<section[d], 0>>] # None
      BY <3>1, <3>2, <2>3 DEF IInv, CallOK
    <3> QED BY <3>1, <3>2, <3>3, <1>2
  <2>9. PositionIsIndex'
    <3> SUFFICES ASSUME NEW f \in Entries, docs'[f] # None, NEW i \in Indexes, i < f[2]
                 PROVE  docs'[<<f[1], i>>] # None
      BY DEF PositionIsIndex
    <3>1. <<f[1], i>> \in Entries
      BY EntryParts
    <3>2. CASE f = e
      BY <3>1, <3>2, <2>5, <2>7
    <3>3. CASE f # e
      BY <3>1, <3>3, <2>5 DEF IInv, PositionIsIndex
    <3> QED BY <3>2, <3>3
  <2>10. SectionsInOrder'
    BY <2>2, <2>5 DEF IInv, SectionsInOrder
  <2>11. ASSUME NEW d \in Callers PROVE CallOK(d)'
    <3>1. CASE d = c
      <4>1. /\ pc'[d] \in {"insert", "find"} /\ pos'[d] = pos[c] + 1
            /\ pc'[d] = "insert" => pos[c] + 1 < SectionSize
            /\ pc'[d] = "find" => pos[c] + 1 = SectionSize
        BY <3>1, <2>2, <2>3 DEF IInv, TypeOK, Indexes
      <4>2. \A i \in Indexes : i < pos[c] + 1 => docs'[<<section[c], i>>] # None
        BY <2>3, <2>5, <2>7, EntryParts DEF Indexes
      <4>3. got[d] = None
        BY <3>1, <2>2 DEF IInv, CallOK
      <4> QED BY <3>1, <4>1, <4>2, <4>3, <2>2, <2>3, <2>7 DEF CallOK, Owner
    <3>2. CASE d # c
      <4>1. pc'[d] = pc[d] /\ pos'[d] = pos[d] /\ section'[d] = section[d]
        BY <3>2, <2>2 DEF IInv, TypeOK
      <4>2. CallOK(d) /\ ~Owner(d)
        BY <3>2, <2>8 DEF IInv
      <4> QED BY <4>1, <4>2, <2>2 DEF CallOK, Owner
    <3> QED BY <3>1, <3>2
  <2>12. OneCreator'
    BY <2>8, <2>2 DEF IInv, TypeOK, OneCreator, Owner
  <2> QED BY <2>6, <2>9, <2>10, <2>11, <2>12 DEF IInv
<1> QED BY <1>1, <1>2

(* FindMeta and UpdateCurrentSection: the creator alone is between them.   *)
LEMMA MetaSteps ==
  ASSUME IInv, NEW c \in Callers, FindMeta(c) \/ UpdateCurrentSection(c)
  PROVE  IInv'
<1> USE StatusListAssumption
<1>0. /\ meta.current \in Sections /\ meta.sections \in Seq(Sections)
      /\ section[c] \in Sections /\ read[c] \in Seq(Sections)
  BY DEF IInv, TypeOK, Meta
<1>a. pc[c] \in {"find", "update"} /\ UNCHANGED <<docs, section, pos, decoys, tries, got, faults>>
  BY DEF FindMeta, UpdateCurrentSection, At
<1>b. pos[c] = SectionSize /\ Owner(c) /\ section[c] = meta.current + 1
  BY <1>a DEF IInv, CallOK, Owner
<1>c. \A d \in Callers : Owner(d) => d = c
  BY <1>b DEF IInv, OneCreator
<1>1. CASE FindMeta(c)
  <2>1. TypeOK'
    BY <1>1, <1>0 DEF IInv, TypeOK, FindMeta, GoTo, Steps
  <2>2. PositionIsIndex' /\ SectionsInOrder'
    BY <1>1 DEF IInv, PositionIsIndex, SectionsInOrder, FindMeta
  <2>3. ASSUME NEW d \in Callers PROVE CallOK(d)'
    BY <1>1, <1>a, <1>b DEF IInv, TypeOK, CallOK, Owner, FindMeta, GoTo
  <2>4. OneCreator'
    BY <1>1, <1>a DEF IInv, TypeOK, OneCreator, Owner, FindMeta, GoTo
  <2> QED BY <2>1, <2>2, <2>3, <2>4 DEF IInv
<1>2. CASE UpdateCurrentSection(c)
  <2>1. /\ pc[c] = "update" /\ pc' = [pc EXCEPT ![c] = "sample"] /\ UNCHANGED read
        /\ meta' = [current |-> section[c], sections |-> Append(read[c], section[c])]
    BY <1>2 DEF UpdateCurrentSection, GoTo, At
  <2>2. TypeOK'
    <3>1. Append(read[c], section[c]) \in Seq(Sections)
      BY <1>0
    <3>2. meta' \in Meta
      BY <3>1, <2>1, <1>0 DEF Meta
    <3> QED BY <3>2, <2>1, <1>a DEF IInv, TypeOK, Steps
  <2>3. PositionIsIndex'
    BY <1>a DEF IInv, PositionIsIndex
  <2>4. SectionsInOrder'
    <3>1. read[c] = meta.sections
      BY <2>1 DEF IInv, CallOK
    <3>2. meta.sections = [i \in 1..(meta.current + 1) |-> i - 1]
      BY DEF IInv, SectionsInOrder
    <3>3. Len(meta.sections) = meta.current + 1
      BY <3>2, <1>0 DEF Sections
    <3>4. Append(read[c], section[c]) = [i \in 1..(section[c] + 1) |-> i - 1]
      BY <3>1, <3>2, <3>3, <1>0, <1>b DEF Sections
    <3>5. ASSUME NEW e \in Entries, e[1] \in 1..section[c] PROVE docs[e] # None
      <4>1. e[1] \in Sections /\ e[2] \in Indexes /\ e = <<e[1], e[2]>>
        BY EntryParts
      <4>2. CASE e[1] \in 1..meta.current
        BY <4>2 DEF IInv, SectionsInOrder
      <4>3. CASE e[1] = section[c]
        <5>1. e[2] < pos[c]
          BY <4>1, <1>b DEF Indexes
        <5>2. docs[<<section[c], e[2]>>] # None
          BY <5>1, <4>1, <1>b DEF IInv, CallOK
        <5> QED BY <5>2, <4>1, <4>3
      <4> QED BY <4>1, <4>2, <4>3, <3>5, <1>0, <1>b DEF Sections
    <3>6. meta'.current = section[c] /\ meta'.sections = Append(read[c], section[c])
      BY <2>1
    <3> QED BY <3>4, <3>5, <3>6, <1>a DEF SectionsInOrder
  <2>5. ASSUME NEW d \in Callers PROVE CallOK(d)'
    <3>0. meta'.current = meta.current + 1 /\ CallOK(d) /\ section[d] \in Sections
      BY <2>1, <1>b DEF IInv, TypeOK
    <3>1. CASE d = c
      <4>1. pc'[d] = "sample"
        BY <3>1, <2>1 DEF IInv, TypeOK
      <4>2. got[d] = None
        BY <3>1, <2>1, <3>0 DEF CallOK
      <4> QED BY <4>1, <4>2, <1>a DEF CallOK, Owner
    <3>2. CASE d # c
      <4>1. pc'[d] = pc[d] /\ ~Owner(d)
        BY <3>2, <1>c, <2>1 DEF IInv, TypeOK
      <4>2. pc[d] \notin {"find", "update"}
        BY <4>1, <3>0 DEF CallOK, Owner
      <4> QED BY <4>1, <4>2, <3>0, <1>0, <1>a DEF CallOK, Owner, Sections
    <3> QED BY <3>1, <3>2
  <2>6. OneCreator'
    BY <2>1, <1>a DEF IInv, TypeOK, OneCreator, Owner
  <2> QED BY <2>2, <2>3, <2>4, <2>5, <2>6 DEF IInv
<1> QED BY <1>1, <1>2

(* Add: looking for decoys, claiming one, and the noise.                   *)
LEMMA AddSteps ==
  ASSUME IInv, NEW c \in Callers,
         GetRandomDecoys(c) \/ Claim(c) \/ ClaimLost(c) \/ Noise(c)
  PROVE  IInv'
<1> USE StatusListAssumption
<1>0. CASE End(c) /\ UNCHANGED <<docs, meta, faults>>
  BY <1>0, EndKeeps DEF IInv, TypeOK
<1>1. CASE GetRandomDecoys(c) /\ ~(End(c) /\ UNCHANGED <<docs, meta, faults>>)
  <2>1. PICK found \in SUBSET DecoysOf(section[c]) : decoys' = [decoys EXCEPT ![c] = found]
    BY <1>1 DEF GetRandomDecoys
  <2>2. /\ pc[c] = "sample" /\ pc' = [pc EXCEPT ![c] = "claim"]
        /\ UNCHANGED <<section, pos, read, tries, got, docs, meta, faults>>
    BY <1>1 DEF GetRandomDecoys, GoTo, At
  <2>3. found \in SUBSET Entries
    BY DEF DecoysOf
  <2>4. TypeOK'
    BY <2>1, <2>2, <2>3 DEF IInv, TypeOK, Steps
  <2>5. CallOK(c)' /\ ~Owner(c)'
    BY <2>2 DEF IInv, TypeOK, CallOK, Owner
  <2> QED BY <2>2, <2>4, <2>5, StepKeeps DEF IInv, TypeOK
<1>2. CASE Claim(c)
  <2>1. PICK e \in decoys[c] :
          /\ IsDecoy(e)
          /\ docs' = [docs EXCEPT ![e] = [decoy |-> FALSE, status |-> 0]]
          /\ got' = [got EXCEPT ![c] = e]
    BY <1>2 DEF Claim
  <2>2. /\ pc[c] = "claim" /\ pc' = [pc EXCEPT ![c] = "noise"]
        /\ UNCHANGED <<meta, section, pos, read, decoys, tries, faults>>
    BY <1>2 DEF Claim, GoTo, At
  <2>3. e \in Entries /\ e # None
    BY DEF IInv, TypeOK, Entries, Sections, Indexes
  <2>4. [decoy |-> FALSE, status |-> 0] \in Doc
    BY DEF Doc
  <2>5. [decoy |-> FALSE, status |-> 0] # None
    BY <2>4 DEF Doc
  <2>6. TypeOK'
    BY <2>1, <2>2, <2>3, <2>4 DEF IInv, TypeOK, Steps
  <2>7. CallOK(c)' /\ ~Owner(c)'
    BY <2>1, <2>2, <2>3 DEF IInv, TypeOK, CallOK, Owner
  <2>8. \A f \in Entries : docs[f] # None <=> docs'[f] # None
    BY <2>1, <2>5 DEF IsDecoy, IInv, TypeOK
  <2> QED BY <2>1, <2>2, <2>6, <2>7, <2>8, StepKeeps DEF IInv, TypeOK
<1>3. CASE ClaimLost(c) /\ ~(End(c) /\ UNCHANGED <<docs, meta, faults>>)
  <2>1. /\ pc[c] = "claim" /\ pc' = [pc EXCEPT ![c] = "sample"]
        /\ tries[c] + 1 < MaxRetries
        /\ tries' = [tries EXCEPT ![c] = tries[c] + 1]
        /\ decoys' = [decoys EXCEPT ![c] = {}]
        /\ UNCHANGED <<section, pos, read, got, docs, meta, faults>>
    BY <1>3 DEF ClaimLost, GoTo, At
  <2>2. TypeOK'
    BY <2>1 DEF IInv, TypeOK, Steps
  <2>3. CallOK(c)' /\ ~Owner(c)'
    BY <2>1 DEF IInv, TypeOK, CallOK, Owner
  <2> QED BY <2>1, <2>2, <2>3, StepKeeps DEF IInv, TypeOK
<1>4. CASE Noise(c)
  <2>1. PICK hit \in SUBSET (decoys[c] \ {got[c]}) : \E s \in [hit -> Statuses] :
          docs' = [e \in Entries |->
                     IF e \in hit /\ IsDecoy(e) THEN Decoy(s[e]) ELSE docs[e]]
    BY <1>4 DEF Noise
  <2>2. PICK s \in [hit -> Statuses] :
          docs' = [e \in Entries |->
                     IF e \in hit /\ IsDecoy(e) THEN Decoy(s[e]) ELSE docs[e]]
    BY <2>1
  <2>3. \A e \in hit : Decoy(s[e]) \in Doc /\ Decoy(s[e]) # None
    BY DecoyIsDoc
  <2>4. docs' \in [Entries -> Doc \cup {None}]
    BY <2>2, <2>3 DEF IInv, TypeOK
  <2>5. \A e \in Entries : docs[e] # None <=> docs'[e] # None
    BY <2>2, <2>3 DEF IsDecoy
  <2> QED BY <1>4, <2>4, <2>5, EndKeeps DEF Noise, IInv, TypeOK
<1> QED BY <1>0, <1>1, <1>2, <1>3, <1>4

(* UpdateStatus and faults.                                                *)
LEMMA OtherSteps ==
  ASSUME IInv,
         \/ \E c \in Callers : Fault(c)
         \/ \E e \in Entries, s \in Statuses : UpdateStatus(e, s)
  PROVE  IInv'
<1> USE StatusListAssumption
<1>1. ASSUME NEW c \in Callers, Fault(c) PROVE IInv'
  <2>1. End(c) /\ UNCHANGED <<docs, meta>> /\ faults < MaxFaults /\ faults' = faults + 1
    BY <1>1 DEF Fault
  <2>2. faults' \in 0..MaxFaults /\ docs \in [Entries -> Doc \cup {None}]
    BY <2>1, SMTT(30) DEF IInv, TypeOK
  <2> QED BY <2>1, <2>2, EndKeeps
<1>2. ASSUME NEW e \in Entries, NEW s \in Statuses, UpdateStatus(e, s) PROVE IInv'
  <2>1. /\ docs[e] # None
        /\ docs' = [docs EXCEPT ![e] = [decoy |-> docs[e].decoy, status |-> s]]
        /\ UNCHANGED <<meta, faults, pc, section, pos, read, decoys, tries, got>>
    BY <1>2 DEF UpdateStatus, callVars
  <2>2. docs[e] \in Doc
    BY <2>1 DEF IInv, TypeOK
  <2>3. [decoy |-> docs[e].decoy, status |-> s] \in Doc
    BY <2>2 DEF Doc
  <2>4. [decoy |-> docs[e].decoy, status |-> s] # None
    BY <2>3 DEF Doc
  <2>5. \A f \in Entries : docs[f] # None <=> docs'[f] # None
    BY <2>1, <2>4 DEF IInv, TypeOK
  <2>6. TypeOK'
    BY <2>1, <2>3 DEF IInv, TypeOK
  <2>7. PositionIsIndex'
    BY <2>5, EntryParts DEF IInv, PositionIsIndex
  <2>8. SectionsInOrder'
    BY <2>1, <2>5 DEF IInv, SectionsInOrder
  <2>9. ASSUME NEW d \in Callers PROVE CallOK(d)'
    <3>1. CallOK(d) /\ section[d] \in Sections
      BY DEF IInv, TypeOK
    <3> QED BY <3>1, <2>1, <2>5, EntryParts DEF CallOK, Owner
  <2>10. OneCreator'
    BY <2>1 DEF IInv, OneCreator, Owner
  <2> QED BY <2>6, <2>7, <2>8, <2>9, <2>10 DEF IInv
<1> QED BY <1>1, <1>2

(* Every step keeps the inductive invariant.                               *)
LEMMA NextIInv == ASSUME IInv, [Next]_vars PROVE IInv'
<1>1. ASSUME NEW c \in Callers, AddStatus(c) PROVE IInv'
  BY <1>1, ReadSteps, InsertStep, MetaSteps, AddSteps DEF AddStatus
<1>2. CASE UNCHANGED vars
  <2> USE <1>2 DEF vars
  <2>1. TypeOK'
    BY DEF IInv, TypeOK
  <2>2. PositionIsIndex' /\ SectionsInOrder'
    BY DEF IInv, PositionIsIndex, SectionsInOrder
  <2>3. (\A c \in Callers : CallOK(c))' /\ OneCreator'
    BY DEF IInv, CallOK, Owner, OneCreator
  <2> QED BY <2>1, <2>2, <2>3 DEF IInv
<1> QED BY <1>1, <1>2, OtherSteps DEF Next

(* The inductive invariant holds in every reachable state.                 *)
LEMMA IInvHolds == Spec => []IInv
<1> QED BY InitIInv, NextIInv, PTL DEF Spec

-----------------------------------------------------------------------------
(* The registry stays within its types: in particular no AddStatus call    *)
(* makes more than MaxRetries claims.                                      *)
THEOREM StatusListTypeCorrect == Spec => []TypeOK
<1>1. IInv => TypeOK
  BY DEF IInv
<1> QED BY <1>1, IInvHolds, PTL

(* The statuses read in index order are in the place of their index, in    *)
(* every section and however many replicas create it or die creating it.   *)
THEOREM PositionsAreIndexes == Spec => []PositionIsIndex
<1>1. IInv => PositionIsIndex
  BY DEF IInv
<1> QED BY <1>1, IInvHolds, PTL

(* The unlocked read and write of the metadata document never lose or      *)
(* repeat a section, and a section rolled over to is complete.             *)
THEOREM SectionsListedInOrder == Spec => []SectionsInOrder
<1>1. IInv => SectionsInOrder
  BY DEF IInv
<1> QED BY <1>1, IInvHolds, PTL

-----------------------------------------------------------------------------
(* Documents that are no decoy, before and after a step that only fills    *)
(* decoys or entries that are missing.                                     *)
LEMMA IssuedKept ==
  ASSUME docs \in [Entries -> Doc \cup {None}], docs' \in [Entries -> Doc \cup {None}],
         \A e \in Entries : \/ docs'[e] = docs[e]
                            \/ /\ docs[e] = None \/ docs[e].decoy
                               /\ docs'[e] # None => docs'[e].decoy
  PROVE  Issued' = Issued
BY DEF Issued

(* Ending a call gives back what it holds, if it holds anything.           *)
LEMMA EndReleases ==
  ASSUME IInv, NEW c \in Callers, End(c), Issued' = Issued
  PROVE  [SA!AllocNext]_(SA!allocVars)
<1>1. got' = [got EXCEPT ![c] = None] /\ got \in [Callers -> Entries \cup {None}]
  BY DEF End, IInv, TypeOK
<1>2. CASE got[c] = None
  <2>1. got' = got
    BY <1>1, <1>2
  <2> QED BY <2>1 DEF SA!allocVars
<1>3. CASE got[c] # None
  BY <1>1, <1>3 DEF SA!AllocNext, SA!Release
<1> QED BY <1>2, <1>3

(* Every step of the registry is a step of the allocator, or none.         *)
LEMMA StepRefines == ASSUME IInv, [Next]_vars PROVE [SA!AllocNext]_(SA!allocVars)
<1> USE StatusListAssumption
<1>0. docs \in [Entries -> Doc \cup {None}] /\ got \in [Callers -> Entries \cup {None}]
  BY DEF IInv, TypeOK
<1>1. CASE UNCHANGED <<docs, got>>
  BY <1>1 DEF Issued, SA!allocVars
<1>2. ASSUME NEW c \in Callers, End(c), UNCHANGED docs
      PROVE  [SA!AllocNext]_(SA!allocVars)
  BY <1>2, EndReleases DEF Issued
<1>3. ASSUME NEW c \in Callers, InsertDoc(c) PROVE [SA!AllocNext]_(SA!allocVars)
  <2>1. CASE docs[<<section[c], pos[c]>>] # None
    BY <2>1, <1>2, <1>3 DEF InsertDoc
  <2>2. CASE docs[<<section[c], pos[c]>>] = None
    <3>1. PICK s \in Statuses : docs' = [docs EXCEPT ![<<section[c], pos[c]>>] = Decoy(s)]
      BY <1>3, <2>2 DEF InsertDoc
    <3>2. Decoy(s) \in Doc /\ Decoy(s).decoy
      BY DecoyIsDoc DEF Decoy
    <3>3. docs' \in [Entries -> Doc \cup {None}]
      BY <3>1, <3>2, <1>0
    <3>4. Issued' = Issued
      BY <3>1, <3>2, <3>3, <2>2, <1>0, IssuedKept
    <3>5. UNCHANGED got
      BY <1>3, <2>2 DEF InsertDoc
    <3> QED BY <3>4, <3>5 DEF SA!allocVars
  <2> QED BY <2>1, <2>2
<1>4. ASSUME NEW c \in Callers, GetRandomDecoys(c) \/ ClaimLost(c)
      PROVE  [SA!AllocNext]_(SA!allocVars)
  BY <1>1, <1>2, <1>4 DEF GetRandomDecoys, ClaimLost
<1>5. ASSUME NEW c \in Callers, Claim(c) PROVE [SA!AllocNext]_(SA!allocVars)
  <2>1. PICK e \in decoys[c] :
          /\ IsDecoy(e)
          /\ docs' = [docs EXCEPT ![e] = [decoy |-> FALSE, status |-> 0]]
          /\ got' = [got EXCEPT ![c] = e]
    BY <1>5 DEF Claim
  <2>2. e \in Entries
    BY DEF IInv, TypeOK
  <2>3. got[c] = None
    BY <1>5 DEF Claim, At, IInv, CallOK
  <2>4. [decoy |-> FALSE, status |-> 0] # None
    <3>1. [decoy |-> FALSE, status |-> 0] \in Doc
      BY DEF Doc
    <3> QED BY <3>1 DEF Doc
  <2>5. Issued[e] = None
    BY <2>1, <2>2 DEF Issued, IsDecoy
  <2>6. Issued' = [Issued EXCEPT ![e] = 0]
    BY <2>1, <2>2, <2>4, <1>0 DEF Issued
  <2>7. SA!Allocate(c, e)
    BY <2>1, <2>3, <2>5, <2>6 DEF SA!Allocate
  <2> QED BY <2>2, <2>7 DEF SA!AllocNext
<1>6. ASSUME NEW c \in Callers, Noise(c) PROVE [SA!AllocNext]_(SA!allocVars)
  <2>1. PICK hit \in SUBSET (decoys[c] \ {got[c]}) : \E s \in [hit -> Statuses] :
          docs' = [e \in Entries |->
                     IF e \in hit /\ IsDecoy(e) THEN Decoy(s[e]) ELSE docs[e]]
    BY <1>6 DEF Noise
  <2>2. PICK s \in [hit -> Statuses] :
          docs' = [e \in Entries |->
                     IF e \in hit /\ IsDecoy(e) THEN Decoy(s[e]) ELSE docs[e]]
    BY <2>1
  <2>3. \A e \in hit : Decoy(s[e]) \in Doc /\ Decoy(s[e]).decoy
    BY DecoyIsDoc DEF Decoy
  <2>4. docs' \in [Entries -> Doc \cup {None}]
    BY <2>2, <2>3, <1>0
  <2>5. Issued' = Issued
    BY <2>2, <2>3, <2>4, <1>0, IssuedKept DEF IsDecoy
  <2> QED BY <1>6, <2>5, EndReleases DEF Noise
<1>7. ASSUME NEW e \in Entries, NEW s \in Statuses, UpdateStatus(e, s)
      PROVE  [SA!AllocNext]_(SA!allocVars)
  <2>1. /\ docs[e] # None
        /\ docs' = [docs EXCEPT ![e] = [decoy |-> docs[e].decoy, status |-> s]]
        /\ UNCHANGED got
    BY <1>7 DEF UpdateStatus, callVars
  <2>2. docs[e] \in Doc
    BY <2>1, <1>0
  <2>3. [decoy |-> docs[e].decoy, status |-> s] \in Doc
    BY <2>2 DEF Doc
  <2>4. [decoy |-> docs[e].decoy, status |-> s] # None
    BY <2>3 DEF Doc
  <2>5. CASE docs[e].decoy
    <3>1. docs' \in [Entries -> Doc \cup {None}]
      BY <2>1, <2>3, <1>0
    <3>2. Issued' = Issued
      BY <2>1, <2>5, <3>1, <1>0, IssuedKept
    <3> QED BY <3>2, <2>1 DEF SA!allocVars
  <2>6. CASE ~docs[e].decoy
    <3>1. Issued[e] # None
      <4>1. docs[e].status \in Statuses
        BY <2>2 DEF Doc
      <4> QED BY <4>1, <2>1, <2>6 DEF Issued
    <3>2. Issued' = [Issued EXCEPT ![e] = s]
      BY <2>1, <2>4, <2>6, <1>0 DEF Issued
    <3> QED BY <3>1, <3>2, <2>1 DEF SA!AllocNext, SA!SetStatus
  <2> QED BY <2>5, <2>6
<1>8. ASSUME NEW c \in Callers, AddStatus(c) PROVE [SA!AllocNext]_(SA!allocVars)
  BY <1>8, <1>1, <1>3, <1>4, <1>5, <1>6
     DEF AddStatus, GetCurrentSection, CountDecoys, FindMeta, UpdateCurrentSection
<1>9. ASSUME NEW c \in Callers, Fault(c) PROVE [SA!AllocNext]_(SA!allocVars)
  BY <1>9, <1>2 DEF Fault
<1>10. CASE UNCHANGED vars
  BY <1>1, <1>10 DEF vars
<1> QED BY <1>7, <1>8, <1>9, <1>10 DEF Next

(* The registry implements the abstract allocator: whatever calls overlap  *)
(* and wherever they fail, an entry is given to one credential, starts     *)
(* VALID, and only an explicit update changes the owner's status.          *)
THEOREM AllocatorRefined == Spec => ImplementsAllocator
<1>1. Init => SA!AllocInit
  <2> SUFFICES ASSUME Init PROVE SA!AllocInit
    OBVIOUS
  <2>1. PICK n \in 1..SectionSize, s \in Statuses : docs = FirstSection(n, s)
    BY DEF Init
  <2>2. Issued = [e \in Entries |-> None]
    BY <2>1 DEF Issued, FirstSection, Decoy
  <2> QED BY <2>2 DEF Init, SA!AllocInit
<1>2. IInv /\ [Next]_vars => [SA!AllocNext]_(SA!allocVars)
  BY StepRefines
<1> QED BY <1>1, <1>2, IInvHolds, PTL DEF Spec, ImplementsAllocator, SA!AllocSpec
=============================================================================
