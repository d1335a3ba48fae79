------------------------ MODULE RecordingStoreProofs ------------------------
(***************************************************************************)
(* Proofs about RecordingStore, for every clock range, every bound on the  *)
(* manifest and with or without crashes: StoreInv is inductive, and with   *)
(* it no recording is lost, dangling or unlinked while it is written.      *)
(* Then about Downloads: an archive is the recording asked for, whatever   *)
(* the store does while it is written short of deleting an entry or        *)
(* truncating the file, for any names, manifest and size.                  *)
(***************************************************************************)
EXTENDS Downloads, SequenceTheorems, FiniteSetTheorems, TLAPS

\* An empty manifest lists nothing.
LEMMA ListedEmpty == Listed(<<>>) = {} /\ Len(<<>>) = 0 /\ <<>> \in Seq(Entry)
  BY EmptySeq DEF Listed

\* Appending an entry lists its name and keeps what was listed.
LEMMA ListedAppend ==
  ASSUME NEW s \in Seq(Entry), NEW e \in Entry
  PROVE  /\ Append(s, e) \in Seq(Entry)
         /\ Len(Append(s, e)) = Len(s) + 1
         /\ Append(s, e)[Len(s) + 1] = e
         /\ Listed(Append(s, e)) = Listed(s) \cup {e.name}
<1>1. /\ Append(s, e) \in Seq(Entry)
      /\ Len(Append(s, e)) = Len(s) + 1
      /\ \A i \in 1..Len(s) : Append(s, e)[i] = s[i]
      /\ Append(s, e)[Len(s) + 1] = e
  BY AppendProperties
<1>2. DOMAIN Append(s, e) = 1..(Len(s) + 1) /\ DOMAIN s = 1..Len(s) /\ Len(s) \in Nat
  BY <1>1, LenProperties
<1>3. Listed(Append(s, e)) = Listed(s) \cup {e.name}
  BY <1>1, <1>2 DEF Listed
<1> QED BY <1>1, <1>3

\* Removing entry i drops no name but its own, and leaves the last entry last.
LEMMA RemoveAtProperties ==
  ASSUME NEW s \in Seq(Entry), NEW i \in 1..Len(s)
  PROVE  /\ RemoveAt(s, i) \in Seq(Entry)
         /\ Len(RemoveAt(s, i)) = Len(s) - 1
         /\ i < Len(s) => RemoveAt(s, i)[Len(s) - 1] = s[Len(s)]
         /\ Listed(RemoveAt(s, i)) \subseteq Listed(s)
         /\ Listed(s) \subseteq Listed(RemoveAt(s, i)) \cup {s[i].name}
<1> DEFINE a == SubSeq(s, 1, i - 1)
           b == SubSeq(s, i + 1, Len(s))
           r == RemoveAt(s, i)
<1>1. Len(s) \in Nat /\ DOMAIN s = 1..Len(s) /\ \A k \in 1..Len(s) : s[k] \in Entry
  BY LenProperties, ElementOfSeq
<1>2. /\ a \in Seq(Entry) /\ Len(a) = i - 1
      /\ \A k \in 1..(i - 1) : a[k] = s[k]
  <2>1. i - 1 \in Int /\ 1 \in Int /\ \A k \in 1..(i - 1) : s[k] \in Entry
    BY <1>1
  <2>2. /\ a \in Seq(Entry) /\ Len(a) = IF 1 <= i - 1 THEN (i - 1) - 1 + 1 ELSE 0
        /\ \A k \in 1..((i - 1) - 1 + 1) : a[k] = s[1 + k - 1]
    BY ONLY <2>1, SubSeqProperties
  <2> HIDE DEF a, b, r
  <2>3. i \in Int /\ 1 <= i /\ i <= Len(s) /\ Len(s) \in Int
    BY <1>1
  <2> QED BY <2>2, <2>3
<1>3. /\ b \in Seq(Entry) /\ Len(b) = Len(s) - i
      /\ \A k \in 1..(Len(s) - i) : b[k] = s[k + i]
  <2>1. i + 1 \in Int /\ Len(s) \in Int /\ \A k \in (i + 1)..Len(s) : s[k] \in Entry
    BY <1>1
  <2>2. /\ b \in Seq(Entry)
        /\ Len(b) = IF i + 1 <= Len(s) THEN Len(s) - (i + 1) + 1 ELSE 0
        /\ \A k \in 1..(Len(s) - (i + 1) + 1) : b[k] = s[(i + 1) + k - 1]
    BY ONLY <2>1, SubSeqProperties
  <2> HIDE DEF a, b, r
  <2>3. i \in Int /\ 1 <= i /\ i <= Len(s) /\ Len(s) \in Int
    BY <1>1
  <2> QED BY <2>2, <2>3
<1>4. r = a \o b
  BY DEF RemoveAt
<1>5. /\ r \in Seq(Entry) /\ Len(r) = Len(s) - 1
      /\ \A k \in 1..(Len(s) - 1) : r[k] = IF k <= i - 1 THEN a[k] ELSE b[k - (i - 1)]
  <2>1. Len(a) + Len(b) = Len(s) - 1
    <3> HIDE DEF a, b, r
    <3> QED BY <1>1, <1>2, <1>3
  <2>2. /\ r \in Seq(Entry) /\ Len(r) = Len(a) + Len(b)
        /\ \A k \in 1..(Len(a) + Len(b)) :
             r[k] = IF k <= Len(a) THEN a[k] ELSE b[k - Len(a)]
    <3>1. a \in Seq(Entry) /\ b \in Seq(Entry)
      BY <1>2, <1>3
    <3> HIDE DEF a, b
    <3> QED BY <1>4, <3>1, ConcatProperties
  <2> HIDE DEF a, b, r
  <2> QED BY <1>2, <2>1, <2>2
<1>6. \A k \in 1..(Len(s) - 1) : r[k] = IF k < i THEN s[k] ELSE s[k + 1]
  <2> TAKE k \in 1..(Len(s) - 1)
  <2>1. CASE k < i
    BY <2>1, <1>1, <1>2, <1>5
  <2>2. CASE k >= i
    <3>1. r[k] = b[k - (i - 1)] /\ k - (i - 1) \in 1..(Len(s) - i)
      BY <2>2, <1>1, <1>5
    <3>2. b[k - (i - 1)] = s[(k - (i - 1)) + i]
      BY <3>1, <1>3
    <3> QED BY <2>2, <3>1, <3>2, <1>1
  <2> QED BY <1>1, <2>1, <2>2
<1>7. DOMAIN r = 1..(Len(s) - 1)
  BY <1>5, LenProperties
<1>8. Listed(r) \subseteq Listed(s)
  BY <1>1, <1>6, <1>7 DEF Listed
<1>9. Listed(s) \subseteq Listed(r) \cup {s[i].name}
  <2>1. SUFFICES ASSUME NEW k \in 1..Len(s), k # i
                 PROVE  s[k].name \in Listed(r)
    BY <1>1 DEF Listed
  <2>2. CASE k < i
    BY <2>1, <2>2, <1>1, <1>6, <1>7 DEF Listed
  <2>3. CASE k > i
    <3>1. k - 1 \in 1..(Len(s) - 1) /\ r[k - 1] = s[k]
      BY <2>1, <2>3, <1>1, <1>6
    <3> QED BY <3>1, <1>7 DEF Listed
  <2> QED BY <1>1, <2>1, <2>2, <2>3
<1>10. i < Len(s) => r[Len(s) - 1] = s[Len(s)]
  BY <1>1, <1>6
<1> QED BY <1>5, <1>8, <1>9, <1>10

\* Visiting the head of the manifest leaves a part of it to visit.
LEMMA ListedTail ==
  ASSUME NEW s \in Seq(Entry), s # <<>>
  PROVE  /\ Head(s) \in Entry
         /\ Tail(s) \in Seq(Entry)
         /\ Head(s).name \in Listed(s)
         /\ Listed(Tail(s)) \subseteq Listed(s)
<1>1. Len(s) \in Nat \ {0} /\ DOMAIN s = 1..Len(s)
  BY EmptySeq, LenProperties
<1>2. /\ Head(s) \in Entry /\ Tail(s) \in Seq(Entry)
      /\ Len(Tail(s)) = Len(s) - 1
      /\ \A i \in 1..Len(Tail(s)) : Tail(s)[i] = s[i + 1]
  BY HeadTailProperties
<1>3. DOMAIN Tail(s) = 1..(Len(s) - 1)
  BY <1>2, LenProperties
<1>4. Head(s) = s[1]
  BY DEF Head
<1> QED BY <1>1, <1>2, <1>3, <1>4 DEF Listed

\* A new size for one entry changes no name.
LEMMA ListedResize ==
  ASSUME NEW s \in Seq(Entry), NEW i \in 1..Len(s), NEW k \in 0..MaxSize
  PROVE  LET r == [s EXCEPT ![i].size = k] IN
         /\ r \in Seq(Entry)
         /\ Len(r) = Len(s)
         /\ r[i].name = s[i].name
         /\ Listed(r) = Listed(s)
<1> DEFINE e == [s[i] EXCEPT !.size = k]
           r == [s EXCEPT ![i].size = k]
<1>1. s[i] \in Entry /\ DOMAIN s = 1..Len(s)
  BY ElementOfSeq, LenProperties
<1>2. e \in Entry /\ e.name = s[i].name
  BY <1>1 DEF Entry
<1>3. r = [s EXCEPT ![i] = e]
  OBVIOUS
<1>4. /\ r \in Seq(Entry) /\ Len(r) = Len(s)
      /\ \A j \in 1..Len(s) : r[j] = IF j = i THEN e ELSE s[j]
  BY <1>2, <1>3, ExceptSeq
<1>5. DOMAIN r = 1..Len(s)
  BY <1>4, LenProperties
<1>6. \A j \in 1..Len(s) : r[j].name = s[j].name
  BY <1>2, <1>4
<1>7. Listed(r) = Listed(s)
  BY <1>1, <1>5, <1>6 DEF Listed
<1> QED BY <1>4, <1>6, <1>7

\* recover lists exactly the files it could read: an ascending enumeration of
\* them of their own length misses none.
LEMMA RecoveredListsFiles ==
  ASSUME TypeOK, NEW readable \in SUBSET Files,
         NEW order \in [1..Cardinality(readable) -> readable],
         \A i, j \in DOMAIN order : i < j => order[i] < order[j]
  PROVE  /\ RecoveredFrom(order) \in Seq(Entry)
         /\ Listed(RecoveredFrom(order)) = readable
<1> DEFINE n == Cardinality(readable)
           r == RecoveredFrom(order)
<1>1. IsFiniteSet(readable) /\ n \in Nat
  BY NamesAssumption, FS_Subset, FS_CardinalityType DEF Files
<1>2. DOMAIN order = 1..n /\ DOMAIN r = 1..n
  BY DEF RecoveredFrom
<1>3. \A i \in 1..n : /\ order[i] \in Names
                      /\ order[i] \in readable
                      /\ qmdl[order[i]] \in 0..MaxSize
  <2>1. \A f \in Files : f \in Names /\ qmdl[f] \in 0..(MaxSize + 1) /\ qmdl[f] # MaxSize + 1
    BY DEF TypeOK, Files, Missing
  <2>2. \A f \in Files : qmdl[f] \in 0..MaxSize
    BY <2>1, BoundsAssumption
  <2>3. \A i \in 1..n : order[i] \in readable
    BY <1>2
  <2> QED BY <2>1, <2>2, <2>3
<1>4. \A i \in 1..n : r[i] \in Entry /\ r[i].name = order[i]
  BY <1>2, <1>3 DEF RecoveredFrom, Entry
<1>5. r \in Seq(Entry)
  <2>1. r \in [1..n -> Entry]
    BY <1>2, <1>4 DEF RecoveredFrom
  <2> QED BY <2>1, <1>1, SeqDef
<1>6. IsFiniteSet(1..n) /\ Cardinality(1..n) = n
  BY <1>1, FS_Interval
<1>7. order \in Injection(1..n, readable)
  <2>1. \A i, j \in 1..n : i # j => order[i] # order[j]
    <3> SUFFICES ASSUME NEW i \in 1..n, NEW j \in 1..n, i < j
                 PROVE  order[i] # order[j]
      BY <1>1
    <3>1. order[i] < order[j]
      BY <1>2
    <3>2. order[i] \in Nat /\ order[j] \in Nat
      BY <1>3, NamesAssumption
    <3> QED BY <3>1, <3>2
  <2> QED BY <2>1, <1>2 DEF Injection, IsInjective
<1>8. order \in Surjection(1..n, readable)
  BY <1>1, <1>6, <1>7, FS_Injection
<1>9. \A f \in readable : \E i \in 1..n : order[i] = f
  BY <1>8 DEF Surjection
<1>10. Listed(r) = readable
  BY <1>2, <1>3, <1>4, <1>9 DEF Listed
<1> QED BY <1>5, <1>10

-----------------------------------------------------------------------------
\* A missing file is told from every size a file can have.
LEMMA Sizes ==
  /\ MaxSize \in Nat /\ Missing \in Nat /\ Missing \notin 0..MaxSize
  /\ 0 \in 0..MaxSize /\ 0 \in 0..Missing /\ Missing \in 0..Missing
  /\ Missing \notin 1..MaxSize
  /\ \A k \in 0..Missing : k < MaxSize =>
       /\ k + 1 \in 1..MaxSize /\ k + 1 \in 0..MaxSize /\ k + 1 \in 0..Missing
       /\ k + 1 # Missing /\ k # Missing
  BY BoundsAssumption DEF Missing

\* The length of a manifest is an index into it, or says it is empty.
LEMMA LenInRange == \A es \in Seq(Entry) : Len(es) \in 0..Len(es) /\ 0 \in 0..Len(es)
<1>1. \A es \in Seq(Entry) : Len(es) \in Nat
  BY LenProperties
<1> QED BY <1>1

\* The state the invariant talks about, and its parts, by name.
LEMMA EntryFacts ==
  ASSUME TypeOK
  PROVE  /\ \A es \in Seq(Entry) : DOMAIN es = 1..Len(es) /\ Len(es) \in Nat
         /\ \A es \in Seq(Entry) : Listed(es) \subseteq Names
         /\ current # NoEntry => /\ current \in 1..Len(entries)
                                 /\ entries[current] \in Entry
                                 /\ entries[current].name \in Names
                                 /\ entries[current].name \in Listed(entries)
<1>1. \A es \in Seq(Entry) : DOMAIN es = 1..Len(es) /\ Len(es) \in Nat
  BY LenProperties
<1>2. \A es \in Seq(Entry) : \A i \in 1..Len(es) : es[i] \in Entry
  BY ElementOfSeq
<1>3. \A e \in Entry : e.name \in Names
  BY DEF Entry
<1>4. \A es \in Seq(Entry) : Listed(es) \subseteq Names
  BY <1>1, <1>2, <1>3 DEF Listed
<1>5. current # NoEntry => current \in 1..Len(entries)
  BY <1>1 DEF TypeOK, NoEntry
<1> QED BY <1>1, <1>2, <1>3, <1>4, <1>5 DEF TypeOK, Listed

\* The initial state: an empty store.
LEMMA InitStoreInv == Init => StoreInv
<1> SUFFICES ASSUME Init PROVE StoreInv
  OBVIOUS
<1>1. TypeOK
  <2>1. entries \in Seq(Entry) /\ saved \in Seq(Entry) /\ kept \in Seq(Entry)
    BY ListedEmpty DEF Init
  <2>2. current \in 0..Len(entries)
    BY ListedEmpty DEF Init, NoEntry
  <2>3. Missing \in 0..Missing
    BY BoundsAssumption DEF Missing
  <2>4. qmdl \in [Names -> 0..Missing]
    BY <2>3 DEF Init
  <2> QED BY <2>1, <2>2, <2>4 DEF Init, TypeOK, Steps
<1>2. WithData = {}
  BY BoundsAssumption DEF Init, WithData, Missing
<1>3. /\ CurrentIsLast /\ LiveFilesExist /\ NothingOpen /\ JobOK /\ AllDoomed
      /\ OpenIsSaved
  BY DEF Init, CurrentIsLast, LiveFilesExist, NothingOpen, JobOK, AllDoomed,
         OpenIsSaved, NoEntry
<1>4. NoLostRecording /\ NoDanglingEntry /\ EntriesBacked /\ EntriesComplete
  BY <1>2, ListedEmpty DEF Init, Excused, NoLostRecording, NoDanglingEntry, EntriesBacked,
         EntriesComplete, WithData
<1> QED BY <1>1, <1>3, <1>4 DEF StoreInv

\* Saving the manifest in memory is safe at each point where the code does it.
LEMMA SaveStoreInv ==
  ASSUME StoreInv,
         SaveNewEntry \/ SaveSize \/ SaveDeletion \/ SaveAll
  PROVE  StoreInv'
<1> USE DEF StoreInv, Excused, SaveNewEntry, SaveSize, SaveDeletion, SaveAll,
        WriteManifest, WriteManifestFails, memory, disk
<1>1. TypeOK'
  BY DEF TypeOK, Steps
<1>2. CurrentIsLast' /\ LiveFilesExist'
  BY DEF CurrentIsLast, LiveFilesExist
<1>3. Files' = Files /\ WithData' = WithData /\ UNCHANGED <<doomed, skipped>>
  BY DEF Files, WithData
<1>4. NothingOpen' /\ AllDoomed'
  BY DEF NothingOpen, AllDoomed
<1>5. JobOK'
  BY <1>3 DEF JobOK
<1>6. EntriesBacked' /\ EntriesComplete'
  BY <1>3 DEF EntriesBacked, EntriesComplete
<1>7. NoLostRecording' /\ NoDanglingEntry'
  BY <1>3 DEF NoLostRecording, NoDanglingEntry, EntriesBacked, EntriesComplete,
         WithData, Files
<1>8. OpenIsSaved'
  BY EntryFacts DEF OpenIsSaved
<1> QED BY <1>1, <1>2, <1>4, <1>5, <1>6, <1>7, <1>8

\* A write that reaches the disk changes nothing the invariant talks about.
LEMMA LandStoreInv ==
  ASSUME StoreInv, Land
  PROVE  StoreInv'
BY DEF StoreInv, Land, memory, ghost, TypeOK, CurrentIsLast, LiveFilesExist,
       NoLostRecording, NoDanglingEntry, NothingOpen, JobOK, EntriesBacked,
       EntriesComplete, AllDoomed, OpenIsSaved, Excused, Files, WithData

\* new_entry up to its first file.
LEMMA NewEntryStoreInv ==
  ASSUME StoreInv, NEW n \in Names, NewEntry(n)
  PROVE  StoreInv'
<1> USE DEF StoreInv, Excused, NewEntry
<1>1. TypeOK'
  <2>1. 0 \in 0..Missing /\ \A es \in Seq(Entry) : 0 \in 0..Len(es)
    BY BoundsAssumption, EntryFacts DEF Missing
  <2> QED BY <2>1 DEF TypeOK, Steps, NoEntry
<1>2. CurrentIsLast' /\ LiveFilesExist' /\ NothingOpen' /\ OpenIsSaved' /\ AllDoomed'
  BY DEF CurrentIsLast, LiveFilesExist, NothingOpen, OpenIsSaved, AllDoomed
<1>3. CASE step' = "dead"
  <2>1. Files' = Files /\ WithData' = WithData /\ UNCHANGED <<doomed, skipped, saved, entries>>
    BY <1>3 DEF Files, WithData
  <2>2. NoLostRecording' /\ NoDanglingEntry'
    BY <2>1 DEF NoLostRecording, NoDanglingEntry, WithData
  <2>3. JobOK' /\ EntriesBacked' /\ EntriesComplete'
    BY <1>3, <2>1 DEF JobOK, EntriesBacked, EntriesComplete
  <2> QED BY <1>1, <1>2, <2>2, <2>3
<1>4. CASE step' # "dead"
  <2>1. /\ qmdl' = [qmdl EXCEPT ![n] = 0] /\ job' = n
        /\ step' = "ndjson" /\ doomed' = doomed \ {n} /\ skipped' = skipped \ {n}
        /\ UNCHANGED <<saved, entries>>
    BY <1>4
  <2>2. Files' = Files \cup {n}
    BY <2>1, BoundsAssumption DEF Files, TypeOK, Missing
  <2>3. WithData' = WithData \ {n}
    BY <2>1, BoundsAssumption DEF WithData, TypeOK
  <2>4. NoLostRecording' /\ NoDanglingEntry'
    <3>1. \A m \in WithData' : m \notin Excused' => m \in Listed(saved')
      BY <2>1, <2>3 DEF NoLostRecording, WithData
    <3>2. NoDanglingEntry'
      BY <2>1, <2>2 DEF NoDanglingEntry
    <3> QED BY <3>1, <3>2 DEF NoLostRecording, WithData
  <2>5. JobOK' /\ EntriesBacked'
    BY <2>1, <2>2 DEF JobOK, EntriesBacked
  <2>6. EntriesComplete'
    BY <2>1, <2>3 DEF EntriesComplete
  <2> QED BY <1>1, <1>2, <2>4, <2>5, <2>6
<1> QED BY <1>3, <1>4

\* new_entry: the second file, and the entry that becomes current and last.
LEMMA CreateAnalysisFileStoreInv ==
  ASSUME StoreInv, CreateAnalysisFile
  PROVE  StoreInv'
<1> USE DEF StoreInv, Excused, CreateAnalysisFile, ghost
<1>1. Files' = Files /\ WithData' = WithData /\ UNCHANGED <<saved, doomed, skipped, job>>
  BY DEF Files, WithData
<1>2. NoLostRecording' /\ NoDanglingEntry'
  BY <1>1 DEF NoLostRecording, NoDanglingEntry, WithData
<1>3. CASE step' = "dead"
  <2>1. UNCHANGED <<entries, current, ndjson, kept>>
    BY <1>3 DEF memory
  <2>2. TypeOK'
    BY <1>3, <2>1 DEF TypeOK, Steps
  <2>3. CurrentIsLast' /\ LiveFilesExist' /\ NothingOpen' /\ JobOK' /\ EntriesBacked'
        /\ EntriesComplete' /\ AllDoomed' /\ OpenIsSaved'
    BY <1>1, <1>3, <2>1 DEF CurrentIsLast, LiveFilesExist, NothingOpen, JobOK,
           EntriesBacked, EntriesComplete, AllDoomed, OpenIsSaved
  <2> QED BY <1>2, <2>2, <2>3
<1>4. CASE step' # "dead"
  <2> DEFINE e == [name |-> job, size |-> 0]
  <2>1. /\ ndjson' = ndjson \cup {job} /\ entries' = Append(entries, e)
        /\ current' = Len(entries') /\ step' = "save new"
    BY <1>4
  <2>2. e \in Entry /\ e.name = job
    <3>1. 0 \in 0..MaxSize /\ job \in Names
      BY Sizes DEF TypeOK
    <3> QED BY <3>1 DEF Entry
  <2>3. /\ entries' \in Seq(Entry) /\ Len(entries') = Len(entries) + 1
        /\ entries'[Len(entries) + 1] = e /\ Listed(entries') = Listed(entries) \cup {job}
    <3> HIDE DEF e
    <3> QED BY <2>1, <2>2, ListedAppend DEF TypeOK
  <2>4. TypeOK'
    <3>1. Len(entries') \in 0..Len(entries')
      BY <2>3, LenInRange
    <3> QED BY <2>1, <2>3, <3>1 DEF TypeOK, Steps
  <2>5. CurrentIsLast' /\ NothingOpen' /\ JobOK' /\ AllDoomed' /\ OpenIsSaved'
    BY <2>1 DEF CurrentIsLast, NothingOpen, JobOK, AllDoomed, OpenIsSaved
  <2>6. LiveFilesExist'
    <3>1. current' # NoEntry => entries'[current'].name = job
      BY <2>1, <2>2, <2>3
    <3>2. qmdl'[job] # Missing
      BY DEF JobOK, Files
    <3> QED BY <2>1, <3>1, <3>2 DEF LiveFilesExist
  <2>7. EntriesBacked' /\ EntriesComplete'
    BY <1>1, <2>1, <2>3 DEF EntriesBacked, EntriesComplete, JobOK
  <2> QED BY <1>2, <2>4, <2>5, <2>6, <2>7
<1> QED BY <1>3, <1>4

\* One container: file, size in memory; the save is still to come.
LEMMA ContainerWritten ==
  ASSUME StoreInv, RecordContainer, step' = "save size"
  PROVE  StoreInv'
<1> USE DEF StoreInv, Excused, Excused
<1> DEFINE n == entries[current].name
<1>1. /\ current # NoEntry /\ step = "idle" /\ step' = "save size"
      /\ qmdl[n] < MaxSize /\ qmdl' = [qmdl EXCEPT ![n] = qmdl[n] + 1]
      /\ entries' = [entries EXCEPT ![current].size = qmdl'[n]]
      /\ UNCHANGED <<current, saved, landed, ndjson, job, kept, failed, doomed, skipped>>
  BY DEF RecordContainer, ghost
<1>2. current \in 1..Len(entries) /\ n \in Names /\ n \in Listed(entries)
  BY <1>1, EntryFacts
<1> HIDE DEF n
<1>3. /\ qmdl[n] \in 0..Missing /\ qmdl[n] # Missing
      /\ qmdl'[n] = qmdl[n] + 1 /\ qmdl'[n] \in 1..MaxSize /\ qmdl'[n] # Missing
  <2>1. qmdl \in [Names -> 0..Missing]
    BY DEF TypeOK
  <2>2. qmdl[n] \in 0..Missing /\ qmdl'[n] = qmdl[n] + 1
    BY <1>1, <1>2, <2>1
  <2> QED BY <1>1, <2>2, Sizes
<1>4. qmdl'[n] \in 0..MaxSize
  BY <1>1, <1>3, Sizes
<1>5. /\ entries' \in Seq(Entry) /\ Len(entries') = Len(entries)
      /\ entries'[current].name = n /\ Listed(entries') = Listed(entries)
  <2>1. entries \in Seq(Entry)
    BY DEF TypeOK
  <2> DEFINE k == qmdl'[n]
  <2>2. k \in 0..MaxSize /\ entries' = [entries EXCEPT ![current].size = k]
    BY <1>1, <1>4
  <2> HIDE DEF k
  <2>3. /\ entries' \in Seq(Entry) /\ Len(entries') = Len(entries)
        /\ entries'[current].name = entries[current].name
        /\ Listed(entries') = Listed(entries)
    BY ONLY <1>2, <2>1, <2>2, ListedResize
  <2> QED BY <2>3 DEF n
<1>6. qmdl' \in [Names -> 0..Missing]
  <2>1. qmdl[n] + 1 \in 0..Missing
    BY <1>1, <1>3, Sizes
  <2> QED BY <1>1, <2>1 DEF TypeOK
<1>7. TypeOK'
  BY <1>1, <1>5, <1>6 DEF TypeOK, Steps
<1>8. \A m \in Names : m # n => qmdl'[m] = qmdl[m]
  BY <1>1 DEF TypeOK
<1>9. Files' = Files
  BY <1>2, <1>3, <1>8 DEF Files
<1>10. WithData' = WithData \cup {n}
  BY <1>2, <1>3, <1>8 DEF WithData
<1>11. n \in Listed(saved)
  BY <1>1 DEF OpenIsSaved, n
<1>12. CurrentIsLast' /\ NothingOpen' /\ JobOK' /\ AllDoomed' /\ OpenIsSaved'
  BY <1>1, <1>5, <1>11 DEF CurrentIsLast, NothingOpen, JobOK, AllDoomed, OpenIsSaved
<1>13. LiveFilesExist'
  <2>1. n \in ndjson
    BY <1>1 DEF LiveFilesExist, n
  <2>2. entries'[current'].name = n /\ qmdl'[n] # Missing /\ n \in ndjson'
    BY <1>1, <1>3, <1>5, <2>1
  <2> QED BY <2>2 DEF LiveFilesExist
<1>14. EntriesBacked' /\ EntriesComplete'
  BY <1>1, <1>2, <1>5, <1>9, <1>10 DEF EntriesBacked, EntriesComplete
<1>15. NoLostRecording' /\ NoDanglingEntry'
  <2>1. \A m \in WithData' : m \notin Excused' => m \in Listed(saved')
    BY <1>1, <1>10, <1>11 DEF NoLostRecording, WithData
  <2>2. NoDanglingEntry'
    BY <1>1, <1>9 DEF NoDanglingEntry
  <2> QED BY <2>1, <2>2 DEF NoLostRecording, WithData
<1> QED BY <1>7, <1>12, <1>13, <1>14, <1>15

\* A container that could not be written, or not as a whole: only the file of
\* the open recording, listed on disk, may have grown.
LEMMA RecordContainerStoreInv ==
  ASSUME StoreInv, RecordContainer
  PROVE  StoreInv'
<1> USE DEF StoreInv, Excused
<1> DEFINE n == entries[current].name
<1>1. CASE step' = "save size"
  BY <1>1, ContainerWritten
<1>2. CASE step' # "save size"
  <2>1. /\ current # NoEntry /\ step = "idle" /\ step' = "dead"
        /\ qmdl[n] < MaxSize /\ qmdl' \in {qmdl, [qmdl EXCEPT ![n] = qmdl[n] + 1]}
        /\ UNCHANGED <<entries, current, saved, landed, ndjson, job, kept, failed,
                       doomed, skipped>>
    BY <1>2 DEF RecordContainer, ghost
  <2>2. n \in Names /\ n \in Listed(saved) /\ qmdl[n] # Missing
    BY <2>1, EntryFacts DEF OpenIsSaved, LiveFilesExist
  <2> HIDE DEF n
  <2>3. qmdl \in [Names -> 0..Missing] /\ qmdl[n] \in 0..Missing
    BY <2>2 DEF TypeOK
  <2>4. qmdl[n] + 1 \in 0..Missing /\ qmdl[n] + 1 # Missing
    BY <2>1, <2>3, Sizes
  <2>5. /\ qmdl' \in [Names -> 0..Missing] /\ qmdl'[n] # Missing
        /\ \A m \in Names : m # n => qmdl'[m] = qmdl[m]
    BY <2>1, <2>2, <2>3, <2>4
  <2>6. Files' = Files /\ WithData' \subseteq WithData \cup {n}
    BY <2>2, <2>5 DEF Files, WithData
  <2>7. TypeOK'
    BY <2>1, <2>5 DEF TypeOK, Steps
  <2>8. /\ CurrentIsLast' /\ NothingOpen' /\ JobOK' /\ AllDoomed' /\ OpenIsSaved'
        /\ EntriesBacked' /\ EntriesComplete'
    BY <2>1, <2>6 DEF CurrentIsLast, NothingOpen, JobOK, AllDoomed, OpenIsSaved,
           EntriesBacked, EntriesComplete
  <2>9. LiveFilesExist'
    BY <2>1, <2>5, EntryFacts DEF LiveFilesExist, n
  <2>10. NoLostRecording' /\ NoDanglingEntry'
    BY <2>1, <2>2, <2>6 DEF NoLostRecording, NoDanglingEntry, WithData
  <2> QED BY <2>7, <2>8, <2>9, <2>10
<1> QED BY <1>1, <1>2

\* Closing: nothing is open any more, everything else stands.
LEMMA CloseStoreInv ==
  ASSUME StoreInv, CloseCurrentEntry
  PROVE  StoreInv'
<1> USE DEF StoreInv, Excused, CloseCurrentEntry, disk, ghost
<1>1. Files' = Files /\ WithData' = WithData
  BY DEF Files, WithData
<1>2. TypeOK'
  BY EntryFacts DEF TypeOK, NoEntry
<1>3. CurrentIsLast' /\ LiveFilesExist' /\ NothingOpen' /\ OpenIsSaved'
  BY DEF CurrentIsLast, LiveFilesExist, NothingOpen, OpenIsSaved
<1>4. JobOK' /\ EntriesBacked' /\ EntriesComplete' /\ AllDoomed'
  BY <1>1 DEF JobOK, EntriesBacked, EntriesComplete, AllDoomed
<1>5. NoLostRecording' /\ NoDanglingEntry'
  BY <1>1 DEF NoLostRecording, NoDanglingEntry, WithData
<1> QED BY <1>2, <1>3, <1>4, <1>5

\* delete_entry up to its save: the open recording stays last, and is not the
\* one whose files are to go.
LEMMA DeleteEntryStoreInv ==
  ASSUME StoreInv, NEW n \in Names, DeleteEntry(n)
  PROVE  StoreInv'
<1> USE DEF StoreInv, Excused, disk
<1>1. PICK i \in DOMAIN entries :
        /\ IsFirst(i, n)
        /\ entries' = RemoveAt(entries, i)
        /\ current' = IF IsCurrent(n) THEN NoEntry ELSE CurrentAfterDelete(i)
  BY DEF DeleteEntry
<1>2. /\ step = "idle" /\ step' = "save deletion" /\ job' = n
      /\ doomed' = doomed \cup {n}
      /\ UNCHANGED <<saved, landed, qmdl, ndjson, kept, failed, skipped>>
  BY DEF DeleteEntry
<1>3. /\ i \in 1..Len(entries) /\ Len(entries) \in Nat
      /\ entries[i].name = n /\ entries \in Seq(Entry)
  BY <1>1, EntryFacts DEF TypeOK, IsFirst
<1>4. /\ entries' \in Seq(Entry) /\ Len(entries') = Len(entries) - 1
      /\ i < Len(entries) => entries'[Len(entries) - 1] = entries[Len(entries)]
      /\ Listed(entries') \subseteq Listed(entries)
      /\ Listed(entries) \subseteq Listed(entries') \cup {n}
  BY <1>1, <1>3, RemoveAtProperties
<1>5. Files' = Files /\ WithData' = WithData
  BY <1>2 DEF Files, WithData
<1>6. current' # NoEntry =>
        /\ current # NoEntry /\ current = Len(entries) /\ i # current
        /\ current' = Len(entries')
        /\ entries'[current'] = entries[current]
        /\ entries[current].name # n
  <2> SUFFICES ASSUME current' # NoEntry
               PROVE  /\ current # NoEntry /\ current = Len(entries) /\ i # current
                      /\ current' = Len(entries')
                      /\ entries'[current'] = entries[current]
                      /\ entries[current].name # n
    OBVIOUS
  <2>1. ~IsCurrent(n) /\ current \notin {i, NoEntry} /\ current' = current - 1
    BY <1>1 DEF CurrentAfterDelete
  <2>2. current = Len(entries) /\ entries[current].name # n
    BY <2>1 DEF CurrentIsLast, IsCurrent
  <2>3. i < Len(entries)
    BY <1>3, <2>1, <2>2
  <2> QED BY <1>3, <1>4, <2>1, <2>2, <2>3
<1>7. TypeOK'
  <2>1. current' \in 0..Len(entries')
    <3>1. Len(entries') \in Nat
      BY <1>4, LenProperties
    <3> QED BY <1>6, <3>1 DEF NoEntry
  <2> QED BY <1>2, <1>4, <2>1 DEF TypeOK, Steps
<1>8. CurrentIsLast' /\ LiveFilesExist'
  BY <1>2, <1>6 DEF CurrentIsLast, LiveFilesExist
<1>9. NothingOpen' /\ AllDoomed'
  BY <1>2 DEF NothingOpen, AllDoomed
<1>10. JobOK'
  BY <1>2, <1>6 DEF JobOK
<1>11. EntriesBacked' /\ EntriesComplete'
  BY <1>2, <1>4, <1>5 DEF EntriesBacked, EntriesComplete
<1>12. NoLostRecording' /\ NoDanglingEntry'
  BY <1>2, <1>5 DEF NoLostRecording, NoDanglingEntry, WithData
<1>13. OpenIsSaved'
  BY <1>2, <1>6 DEF OpenIsSaved
<1> QED BY <1>7, <1>8, <1>9, <1>10, <1>11, <1>12, <1>13

\* delete_entry: the two files go.
LEMMA UnlinkStoreInv ==
  ASSUME StoreInv, UnlinkQmdl \/ UnlinkAnalysis
  PROVE  StoreInv'
<1> USE DEF StoreInv, Excused, Excused
<1>1. /\ UNCHANGED <<entries, current, saved, landed, job, kept, failed, doomed, skipped>>
      /\ step \in {"unlink qmdl", "unlink ndjson"} /\ step' \in {"idle", "unlink ndjson"}
      /\ qmdl' \in {qmdl, [qmdl EXCEPT ![job] = Missing]}
      /\ ndjson' \in {ndjson, ndjson \ {job}}
  BY DEF UnlinkQmdl, UnlinkAnalysis, memory, ghost
<1>2. job \in doomed /\ (current # NoEntry => entries[current].name # job)
  BY <1>1 DEF JobOK
<1>3. Missing \in 0..Missing /\ Missing \notin 1..MaxSize
  BY Sizes
<1>4. TypeOK'
  BY <1>1, <1>3 DEF TypeOK, Steps
<1>5. \A m \in Names : m # job => qmdl'[m] = qmdl[m] /\ (m \in ndjson' <=> m \in ndjson)
  BY <1>1 DEF TypeOK
<1>6. Files \subseteq Files' \cup {job} /\ WithData' \subseteq WithData
  BY <1>1, <1>3, <1>5 DEF Files, WithData, TypeOK
<1>7. CurrentIsLast' /\ NothingOpen' /\ JobOK' /\ AllDoomed' /\ OpenIsSaved'
  BY <1>1, <1>2 DEF CurrentIsLast, NothingOpen, JobOK, AllDoomed, OpenIsSaved
<1>8. LiveFilesExist'
  BY <1>1, <1>2, <1>5, EntryFacts DEF LiveFilesExist
<1>9. EntriesBacked' /\ EntriesComplete'
  BY <1>1, <1>2, <1>6 DEF EntriesBacked, EntriesComplete
<1>10. NoLostRecording' /\ NoDanglingEntry'
  <2>1. \A m \in WithData' : m \notin Excused' => m \in Listed(saved')
    BY <1>1, <1>6 DEF NoLostRecording, WithData
  <2>2. NoDanglingEntry'
    BY <1>1, <1>2, <1>6 DEF NoDanglingEntry
  <2> QED BY <2>1, <2>2 DEF NoLostRecording, WithData
<1> QED BY <1>4, <1>7, <1>8, <1>9, <1>10

\* delete_all_entries: close, and every recording is to go.
LEMMA DeleteAllStoreInv ==
  ASSUME StoreInv, DeleteAllEntries
  PROVE  StoreInv'
<1> USE DEF StoreInv, Excused, Excused
<1>1. /\ step = "idle" /\ step' = "unlink all" /\ current' = NoEntry /\ kept' = <<>>
      /\ doomed' = doomed \cup Listed(entries)
      /\ UNCHANGED <<entries, saved, landed, qmdl, ndjson, job, failed, skipped>>
  BY DEF DeleteAllEntries, disk
<1>2. Files' = Files /\ WithData' = WithData
  BY <1>1 DEF Files, WithData
<1>3. TypeOK'
  BY <1>1, EntryFacts, ListedEmpty, LenInRange DEF TypeOK, Steps, NoEntry
<1>4. CurrentIsLast' /\ LiveFilesExist' /\ NothingOpen' /\ OpenIsSaved' /\ JobOK'
  BY <1>1 DEF CurrentIsLast, LiveFilesExist, NothingOpen, OpenIsSaved, JobOK
<1>5. EntriesBacked' /\ EntriesComplete' /\ AllDoomed'
  BY <1>1, <1>2, ListedEmpty DEF EntriesBacked, EntriesComplete, AllDoomed
<1>6. NoLostRecording' /\ NoDanglingEntry'
  BY <1>1, <1>2 DEF NoLostRecording, NoDanglingEntry, WithData
<1> QED BY <1>3, <1>4, <1>5, <1>6

\* delete_all_entries: one round of its loop.
LEMMA UnlinkAllStoreInv ==
  ASSUME StoreInv, UnlinkFilesOfNext
  PROVE  StoreInv'
<1> USE DEF StoreInv, Excused, Excused
<1> DEFINE e == Head(entries)
<1>1. /\ step = "unlink all" /\ entries # <<>> /\ entries' = Tail(entries)
      /\ qmdl' \in {qmdl, [qmdl EXCEPT ![e.name] = Missing]}
      /\ ndjson' \in {ndjson, ndjson \ {e.name}}
      /\ kept' \in {kept, Append(kept, e)}
      /\ UNCHANGED <<current, saved, landed, step, job, failed, doomed, skipped>>
  BY DEF UnlinkFilesOfNext, ghost
<1>2. /\ e \in Entry /\ e.name \in Listed(entries) /\ entries' \in Seq(Entry)
      /\ Listed(entries') \subseteq Listed(entries)
  BY <1>1, ListedTail DEF TypeOK
<1>3. e.name \in doomed /\ e.name \in Names
  BY <1>1, <1>2 DEF AllDoomed, TypeOK
<1> HIDE DEF e
<1>4. kept' \in Seq(Entry) /\ Listed(kept') \subseteq Listed(kept) \cup {e.name}
  <2>1. kept \in Seq(Entry)
    BY DEF TypeOK
  <2>2. /\ Append(kept, e) \in Seq(Entry)
        /\ Listed(Append(kept, e)) = Listed(kept) \cup {e.name}
    BY <1>2, <2>1, ListedAppend
  <2>3. CASE kept' = kept
    BY <2>1, <2>3
  <2>4. CASE kept' = Append(kept, e)
    BY <2>2, <2>4
  <2> QED BY <1>1, <2>3, <2>4
<1>5. current' = NoEntry
  BY <1>1 DEF NothingOpen
<1>6. TypeOK'
  <2>1. current' \in 0..Len(entries')
    BY <1>2, <1>5, LenInRange DEF NoEntry
  <2>2. qmdl' \in [Names -> 0..Missing] /\ ndjson' \subseteq Names
    BY <1>1, Sizes DEF TypeOK
  <2> QED BY <1>1, <1>2, <1>4, <2>1, <2>2 DEF TypeOK
<1>7. \A m \in Names : m # e.name => qmdl'[m] = qmdl[m]
  BY <1>1 DEF TypeOK
<1>8. Files \subseteq Files' \cup {e.name}
  BY <1>7 DEF Files
<1>9. WithData' \subseteq WithData
  BY <1>1, Sizes DEF WithData, TypeOK
<1>10. CurrentIsLast' /\ LiveFilesExist' /\ NothingOpen' /\ OpenIsSaved' /\ JobOK'
  BY <1>1, <1>5 DEF CurrentIsLast, LiveFilesExist, NothingOpen, OpenIsSaved, JobOK
<1>11. AllDoomed'
  BY <1>1, <1>2, <1>3, <1>4, <1>9 DEF AllDoomed
<1>12. EntriesBacked' /\ EntriesComplete'
  BY <1>1, <1>2, <1>3, <1>8, <1>11 DEF EntriesBacked, EntriesComplete, AllDoomed
<1>13. NoLostRecording' /\ NoDanglingEntry'
  BY <1>1, <1>3, <1>8, <1>11 DEF NoLostRecording, NoDanglingEntry, WithData, AllDoomed
<1> QED BY <1>6, <1>10, <1>11, <1>12, <1>13

\* delete_all_entries: the entries that would not go become the manifest.
LEMMA RetainKeptStoreInv ==
  ASSUME StoreInv, RetainKept
  PROVE  StoreInv'
<1> USE DEF StoreInv, Excused, Excused
<1>1. /\ step = "unlink all" /\ step' = "save all" /\ entries' = kept /\ kept' = <<>>
      /\ UNCHANGED <<current, saved, landed, qmdl, ndjson, job, failed, doomed, skipped>>
  BY DEF RetainKept, disk, ghost
<1>2. Files' = Files /\ WithData' = WithData /\ current' = NoEntry
  BY <1>1 DEF Files, WithData, NothingOpen
<1>3. TypeOK'
  BY <1>1, <1>2, ListedEmpty, LenInRange DEF TypeOK, Steps, NoEntry
<1>4. CurrentIsLast' /\ LiveFilesExist' /\ NothingOpen' /\ OpenIsSaved' /\ JobOK'
  BY <1>1, <1>2 DEF CurrentIsLast, LiveFilesExist, NothingOpen, OpenIsSaved, JobOK
<1>5. AllDoomed'
  BY <1>1, <1>2, ListedEmpty DEF AllDoomed
<1>6. EntriesBacked' /\ EntriesComplete'
  BY <1>1, <1>2 DEF EntriesBacked, EntriesComplete, AllDoomed
<1>7. NoLostRecording' /\ NoDanglingEntry'
  BY <1>1, <1>2 DEF NoLostRecording, NoDanglingEntry, WithData
<1> QED BY <1>3, <1>4, <1>5, <1>6, <1>7

\* A crash forgets the memory and may shorten the file being written.
LEMMA CrashStoreInv ==
  ASSUME StoreInv, Crash
  PROVE  StoreInv'
<1> USE DEF StoreInv, Excused, Excused
<1>1. /\ step' = "down" /\ entries' = <<>> /\ current' = NoEntry /\ kept' = <<>>
      /\ UNCHANGED <<saved, landed, ndjson, job, failed, doomed, skipped>>
  BY DEF Crash, ghost
<1>2. /\ qmdl' \in [Names -> 0..Missing]
      /\ \A m \in Names : \/ qmdl'[m] = qmdl[m]
                          \/ /\ qmdl[m] # Missing /\ qmdl'[m] \in 0..qmdl[m]
                             /\ qmdl'[m] # Missing
  <2>1. CASE UNCHANGED qmdl
    BY <2>1 DEF TypeOK
  <2>2. CASE ~UNCHANGED qmdl
    <3> DEFINE n == entries[current].name
    <3>1. PICK left \in 0..qmdl[n] : current # NoEntry /\ qmdl' = [qmdl EXCEPT ![n] = left]
      BY <2>2 DEF Crash
    <3>2. n \in Names /\ qmdl[n] # Missing
      BY <3>1, EntryFacts DEF LiveFilesExist
    <3> HIDE DEF n
    <3>3. qmdl[n] \in 0..Missing /\ qmdl \in [Names -> 0..Missing]
      BY <3>2 DEF TypeOK
    <3>4. left \in 0..Missing /\ left # Missing
      BY ONLY <3>2, <3>3, Sizes, left \in 0..qmdl[n]
    <3> QED BY <3>1, <3>2, <3>3, <3>4
  <2> QED BY <2>1, <2>2
<1>3. Files' = Files
  BY <1>2 DEF Files
<1>4. WithData' \subseteq WithData
  <2> SUFFICES ASSUME NEW m \in Names, qmdl'[m] \in 1..MaxSize
               PROVE  qmdl[m] \in 1..MaxSize
    BY DEF WithData
  <2>1. qmdl[m] \in 0..Missing
    BY DEF TypeOK
  <2> QED BY <1>2, <2>1, BoundsAssumption DEF Missing
<1>5. TypeOK'
  BY <1>1, <1>2, ListedEmpty, LenInRange DEF TypeOK, Steps, NoEntry
<1>6. CurrentIsLast' /\ LiveFilesExist' /\ NothingOpen' /\ OpenIsSaved' /\ JobOK'
  BY <1>1 DEF CurrentIsLast, LiveFilesExist, NothingOpen, OpenIsSaved, JobOK
<1>7. EntriesBacked' /\ EntriesComplete' /\ AllDoomed'
  BY <1>1, ListedEmpty DEF EntriesBacked, EntriesComplete, AllDoomed
<1>8. NoLostRecording' /\ NoDanglingEntry'
  <2>1. \A m \in WithData' : m \notin Excused' => m \in Listed(saved')
    BY <1>1, <1>4 DEF NoLostRecording, WithData
  <2>2. NoDanglingEntry'
    BY <1>1, <1>3 DEF NoDanglingEntry
  <2> QED BY <2>1, <2>2 DEF NoLostRecording, WithData
<1> QED BY <1>5, <1>6, <1>7, <1>8

\* Starting with the manifest that parses.
LEMMA LoadStoreInv ==
  ASSUME StoreInv, Load
  PROVE  StoreInv'
<1> USE DEF StoreInv, Excused, Excused
<1>1. /\ step = "down" /\ step' = "idle" /\ entries' = saved /\ failed' = FALSE
      /\ UNCHANGED <<current, saved, landed, qmdl, ndjson, job, kept, doomed, skipped>>
  BY DEF Load, disk
<1>2. Files' = Files /\ WithData' = WithData /\ current' = NoEntry
  BY <1>1 DEF Files, WithData, NothingOpen
<1>3. TypeOK'
  BY <1>1, <1>2, LenInRange DEF TypeOK, Steps, NoEntry
<1>4. CurrentIsLast' /\ LiveFilesExist' /\ NothingOpen' /\ OpenIsSaved' /\ JobOK'
      /\ AllDoomed'
  BY <1>1, <1>2 DEF CurrentIsLast, LiveFilesExist, NothingOpen, OpenIsSaved, JobOK,
         AllDoomed
<1>5. NoLostRecording' /\ NoDanglingEntry'
  BY <1>1, <1>2 DEF NoLostRecording, NoDanglingEntry, WithData
<1>6. EntriesBacked' /\ EntriesComplete'
  BY <1>1, <1>2 DEF EntriesBacked, EntriesComplete, NoDanglingEntry, NoLostRecording,
         WithData
<1> QED BY <1>3, <1>4, <1>5, <1>6

\* Starting with a manifest that does not parse: the files make the manifest.
LEMMA RecoverStoreInv ==
  ASSUME StoreInv, Recover
  PROVE  StoreInv' /\ Listed(saved') \cup skipped' = Files
<1> USE DEF StoreInv, Excused, Excused
<1>1. PICK readable \in SUBSET Files :
        /\ \E order \in [1..Cardinality(readable) -> readable] :
             /\ \A i, j \in DOMAIN order : i < j => order[i] < order[j]
             /\ entries' = RecoveredFrom(order)
        /\ skipped' = Files \ readable
  BY DEF Recover
<1>2. /\ step = "down" /\ step' = "idle" /\ saved' = entries' /\ failed' = FALSE
      /\ UNCHANGED <<current, landed, qmdl, ndjson, job, kept, doomed>>
  BY DEF Recover
<1>3. entries' \in Seq(Entry) /\ Listed(entries') = readable
  BY <1>1, RecoveredListsFiles
<1>4. Files' = Files /\ WithData' = WithData /\ current' = NoEntry
  BY <1>2 DEF Files, WithData, NothingOpen
<1>5. WithData \subseteq readable \cup skipped'
  BY <1>1, Sizes DEF WithData, Files
<1>6. TypeOK'
  <2>1. skipped' \subseteq Names
    BY <1>1 DEF Files
  <2>2. current' \in 0..Len(entries')
    BY <1>3, <1>4, LenInRange DEF NoEntry
  <2> QED BY <1>2, <1>3, <2>1, <2>2 DEF TypeOK, Steps
<1>7. CurrentIsLast' /\ LiveFilesExist' /\ NothingOpen' /\ OpenIsSaved' /\ JobOK'
      /\ AllDoomed'
  BY <1>2, <1>4 DEF CurrentIsLast, LiveFilesExist, NothingOpen, OpenIsSaved, JobOK,
         AllDoomed
<1>8. EntriesBacked' /\ EntriesComplete'
  BY <1>2, <1>3, <1>4, <1>5 DEF EntriesBacked, EntriesComplete
<1>9. NoLostRecording' /\ NoDanglingEntry'
  <2>1. \A m \in WithData' : m \in Listed(saved') \cup skipped'
    BY <1>2, <1>3, <1>4, <1>5
  <2>2. NoDanglingEntry'
    BY <1>2, <1>3, <1>4 DEF NoDanglingEntry
  <2> QED BY <2>1, <2>2 DEF NoLostRecording, WithData
<1> QED BY <1>1, <1>2, <1>3, <1>6, <1>7, <1>8, <1>9

\* A step that changes nothing.
LEMMA StutterStoreInv == StoreInv /\ UNCHANGED vars => StoreInv'
BY DEF vars, StoreInv, TypeOK, CurrentIsLast, LiveFilesExist,
       NoLostRecording, NoDanglingEntry, NothingOpen, JobOK, EntriesBacked,
       EntriesComplete, AllDoomed, OpenIsSaved, Excused, Files, WithData

-----------------------------------------------------------------------------
\* StoreInv holds in every reachable state of every store: whatever the clock
\* shows, whichever file-system call fails, wherever the power goes, whichever
\* files a recovery passes over.
THEOREM StoreInvariant == Spec => []StoreInv
<1>1. StoreInv /\ [Next]_vars => StoreInv'
  <2> SUFFICES ASSUME StoreInv, [Next]_vars PROVE StoreInv'
    OBVIOUS
  <2>1. CASE \E n \in Names : NewEntry(n) \/ DeleteEntry(n)
    BY <2>1, NewEntryStoreInv, DeleteEntryStoreInv
  <2>2. CASE SaveNewEntry \/ SaveSize \/ SaveDeletion \/ SaveAll
    BY <2>2, SaveStoreInv
  <2>3. CASE CreateAnalysisFile \/ RecordContainer \/ CloseCurrentEntry \/ Land
    BY <2>3, CreateAnalysisFileStoreInv, RecordContainerStoreInv, CloseStoreInv,
       LandStoreInv
  <2>4. CASE UnlinkQmdl \/ UnlinkAnalysis \/ DeleteAllEntries \/ UnlinkFilesOfNext
             \/ RetainKept
    BY <2>4, UnlinkStoreInv, DeleteAllStoreInv, UnlinkAllStoreInv, RetainKeptStoreInv
  <2>5. CASE Crash \/ Load \/ Recover
    BY <2>5, CrashStoreInv, LoadStoreInv, RecoverStoreInv
  <2>6. CASE UNCHANGED vars
    BY <2>6, StutterStoreInv
  <2> QED BY <2>1, <2>2, <2>3, <2>4, <2>5, <2>6 DEF Next
<1> QED BY <1>1, InitStoreInv, PTL DEF Spec

\* The open recording is always the last of the manifest: the arithmetic of
\* delete_entry on current_entry is right.
THEOREM CurrentEntryIsLast == Spec => []CurrentIsLast
<1>1. StoreInv => CurrentIsLast
  BY DEF StoreInv
<1> QED BY <1>1, StoreInvariant, PTL

\* The files of the open recording are never unlinked under it.
THEOREM OpenFilesStay == Spec => []LiveFilesExist
<1>1. StoreInv => LiveFilesExist
  BY DEF StoreInv
<1> QED BY <1>1, StoreInvariant, PTL

\* At no point of any operation does a failed call or a power loss make data
\* unreachable, but for what a recovery could not read.
THEOREM NothingLost == Spec => []NoLostRecording
<1>1. StoreInv => NoLostRecording
  BY DEF StoreInv
<1> QED BY <1>1, StoreInvariant, PTL

\* The manifest on disk never names a .qmdl that is not there, deletions apart.
THEOREM NothingDangling == Spec => []NoDanglingEntry
<1>1. StoreInv => NoDanglingEntry
  BY DEF StoreInv
<1> QED BY <1>1, StoreInvariant, PTL

\* Only a recording whose deletion was asked for, or whose file the recovery
\* of that very step could not read, leaves the manifest on disk.
THEOREM OnlyDoomedForgotten == Spec => ForgetsOnlyDoomed
<1> DEFINE Keeps == \A n \in Listed(saved) : n \in Listed(saved') \cup Excused'
<1>1. StoreInv /\ [Next]_vars => [Keeps]_vars
  <2> SUFFICES ASSUME StoreInv, Next PROVE Keeps
    OBVIOUS
  <2>1. CASE UNCHANGED saved
    BY <2>1
  <2>2. CASE SaveNewEntry \/ SaveSize \/ SaveDeletion \/ SaveAll
    BY <2>2 DEF StoreInv, EntriesComplete, Excused, SaveNewEntry, SaveSize, SaveDeletion, SaveAll,
       WriteManifest, WriteManifestFails, disk
  <2>3. CASE Recover
    BY <2>3, RecoverStoreInv DEF StoreInv, NoDanglingEntry, Recover, Excused
  <2>4. UNCHANGED saved \/ SaveNewEntry \/ SaveSize \/ SaveDeletion \/ SaveAll \/ Recover
    BY DEF Next, NewEntry, DeleteEntry, CreateAnalysisFile, RecordContainer,
       CloseCurrentEntry, UnlinkQmdl, UnlinkAnalysis, DeleteAllEntries,
       UnlinkFilesOfNext, RetainKept, Land, Crash, Load, disk
  <2> QED BY <2>1, <2>2, <2>3, <2>4
<1> HIDE DEF Keeps
<1>2. Spec => [][Keeps]_vars
  BY <1>1, StoreInvariant, PTL DEF Spec
<1> QED BY <1>2 DEF ForgetsOnlyDoomed, Keeps
-----------------------------------------------------------------------------
\* Types, the range of current_entry among them, as a theorem of its own.
THEOREM TypesHold == Spec => []TypeOK
<1>1. StoreInv => TypeOK
  BY DEF StoreInv
<1> QED BY <1>1, StoreInvariant, PTL

\* Between the save of an operation and its end nothing changes the manifest:
\* what remains of a deletion is unlinking.
SavedUntilDone ==
  step \in {"idle", "unlink qmdl", "unlink ndjson"} /\ ~failed => saved = entries

\* Whenever no operation is under way, flash holds the manifest of the memory,
\* unless the last write of it failed: no operation ends, early or late,
\* without the save it owes.
THEOREM SavedWhenIdle == Spec => []DiskMatchesMemory
<1>1. Init => SavedUntilDone
  BY DEF Init, SavedUntilDone
<1>2. SavedUntilDone /\ [Next]_vars => SavedUntilDone'
  <2> SUFFICES ASSUME SavedUntilDone, [Next]_vars PROVE SavedUntilDone'
    OBVIOUS
  <2> USE DEF SavedUntilDone
  <2>1. ASSUME NEW n \in Names, NewEntry(n) PROVE SavedUntilDone'
    BY <2>1 DEF NewEntry
  <2>2. ASSUME NEW n \in Names, DeleteEntry(n) PROVE SavedUntilDone'
    BY <2>2 DEF DeleteEntry
  <2>3. CASE CreateAnalysisFile
    BY <2>3 DEF CreateAnalysisFile
  <2>4. CASE RecordContainer \/ DeleteAllEntries \/ UnlinkFilesOfNext \/ RetainKept
    BY <2>4 DEF RecordContainer, DeleteAllEntries, UnlinkFilesOfNext, RetainKept
  <2>5. CASE SaveNewEntry \/ SaveSize \/ SaveDeletion \/ SaveAll
    BY <2>5 DEF SaveNewEntry, SaveSize, SaveDeletion, SaveAll, WriteManifest,
       WriteManifestFails, memory, disk
  <2>6. CASE CloseCurrentEntry \/ UnlinkQmdl \/ UnlinkAnalysis \/ Land
    BY <2>6 DEF CloseCurrentEntry, UnlinkQmdl, UnlinkAnalysis, Land, memory, disk, ghost
  <2>7. CASE Crash \/ Load \/ Recover
    BY <2>7 DEF Crash, Load, Recover, disk, ghost
  <2>8. CASE UNCHANGED vars
    BY <2>8 DEF vars
  <2> QED BY <2>1, <2>2, <2>3, <2>4, <2>5, <2>6, <2>7, <2>8 DEF Next
<1>3. SavedUntilDone => DiskMatchesMemory
  BY DEF SavedUntilDone, DiskMatchesMemory
<1> QED BY <1>1, <1>2, <1>3, PTL DEF Spec

-----------------------------------------------------------------------------
(* Downloads                                                               *)

Looking == {"qmdl", "pcap"}

Deleting == {"save deletion", "unlink qmdl", "unlink ndjson", "save all"}

\* The index still leads to the recording asked for, which has the bytes
\* announced.
IndexStands ==
  /\ index \in DOMAIN entries /\ entries[index].name = wanted
  /\ wanted \in Names /\ qmdl[wanted] # Missing
  /\ size \in Nat /\ size <= qmdl[wanted]

\* No operation that unlinks is under way.
Safe == step \notin Deleting \cup {"down"}

\* Steps that unlink are reached only by taking an entry off the manifest.
DownloadInv ==
  /\ UndisturbedZipIsWhole
  /\ undisturbed /\ zip \in Looking => IndexStands /\ Safe

-----------------------------------------------------------------------------
\* What a step of the store leaves of IndexStands: it may change the manifest
\* and the files, but keeps the entry's name and does not shrink the file.
LEMMA StandsKept ==
  ASSUME StoreInv, StoreInv', IndexStands, UNCHANGED <<wanted, index, size>>,
         Len(entries') >= Len(entries),
         entries'[index].name = entries[index].name,
         qmdl'[wanted] # Missing, qmdl'[wanted] >= qmdl[wanted]
  PROVE  IndexStands'
<1>1. entries \in Seq(Entry) /\ entries' \in Seq(Entry)
  BY DEF StoreInv, TypeOK
<1>2. DOMAIN entries = 1..Len(entries) /\ DOMAIN entries' = 1..Len(entries')
      /\ Len(entries) \in Nat /\ Len(entries') \in Nat
  BY <1>1
<1>3. qmdl[wanted] \in Nat /\ qmdl'[wanted] \in Nat
  BY Sizes DEF StoreInv, TypeOK, IndexStands
<1>4. index \in DOMAIN entries'
  BY <1>2 DEF IndexStands
<1>5. size <= qmdl'[wanted]
  BY <1>3 DEF IndexStands
<1>6. QED
  BY <1>4, <1>5 DEF IndexStands

\* Steps that touch neither the manifest in memory nor the .qmdl files
LEMMA SameStands ==
  ASSUME IndexStands, UNCHANGED <<wanted, index, size, entries, qmdl>>
  PROVE  IndexStands'
BY DEF IndexStands

LEMMA NewEntryStands ==
  ASSUME StoreInv, StoreInv', IndexStands, UNCHANGED <<wanted, index, size>>,
         NEW n \in Names, NewEntry(n), ~(step' = "ndjson" /\ job' = wanted)
  PROVE  IndexStands' /\ Safe'
<1>1. step' \in {"ndjson", "dead"} /\ entries' = entries
  BY DEF NewEntry
<1>2. Safe'
  BY <1>1 DEF Safe, Deleting
<1>3. qmdl'[wanted] = qmdl[wanted]
  <2>1. CASE UNCHANGED qmdl
    BY <2>1
  <2>2. CASE ~UNCHANGED qmdl
    <3>1. qmdl' = [qmdl EXCEPT ![n] = 0] /\ n # wanted
      BY <2>2 DEF NewEntry
    <3>2. QED
      BY <3>1 DEF StoreInv, TypeOK, IndexStands
  <2>3. QED
    BY <2>1, <2>2
<1>4. IndexStands'
  BY <1>1, <1>3 DEF IndexStands
<1>5. QED
  BY <1>2, <1>4

LEMMA CreateStands ==
  ASSUME StoreInv, StoreInv', IndexStands, UNCHANGED <<wanted, index, size>>,
         CreateAnalysisFile
  PROVE  IndexStands' /\ Safe'
<1>1. Safe' /\ UNCHANGED qmdl
  BY DEF CreateAnalysisFile, Safe, Deleting
<1>2. CASE entries' = entries
  BY <1>1, <1>2, SameStands
<1>3. CASE entries' # entries
  <2>1. job \in Names /\ entries \in Seq(Entry) /\ index \in 1..Len(entries)
    BY EntryFacts DEF StoreInv, TypeOK, IndexStands
  <2>2. entries' = Append(entries, [name |-> job, size |-> 0])
    BY <1>3 DEF CreateAnalysisFile, memory
  <2>3. [name |-> job, size |-> 0] \in Entry
    BY <2>1, Sizes DEF Entry
  <2>4. Len(entries') = Len(entries) + 1 /\ entries'[index] = entries[index]
    BY <2>1, <2>2, <2>3, ListedAppend
  <2>5. Len(entries') >= Len(entries)
    BY <2>1, <2>4, LenProperties
  <2>6. qmdl'[wanted] # Missing /\ qmdl'[wanted] >= qmdl[wanted]
    BY <1>1, Sizes DEF IndexStands, StoreInv, TypeOK
  <2>7. QED
    BY <1>1, <2>4, <2>5, <2>6, StandsKept
<1>4. QED
  BY <1>2, <1>3

\* A new size for one entry changes no entry's name.
LEMMA ResizeKeepsNames ==
  ASSUME NEW s \in Seq(Entry), NEW i \in 1..Len(s), NEW k \in 0..MaxSize,
         NEW j \in 1..Len(s)
  PROVE  LET r == [s EXCEPT ![i].size = k] IN
         Len(r) = Len(s) /\ r[j].name = s[j].name
<1> DEFINE e == [s[i] EXCEPT !.size = k]
<1>1. s[i] \in Entry
  BY ElementOfSeq
<1>2. e \in Entry /\ e.name = s[i].name
  BY <1>1 DEF Entry
<1>3. [s EXCEPT ![i].size = k] = [s EXCEPT ![i] = e]
  OBVIOUS
<1>4. /\ Len([s EXCEPT ![i] = e]) = Len(s)
      /\ [s EXCEPT ![i] = e][j] = IF j = i THEN e ELSE s[j]
  BY <1>2, ExceptSeq
<1>5. QED
  BY <1>2, <1>3, <1>4

LEMMA WrittenStands ==
  ASSUME StoreInv, StoreInv', IndexStands, UNCHANGED <<wanted, index, size>>,
         RecordContainer, step' = "save size"
  PROVE  IndexStands' /\ Safe'
<1> DEFINE m == entries[current].name
<1>1. Safe'
  BY DEF RecordContainer, Safe, Deleting
<1>2. /\ qmdl[m] < MaxSize /\ qmdl' = [qmdl EXCEPT ![m] = qmdl[m] + 1]
      /\ entries' = [entries EXCEPT ![current].size = qmdl'[m]]
      /\ m \in Names /\ current \in 1..Len(entries) /\ index \in 1..Len(entries)
      /\ entries \in Seq(Entry) /\ qmdl \in [Names -> 0..Missing] /\ wanted \in Names
  BY EntryFacts DEF RecordContainer, StoreInv, TypeOK, IndexStands
<1> HIDE DEF m
<1>3. qmdl[m] + 1 \in 0..MaxSize /\ qmdl[m] + 1 # Missing /\ qmdl[wanted] \in 0..Missing
  BY <1>2, Sizes
<1>4. qmdl'[m] \in 0..MaxSize
  BY <1>2, <1>3
<1>5. /\ Len(entries') = Len(entries)
      /\ entries'[index].name = entries[index].name
  BY ONLY <1>2, <1>4, ResizeKeepsNames
<1>6. qmdl'[wanted] # Missing /\ qmdl'[wanted] >= qmdl[wanted]
  <2>1. CASE wanted = m
    <3>1. qmdl'[wanted] = qmdl[wanted] + 1
      BY <1>2, <2>1
    <3>2. QED
      BY ONLY <1>3, <2>1, <3>1, Sizes
  <2>2. CASE wanted # m
    <3>1. qmdl'[wanted] = qmdl[wanted]
      BY <1>2, <2>2
    <3>2. QED
      BY ONLY <1>3, <3>1, IndexStands, Sizes DEF IndexStands
  <2>3. QED
    BY <2>1, <2>2
<1>7. Len(entries') >= Len(entries)
  BY ONLY <1>2, <1>5, LenProperties
<1>8. QED
  BY <1>1, <1>5, <1>6, <1>7, StandsKept

LEMMA RecordStands ==
  ASSUME StoreInv, StoreInv', IndexStands, UNCHANGED <<wanted, index, size>>,
         RecordContainer
  PROVE  IndexStands' /\ Safe'
<1> DEFINE m == entries[current].name
<1>1. CASE step' = "save size"
  BY <1>1, WrittenStands
<1>2. CASE step' # "save size"
  <2>1. /\ step' = "dead" /\ entries' = entries /\ qmdl[m] < MaxSize
        /\ qmdl' \in {qmdl, [qmdl EXCEPT ![m] = qmdl[m] + 1]}
        /\ m \in Names /\ entries \in Seq(Entry) /\ qmdl \in [Names -> 0..Missing]
    BY <1>2, EntryFacts DEF RecordContainer, StoreInv, TypeOK
  <2> HIDE DEF m
  <2>2. qmdl[m] + 1 # Missing /\ wanted \in Names
        /\ qmdl[wanted] \in Nat /\ qmdl[m] \in Nat
    BY <2>1, Sizes DEF IndexStands
  <2>3. qmdl'[wanted] # Missing /\ qmdl'[wanted] >= qmdl[wanted]
    <3>1. qmdl'[wanted] \in {qmdl[wanted], qmdl[wanted] + 1}
          /\ (qmdl'[wanted] # qmdl[wanted] => wanted = m)
      BY <2>1, <2>2
    <3>2. QED
      BY <2>2, <3>1 DEF IndexStands
  <2>4. Len(entries') >= Len(entries) /\ entries'[index].name = entries[index].name
    BY <2>1, LenProperties
  <2>5. QED
    BY <2>1, <2>3, <2>4, StandsKept DEF Safe, Deleting
<1>3. QED
  BY <1>1, <1>2

\* A step that takes an entry off the manifest is seen as a shorter manifest.
LEMMA DeletionShortens ==
  ASSUME StoreInv, DeleteEntry(job') \/ UnlinkFilesOfNext
  PROVE  ~(Len(entries') >= Len(entries))
<1>1. entries \in Seq(Entry) /\ DOMAIN entries = 1..Len(entries) /\ Len(entries) \in Nat
  BY EntryFacts DEF StoreInv, TypeOK
<1>2. CASE DeleteEntry(job')
  <2>1. PICK i \in DOMAIN entries : entries' = RemoveAt(entries, i)
    BY <1>2 DEF DeleteEntry
  <2>2. Len(entries') = Len(entries) - 1
    BY <1>1, <2>1, RemoveAtProperties
  <2>3. QED
    BY <1>1, <2>2
<1>3. CASE UnlinkFilesOfNext
  <2>1. entries # <<>> /\ entries' = Tail(entries)
    BY <1>3 DEF UnlinkFilesOfNext
  <2>2. Len(entries') = Len(entries) - 1
    BY <1>1, <2>1, HeadTailProperties
  <2>3. QED
    BY <1>1, <2>2
<1>4. QED
  BY <1>2, <1>3

\* The steps of the store while the task has still to look
LEMMA StoreKeepsIndex ==
  ASSUME StoreInv, StoreInv', Next, step' # "down",
         IndexStands, Safe, UNCHANGED <<wanted, index, size>>,
         Len(entries') >= Len(entries), ~(step' = "ndjson" /\ job' = wanted)
  PROVE  IndexStands' /\ Safe'
<1>1. ASSUME NEW n \in Names, NewEntry(n) PROVE IndexStands' /\ Safe'
  BY <1>1, NewEntryStands
<1>2. ASSUME NEW n \in Names, DeleteEntry(n) PROVE FALSE
  BY <1>2, DeletionShortens DEF DeleteEntry
<1>3. CASE CreateAnalysisFile
  BY <1>3, CreateStands
<1>4. CASE RecordContainer
  BY <1>4, RecordStands
<1>5. CASE SaveNewEntry \/ SaveSize
  BY <1>5, SameStands
  DEF SaveNewEntry, SaveSize, WriteManifest, WriteManifestFails, memory, disk, Safe, Deleting
<1>6. CASE CloseCurrentEntry \/ Land
  BY <1>6, SameStands DEF CloseCurrentEntry, Land, memory, disk, Safe, Deleting
<1>7. CASE DeleteAllEntries
  BY <1>7, SameStands DEF DeleteAllEntries, disk, Safe, Deleting
<1>8. CASE SaveDeletion \/ UnlinkQmdl \/ UnlinkAnalysis \/ SaveAll
  BY <1>8 DEF SaveDeletion, UnlinkQmdl, UnlinkAnalysis, SaveAll, Safe, Deleting
<1>9. CASE UnlinkFilesOfNext
  BY <1>9, DeletionShortens
<1>10. CASE RetainKept
  <2>1. entries = <<>>
    BY <1>10 DEF RetainKept
  <2>2. QED
    BY <2>1, EntryFacts, ListedEmpty DEF IndexStands, StoreInv, TypeOK
<1>11. CASE Crash \/ Load \/ Recover
  BY <1>11 DEF Crash, Load, Recover, Safe
<1>12. QED
  BY <1>1, <1>2, <1>3, <1>4, <1>5, <1>6, <1>7, <1>8, <1>9, <1>10, <1>11 DEF Next

-----------------------------------------------------------------------------
LEMMA StoreStepKeeps ==
  ASSUME StoreInv, StoreInv', DownloadInv, StoreStep
  PROVE  DownloadInv'
<1>1. UndisturbedZipIsWhole'
  BY DEF DownloadInv, UndisturbedZipIsWhole, StoreStep, Under
<1>2. ASSUME undisturbed', zip' \in Looking PROVE IndexStands' /\ Safe'
  <2>1. /\ Next /\ step' # "down" /\ zip \in Looking /\ undisturbed
        /\ Len(entries') >= Len(entries) /\ ~(step' = "ndjson" /\ job' = wanted)
        /\ UNCHANGED <<wanted, index, size>>
    BY <1>2 DEF StoreStep, Looking
  <2>2. QED
    BY <2>1, StoreKeepsIndex DEF DownloadInv
<1>3. QED
  BY <1>1, <1>2 DEF DownloadInv

\* The handler: what it keeps is true when it answers.
LEMMA GetZipKeeps ==
  ASSUME StoreInv, DownloadInv, NEW n \in Names, GetZip(n)
  PROVE  DownloadInv'
<1>1. UndisturbedZipIsWhole'
  BY DEF GetZip, UndisturbedZipIsWhole
<1>2. IsFirst(Place(n), n)
  BY DEF GetZip, Place
<1>3. ASSUME undisturbed' PROVE IndexStands' /\ Safe'
  <2>1. /\ index' = Place(n) /\ wanted' = n /\ size' = entries[Place(n)].size
        /\ UNCHANGED vars /\ Readable
    BY DEF GetZip
  <2>2. n \in Files /\ entries[Place(n)].size <= qmdl[n]
    BY <1>3 DEF GetZip
  <2>3. Place(n) \in DOMAIN entries /\ entries[Place(n)].name = n
    BY <1>2 DEF IsFirst
  <2>4. entries[Place(n)] \in Entry
    BY <2>3, EntryFacts, ElementOfSeq DEF StoreInv, TypeOK
  <2>5. entries[Place(n)].size \in Nat
    BY <2>4, Sizes DEF Entry
  <2>6. UNCHANGED <<entries, qmdl, step>>
    BY <2>1 DEF vars
  <2>7. IndexStands'
    BY <2>1, <2>2, <2>3, <2>5, <2>6 DEF IndexStands, Files
  <2>8. Safe'
    BY <2>1, <2>6 DEF Readable, Safe, Deleting
  <2>9. QED
    BY <2>7, <2>8
<1>4. QED
  BY <1>1, <1>3 DEF DownloadInv

\* The task's two looks at the store
LEMMA LookKeeps ==
  ASSUME StoreInv, DownloadInv, CannotOpen \/ AddQmdl \/ AddPcap \/ Abandon
  PROVE  DownloadInv'
<1>1. UNCHANGED <<vars, wanted, index, size, undisturbed>>
  BY DEF CannotOpen, AddQmdl, AddPcap, Abandon
<1>2. zip \in Looking
  BY DEF CannotOpen, AddQmdl, AddPcap, Abandon, Opens, Looking
<1>3. undisturbed => IndexStands /\ Safe
  BY <1>2 DEF DownloadInv
<1>4. undisturbed' => IndexStands' /\ Safe'
  BY <1>1, <1>3 DEF IndexStands, Safe, vars
<1>5. ASSUME undisturbed' PROVE UndisturbedZipIsWhole'
  <2>1. undisturbed /\ IndexStands
    BY <1>1, <1>3, <1>5
  <2>2. UndisturbedZipIsWhole
    BY DEF DownloadInv
  <2>3. wanted \in Files
    BY <2>1 DEF IndexStands, Files
  <2>4. ~(qmdl[wanted] < size) /\ TakeSize(wanted) = size
    <3>1. qmdl[wanted] \in Nat /\ size \in Nat /\ size <= qmdl[wanted]
      BY <2>1, Sizes DEF IndexStands, StoreInv, TypeOK
    <3>2. QED
      BY <3>1 DEF TakeSize
  <2>5. CASE CannotOpen
    BY <2>1, <2>2, <2>3, <2>5 DEF CannotOpen, IndexStands, UndisturbedZipIsWhole
  <2>6. CASE AddQmdl
    BY <2>1, <2>2, <2>4, <2>6 DEF AddQmdl, IndexStands, UndisturbedZipIsWhole
  <2>7. CASE AddPcap
    BY <2>1, <2>2, <2>4, <2>7 DEF AddPcap, IndexStands, UndisturbedZipIsWhole
  <2>8. CASE Abandon
    BY <2>2, <2>8 DEF Abandon, UndisturbedZipIsWhole
  <2>9. QED
    BY <2>5, <2>6, <2>7, <2>8
<1>6. QED
  BY <1>4, <1>5 DEF DownloadInv, UndisturbedZipIsWhole, Safe

\* Unless an entry is deleted or the file truncated after the answer has begun,
\* the archive's two members come from the recording asked for, the first with
\* the size announced, and the task neither panics nor runs for ever.
THEOREM UndisturbedIsWhole == SpecAll => []UndisturbedZipIsWhole
<1>1. InitAll => Init /\ DownloadInv
  BY DEF InitAll, DownloadInv, UndisturbedZipIsWhole, Looking
<1>2. [NextAll]_allVars => [Next]_vars
  BY DEF NextAll, StoreStep, DownloadStep, GetZip, CannotOpen, AddQmdl, AddPcap,
         Abandon, allVars
<1>3. StoreInv /\ StoreInv' /\ DownloadInv /\ [NextAll]_allVars => DownloadInv'
  <2> SUFFICES ASSUME StoreInv, StoreInv', DownloadInv, [NextAll]_allVars
               PROVE  DownloadInv'
    OBVIOUS
  <2>1. CASE UNCHANGED allVars
    BY <2>1
    DEF allVars, task, vars, DownloadInv, UndisturbedZipIsWhole, IndexStands, Safe
  <2>2. CASE StoreStep
    BY <2>2, StoreStepKeeps
  <2>3. CASE DownloadStep
    BY <2>3, GetZipKeeps, LookKeeps DEF DownloadStep
  <2>4. QED
    BY <2>1, <2>2, <2>3 DEF NextAll
<1>4. DownloadInv => UndisturbedZipIsWhole
  BY DEF DownloadInv
<1>5. Spec => []StoreInv
  BY StoreInvariant
<1>6. QED
  BY <1>1, <1>2, <1>3, <1>4, <1>5, PTL DEF SpecAll, Spec

=============================================================================
