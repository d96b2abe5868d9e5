---------------------------- MODULE LoaderProofs ----------------------------
(***************************************************************************)
(* Proofs about loading programs through the file interface: for every disk, *)
(* every set of paths and any number of descriptors.                        *)
(***************************************************************************)
EXTENDS Loader, NaturalNumbers, SequenceTheorems

\* The walk along a path ends at one of its parts.
LEMMA WalkEndsSomewhere ==
  ASSUME NEW p \in Paths, p /= <<>>
  PROVE  \E k \in 1 .. Len(p) : WalkEnds(p, k)
<1> DEFINE Stops(k) == \/ Prefix(p, k) \notin DOMAIN Tree
                       \/ Tree[Prefix(p, k)] = "file"
                       \/ k = Len(p)
           T == {k \in 1 .. Len(p) : Stops(k)}
<1>1. p \in Seq(STRING) /\ Len(p) \in Nat \ {0}
  BY FilesAssumption, EmptySeq
<1>2. T \subseteq Nat /\ Len(p) \in T
  BY <1>1
<1>3. PICK n \in T : \A m \in T : n <= m
  <2> HIDE DEF T
  <2> QED BY <1>2, LeastNatural
<1>4. ASSUME NEW k \in 1 .. (n - 1)
      PROVE  Prefix(p, k) \in DOMAIN Tree /\ Tree[Prefix(p, k)] = "dir"
  <2>1. k \in 1 .. Len(p) /\ k \notin T
    BY <1>1, <1>3
  <2>2. ~Stops(k)
    BY <2>1
  <2> QED BY <2>2, FilesAssumption
<1>5. n \in 1 .. Len(p) /\ Stops(n)
  OBVIOUS
<1>6. \/ Prefix(p, n) \notin DOMAIN Tree
      \/ n < Len(p) /\ Tree[Prefix(p, n)] = "file"
      \/ n = Len(p)
  <2> HIDE DEF T
  <2> QED BY <1>1, <1>5
<1>7. WalkEnds(p, n)
  <2> HIDE DEF T, Stops
  <2> QED BY <1>4, <1>6 DEF WalkEnds
<1> QED BY <1>5, <1>7

\* What the lookup finds is on the disk, and it uses a null item only behind a
\* part missing in a subdirectory.
LEMMA LookupResult ==
  ASSUME NEW p \in Paths, p /= <<>>, NEW result \in fat16_get_directory_entry(p)
  PROVE  /\ result \in {"none", "found", "undefined"}
         /\ result = "found" => p \in DOMAIN Tree
         /\ result = "undefined" => LeadsNowhere(p)
<1> DEFINE n == CHOOSE k \in 1 .. Len(p) : WalkEnds(p, k)
<1>1. n \in 1 .. Len(p) /\ WalkEnds(p, n)
  BY WalkEndsSomewhere
<1>2. p \in Seq(STRING) /\ Len(p) \in Nat
  BY FilesAssumption
<1>3. result \in IF Prefix(p, n) \notin DOMAIN Tree
                   THEN IF n = 1 \/ n = Len(p) THEN {"none"} ELSE {"none", "undefined"}
                   ELSE IF n < Len(p) THEN {"none"} ELSE {"found"}
  BY DEF fat16_get_directory_entry
<1> HIDE DEF n
<1>4. ASSUME result = "found" PROVE p \in DOMAIN Tree
  <2>1. Prefix(p, n) \in DOMAIN Tree /\ n = Len(p)
    BY <1>1, <1>2, <1>3, <1>4
  <2>2. Prefix(p, Len(p)) = p
    BY <1>2, SubSeqFull DEF Prefix
  <2> QED BY <2>1, <2>2
<1>5. ASSUME result = "undefined" PROVE LeadsNowhere(p)
  <2>1. Prefix(p, n) \notin DOMAIN Tree /\ n \in 2 .. (Len(p) - 1)
    BY <1>1, <1>2, <1>3, <1>5
  <2>2. n - 1 \in 1 .. (n - 1)
    BY <2>1
  <2>3. Prefix(p, n - 1) \in DOMAIN Tree /\ Tree[Prefix(p, n - 1)] = "dir"
    BY <1>1, <2>2 DEF WalkEnds
  <2> QED BY <2>1, <2>3 DEF LeadsNowhere
<1> QED BY <1>3, <1>4, <1>5
-----------------------------------------------------------------------------
(* The calls of the file interface. *)

\* What is assumed before a call and holds after it.
FilesInv == FilesTypeOK /\ DescriptorsOwnPrivates

\* A call that opens nothing and closes nothing, and moves the position of at
\* most the descriptor it names.
Quiet ==
  /\ UNCHANGED file_descriptors
  /\ \A v \in Privates : private'[v].path = private[v].path
  /\ \A v \in Privates : private'[v] /= private[v] =>
       \E d \in Descriptors : d = last'.fd /\ file_descriptors[d] = v

\* An fopen that succeeds takes the first free descriptor and a private structure
\* that was not in use.
Opens(p) ==
  \E d \in Descriptors, v \in Privates :
    /\ file_descriptors[d] = Closed /\ v \notin InUse
    /\ \A i \in 1 .. (d - 1) : file_descriptors[i] /= Closed
    /\ p \in DOMAIN Tree
    /\ private' = [private EXCEPT ![v] = [path |-> p, pos |-> 0]]
    /\ file_descriptors' = [file_descriptors EXCEPT ![d] = v]
    /\ last' = [op |-> "fopen", fd |-> d, ok |-> TRUE]

\* One that fails leaves the table alone.
OpenFails(p) ==
  /\ last'.fd = 0 /\ last'.ok = FALSE
  /\ last'.op = "undefined" => LeadsNowhere(p)
  /\ UNCHANGED file_descriptors
  /\ UNCHANGED private \/
       \E v \in Privates, q \in DOMAIN Tree \cup {<<>>} :
         v \notin InUse /\ private' = [private EXCEPT ![v] = [path |-> q, pos |-> 0]]

LEMMA fopenOutcome ==
  ASSUME NEW p \in Paths, NEW mode, fopen(p, mode)
  PROVE  Opens(p) \/ OpenFails(p)
<1>1. CASE p = <<>> \/ mode /= "r"
  BY <1>1 DEF fopen, Called, OpenFails
<1>2. CASE p /= <<>> /\ mode = "r"
  <2>1. PICK result \in fat16_get_directory_entry(p), v \in FreePrivate :
          \/ /\ result = "undefined"
             /\ Undefined
          \/ /\ result = "none" \/ file_new_decriptor = {}
             /\ result /= "undefined"
             /\ private' = [private EXCEPT ![v] =
                  [path |-> IF result = "found" THEN p ELSE <<>>, pos |-> 0]]
             /\ Called("fopen", 0, FALSE)
             /\ UNCHANGED file_descriptors
          \/ \E d \in file_new_decriptor :
               /\ result = "found"
               /\ private' = [private EXCEPT ![v] = [path |-> p, pos |-> 0]]
               /\ file_descriptors' = [file_descriptors EXCEPT ![d] = v]
               /\ Called("fopen", d, TRUE)
    BY <1>2 DEF fopen
  <2>2. /\ result \in {"none", "found", "undefined"}
        /\ result = "found" => p \in DOMAIN Tree
        /\ result = "undefined" => LeadsNowhere(p)
    BY <1>2, LookupResult
  <2>3. v \in Privates /\ v \notin InUse
    BY DEF FreePrivate
  <2>4. CASE result = "undefined" /\ Undefined
    BY <2>2, <2>4 DEF Undefined, Called, OpenFails
  <2>5. CASE /\ result /= "undefined"
             /\ private' = [private EXCEPT ![v] =
                  [path |-> IF result = "found" THEN p ELSE <<>>, pos |-> 0]]
             /\ Called("fopen", 0, FALSE)
             /\ UNCHANGED file_descriptors
    <3>1. PICK q \in DOMAIN Tree \cup {<<>>} : q = IF result = "found" THEN p ELSE <<>>
      BY <2>2
    <3>2. private' = [private EXCEPT ![v] = [path |-> q, pos |-> 0]]
      BY <2>5, <3>1
    <3> QED BY <2>3, <2>5, <3>2 DEF Called, OpenFails
  <2>6. CASE \E d \in file_new_decriptor :
               /\ result = "found"
               /\ private' = [private EXCEPT ![v] = [path |-> p, pos |-> 0]]
               /\ file_descriptors' = [file_descriptors EXCEPT ![d] = v]
               /\ Called("fopen", d, TRUE)
    BY <2>2, <2>3, <2>6 DEF file_new_decriptor, Called, Opens
  <2> QED BY <2>1, <2>4, <2>5, <2>6
<1> QED BY <1>1, <1>2

\* Only a descriptor of the table has an entry.
LEMMA EntryOfDescriptor ==
  ASSUME FilesTypeOK, NEW d \in Nat, file_get_descriptor(d) /= Closed
  PROVE  /\ d \in Descriptors /\ d < MaxDescriptors
         /\ file_get_descriptor(d) = file_descriptors[d]
         /\ file_descriptors[d] \in Privates
  BY FilesAssumption DEF file_get_descriptor, Descriptors, FilesTypeOK

LEMMA OpensPreservesFilesInv ==
  ASSUME FilesInv, NEW p \in Paths, Opens(p)
  PROVE  FilesInv'
<1>1. PICK d \in Descriptors, v \in Privates :
        /\ file_descriptors[d] = Closed /\ v \notin InUse
        /\ p \in DOMAIN Tree
        /\ private' = [private EXCEPT ![v] = [path |-> p, pos |-> 0]]
        /\ file_descriptors' = [file_descriptors EXCEPT ![d] = v]
  BY DEF Opens
<1>2. FilesTypeOK'
  BY <1>1 DEF FilesInv, FilesTypeOK
<1>3. v /= Closed
  BY DEF Privates, Closed
<1>4. \A e \in Open : e /= d /\ file_descriptors[e] /= v
                      /\ file_descriptors'[e] = file_descriptors[e]
  BY <1>1, <1>3 DEF FilesInv, FilesTypeOK, DescriptorsOwnPrivates, Open
<1>5. Open' = Open \cup {d}
  BY <1>1, <1>3 DEF FilesInv, FilesTypeOK, Open
<1>6. file_descriptors'[d] = v /\ private'[v] = [path |-> p, pos |-> 0]
  BY <1>1 DEF FilesInv, FilesTypeOK
<1>7. v \in InUse'
  BY <1>6 DEF InUse, NotInUse
<1>8. ASSUME NEW e \in Open
      PROVE  file_descriptors[e] \in InUse' /\ private'[file_descriptors[e]].path \in DOMAIN Tree
  BY <1>1, <1>4 DEF FilesInv, FilesTypeOK, DescriptorsOwnPrivates, InUse
<1>9. DescriptorsOwnPrivates'
  BY <1>1, <1>4, <1>5, <1>6, <1>7, <1>8 DEF FilesInv, DescriptorsOwnPrivates
<1> QED BY <1>2, <1>9 DEF FilesInv

LEMMA OpenFailsPreservesFilesInv ==
  ASSUME FilesInv, NEW p, OpenFails(p)
  PROVE  FilesInv'
<1>1. CASE UNCHANGED private
  BY <1>1 DEF OpenFails, FilesInv, FilesTypeOK, DescriptorsOwnPrivates, Open, InUse
<1>2. ASSUME NEW v \in Privates, NEW q \in DOMAIN Tree \cup {<<>>}, v \notin InUse,
             private' = [private EXCEPT ![v] = [path |-> q, pos |-> 0]]
      PROVE  FilesInv'
  <2>1. FilesTypeOK'
    BY <1>2 DEF OpenFails, FilesInv, FilesTypeOK
  <2>2. DescriptorsOwnPrivates'
    BY <1>2 DEF OpenFails, FilesInv, FilesTypeOK, DescriptorsOwnPrivates, Open, InUse
  <2> QED BY <2>1, <2>2 DEF FilesInv
<1> QED BY <1>1, <1>2 DEF OpenFails

LEMMA freadIsQuiet ==
  ASSUME NEW d \in Nat, fread(d)
  PROVE  Quiet
  BY DEF fread, Quiet, Undefined

LEMMA fstatIsQuiet ==
  ASSUME NEW d \in Nat, fstat(d)
  PROVE  Quiet
  BY DEF fstat, Quiet

LEMMA fseekIsQuiet ==
  ASSUME FilesInv, NEW d \in Nat, NEW offset \in Offsets, fseek(d, offset)
  PROVE  Quiet /\ FilesInv'
<1> DEFINE v == file_get_descriptor(d)
           ok == v /= Closed /\ TypeOfPrivate(v) = "file" /\ offset < Filesize
<1>1. /\ last'.fd = d /\ UNCHANGED file_descriptors
      /\ private' = IF ok THEN [private EXCEPT ![v].pos = offset] ELSE private
  BY DEF fseek, Called
<1>2. CASE ~ok
  BY <1>1, <1>2 DEF Quiet, FilesInv, FilesTypeOK, DescriptorsOwnPrivates, Open, InUse
<1>3. CASE ok
  <2>1. d \in Descriptors /\ v = file_descriptors[d] /\ v \in Privates
    BY <1>3, EntryOfDescriptor DEF FilesInv
  <2>2. /\ DOMAIN private' = DOMAIN private
        /\ \A w \in Privates \ {v} : private'[w] = private[w]
        /\ private'[v] = [path |-> private[v].path, pos |-> offset]
    BY <1>1, <1>3, <2>1 DEF FilesInv, FilesTypeOK
  <2> HIDE DEF v, ok
  <2>3. Quiet
    BY <1>1, <2>1, <2>2 DEF Quiet
  <2>4. offset \in Nat /\ private'[v] /= NotInUse
    BY <2>2, FilesAssumption DEF NotInUse
  <2>5. FilesTypeOK'
    <3>1. private'[v] \in [path : DOMAIN Tree \cup {<<>>}, pos : Nat \cup {-1}]
      BY <2>1, <2>2, <2>4 DEF FilesInv, FilesTypeOK
    <3>2. private' = [w \in Privates |-> private'[w]]
      BY <1>1, <1>3, <2>1 DEF FilesInv, FilesTypeOK
    <3>3. \A w \in Privates : private'[w] \in [path : DOMAIN Tree \cup {<<>>}, pos : Nat \cup {-1}]
      BY <2>2, <3>1 DEF FilesInv, FilesTypeOK
    <3> QED BY <1>1, <3>2, <3>3 DEF FilesInv, FilesTypeOK
  <2>6. DescriptorsOwnPrivates'
    BY <1>1, <2>1, <2>2, <2>4 DEF FilesInv, DescriptorsOwnPrivates, Open, InUse
  <2> QED BY <2>3, <2>5, <2>6 DEF FilesInv
<1> QED BY <1>2, <1>3

\* fclose gives back the descriptor it names and its private structure.
LEMMA fcloseOutcome ==
  ASSUME FilesInv, NEW d \in Nat, fclose(d)
  PROVE  /\ FilesInv'
         /\ last'.fd = d
         /\ file_get_descriptor(d) = Closed => UNCHANGED <<file_descriptors, private>>
         /\ file_get_descriptor(d) /= Closed =>
              /\ d \in Descriptors
              /\ file_descriptors' = [file_descriptors EXCEPT ![d] = Closed]
              /\ private' = [private EXCEPT ![file_descriptors[d]] = NotInUse]
<1> DEFINE v == file_get_descriptor(d)
<1>1. CASE v = Closed
  BY <1>1 DEF fclose, Called, FilesInv, FilesTypeOK, DescriptorsOwnPrivates, Open, InUse
<1>2. CASE v /= Closed
  <2>1. d \in Descriptors /\ v = file_descriptors[d] /\ v \in Privates
    BY <1>2, EntryOfDescriptor DEF FilesInv
  <2>2. /\ last'.fd = d
        /\ file_descriptors' = [file_descriptors EXCEPT ![d] = Closed]
        /\ private' = [private EXCEPT ![v] = NotInUse]
    BY <1>2 DEF fclose, Called
  <2>3. FilesTypeOK'
    <3>1. NotInUse \in [path : DOMAIN Tree \cup {<<>>}, pos : Nat \cup {-1}]
      BY DEF NotInUse
    <3> QED BY <2>1, <2>2, <3>1 DEF FilesInv, FilesTypeOK
  <2>4. Open' = Open \ {d} /\ \A e \in Open' : file_descriptors'[e] = file_descriptors[e]
    BY <2>1, <2>2 DEF FilesInv, FilesTypeOK, Open
  <2>5. \A e \in Open' : file_descriptors[e] /= v
    BY <1>2, <2>1, <2>4 DEF FilesInv, DescriptorsOwnPrivates, Open
  <2>6. \A e \in Open' : private'[file_descriptors[e]] = private[file_descriptors[e]]
    BY <2>2, <2>4, <2>5 DEF FilesInv, FilesTypeOK, Open
  <2>7. DescriptorsOwnPrivates'
    BY <2>4, <2>6 DEF FilesInv, DescriptorsOwnPrivates, InUse
  <2> QED BY <1>2, <2>1, <2>2, <2>3, <2>7 DEF FilesInv
<1> QED BY <1>1, <1>2

LEMMA QuietPreservesFilesInv ==
  ASSUME FilesInv, Quiet, UNCHANGED private
  PROVE  FilesInv'
  BY DEF Quiet, FilesInv, FilesTypeOK, DescriptorsOwnPrivates, Open, InUse

\* A call through one descriptor leaves what the others stand for alone.
Local ==
  \A d \in Open \ {last'.fd} :
    /\ file_descriptors'[d] = file_descriptors[d]
    /\ private'[file_descriptors[d]] = private[file_descriptors[d]]

LEMMA QuietIsLocal ==
  ASSUME FilesInv, Quiet
  PROVE  Local
  BY DEF Quiet, Local, FilesInv, FilesTypeOK, DescriptorsOwnPrivates, Open, InUse

LEMMA fopenIsLocal ==
  ASSUME FilesInv, NEW p, Opens(p) \/ OpenFails(p)
  PROVE  Local
  BY DEF Opens, OpenFails, Local, FilesInv, FilesTypeOK, DescriptorsOwnPrivates, Open

LEMMA fcloseIsLocal ==
  ASSUME FilesInv, NEW d \in Nat, fclose(d)
  PROVE  Local
<1>1. CASE file_get_descriptor(d) = Closed
  BY <1>1, fcloseOutcome DEF Local
<1>2. CASE file_get_descriptor(d) /= Closed
  <2>1. /\ d \in Descriptors /\ last'.fd = d
        /\ file_descriptors' = [file_descriptors EXCEPT ![d] = Closed]
        /\ private' = [private EXCEPT ![file_descriptors[d]] = NotInUse]
    BY <1>2, fcloseOutcome
  <2>2. d \in Open
    BY <1>2, <2>1, EntryOfDescriptor DEF Open, FilesInv
  <2>3. ASSUME NEW e \in Open, e /= d
        PROVE  /\ file_descriptors[e] \in Privates
               /\ file_descriptors[e] /= file_descriptors[d]
    BY <2>2, <2>3 DEF FilesInv, DescriptorsOwnPrivates, InUse
  <2> QED BY <2>1, <2>3 DEF Local, FilesInv, FilesTypeOK, Open
<1> QED BY <1>1, <1>2

LEMMA FileCallOutcome ==
  ASSUME FilesInv, FileCall
  PROVE  FilesInv' /\ Local
<1>1. ASSUME NEW p \in Paths, NEW mode \in Modes, fopen(p, mode) PROVE FilesInv' /\ Local
  BY <1>1, fopenOutcome, OpensPreservesFilesInv, OpenFailsPreservesFilesInv, fopenIsLocal
<1>2. ASSUME NEW d \in Nat, fread(d) \/ fstat(d) PROVE FilesInv' /\ Local
  <2>1. UNCHANGED private
    BY <1>2 DEF fread, fstat, Undefined
  <2> QED BY <1>2, <2>1, freadIsQuiet, fstatIsQuiet, QuietPreservesFilesInv, QuietIsLocal
<1>3. ASSUME NEW d \in Nat, NEW offset \in Offsets, fseek(d, offset) PROVE FilesInv' /\ Local
  BY <1>3, fseekIsQuiet, QuietIsLocal
<1>4. ASSUME NEW d \in Nat, fclose(d) PROVE FilesInv' /\ Local
  BY <1>4, fcloseOutcome, fcloseIsLocal
<1>5. 0 .. (MaxDescriptors + 1) \subseteq Nat
  BY FilesAssumption
<1> QED BY <1>1, <1>2, <1>3, <1>4, <1>5 DEF FileCall
-----------------------------------------------------------------------------
(* The steps of a load. *)

\* The file of a load, opened at the first free entry of a table.
LEMMA OpensHoldsFile ==
  ASSUME FilesInv, NEW p \in Paths, Opens(p),
         path' = p, fd' = last'.fd, before' = file_descriptors
  PROVE  HoldsFile' /\ last'.ok = TRUE /\ last'.op /= "undefined" /\ p \in DOMAIN Tree
<1>1. PICK d \in Descriptors, v \in Privates :
        /\ file_descriptors[d] = Closed
        /\ \A i \in 1 .. (d - 1) : file_descriptors[i] /= Closed
        /\ p \in DOMAIN Tree
        /\ private' = [private EXCEPT ![v] = [path |-> p, pos |-> 0]]
        /\ file_descriptors' = [file_descriptors EXCEPT ![d] = v]
        /\ last' = [op |-> "fopen", fd |-> d, ok |-> TRUE]
  BY DEF Opens
<1>2. v /= Closed /\ file_descriptors'[d] = v /\ private'[v].path = p /\ fd' = d
  BY <1>1 DEF Privates, Closed, FilesInv, FilesTypeOK
<1> QED BY <1>1, <1>2 DEF HoldsFile, FilesInv, FilesTypeOK

LEMMA ElfOpenPreservesLoaderInv ==
  ASSUME LoaderInv, NEW p \in Paths, ElfOpen(p)
  PROVE  LoaderInv'
<1>1. FilesInv
  BY DEF LoaderInv, FilesInv
<1>2. Opens(p) \/ OpenFails(p)
  BY fopenOutcome DEF ElfOpen
<1>3. FilesInv' /\ before' \in [Descriptors -> Privates \cup {Closed}]
  BY <1>1, <1>2, OpensPreservesFilesInv, OpenFailsPreservesFilesInv DEF ElfOpen, FilesInv, FilesTypeOK
<1>4. stage' /= "idle"
  BY DEF ElfOpen
<1>5. CASE Opens(p)
  <2>1. HoldsFile' /\ last'.ok = TRUE /\ last'.op /= "undefined"
    BY <1>1, <1>5, OpensHoldsFile DEF ElfOpen
  <2>2. LoadProgress'
    BY <1>3, <2>1 DEF ElfOpen, LoadProgress
  <2> QED BY <1>3, <1>4, <2>1, <2>2
          DEF LoaderInv, FilesInv, LoadRestoresTable, OutcomeFitsFile, LoadDefined
<1>6. CASE OpenFails(p)
  <2>1. LoadProgress'
    BY <1>3, <1>6 DEF ElfOpen, LoadProgress, OpenFails
  <2>2. LoadDefined'
    BY <1>6 DEF LoadDefined, OpenFails, ElfOpen, LeadsNowhere
  <2> QED BY <1>3, <1>4, <2>1, <2>2
          DEF LoaderInv, FilesInv, LoadRestoresTable, OutcomeFitsFile
<1> QED BY <1>2, <1>5, <1>6

LEMMA BinOpenPreservesLoaderInv ==
  ASSUME LoaderInv, BinOpen
  PROVE  LoaderInv'
<1>1. FilesInv /\ path \in Paths /\ before = file_descriptors /\ path \notin ElfFiles
  BY DEF LoaderInv, FilesInv, LoadProgress, BinOpen
<1>2. Opens(path) \/ OpenFails(path)
  BY <1>1, fopenOutcome DEF BinOpen
<1>3. FilesInv'
  BY <1>1, <1>2, OpensPreservesFilesInv, OpenFailsPreservesFilesInv
<1>4. stage' /= "idle"
  BY DEF BinOpen
<1>5. CASE Opens(path)
  <2>1. HoldsFile' /\ last'.ok = TRUE /\ last'.op /= "undefined"
    BY <1>1, <1>5, OpensHoldsFile DEF BinOpen
  <2>2. LoadProgress'
    BY <1>1, <1>3, <2>1 DEF BinOpen, LoaderInv, LoadProgress
  <2> QED BY <1>3, <1>4, <2>1, <2>2
          DEF LoaderInv, FilesInv, LoadRestoresTable, OutcomeFitsFile, LoadDefined
<1>6. CASE OpenFails(path)
  <2>1. LoadProgress'
    BY <1>1, <1>3, <1>6 DEF BinOpen, LoaderInv, LoadProgress, OpenFails
  <2>2. LoadDefined'
    BY <1>6 DEF LoadDefined, OpenFails, BinOpen, LeadsNowhere
  <2> QED BY <1>3, <1>4, <2>1, <2>2
          DEF LoaderInv, FilesInv, LoadRestoresTable, OutcomeFitsFile
<1> QED BY <1>2, <1>5, <1>6

\* The descriptor of a load stands for the file it loads.
LEMMA HeldFile ==
  ASSUME FilesInv, HoldsFile
  PROVE  /\ fd \in Nat /\ path \in DOMAIN Tree
         /\ file_get_descriptor(fd) /= Closed =>
              fd < MaxDescriptors /\ TypeOfPrivate(file_get_descriptor(fd)) = Tree[path]
<1>1. fd \in Nat
  BY DEF HoldsFile, Descriptors
<1>2. fd \in Open /\ path \in DOMAIN Tree
  BY DEF HoldsFile, Open, FilesInv, DescriptorsOwnPrivates
<1> QED BY <1>1, <1>2, EntryOfDescriptor DEF HoldsFile, TypeOfPrivate, FilesInv

LEMMA StatPreservesLoaderInv ==
  ASSUME LoaderInv, ElfStat \/ BinStat
  PROVE  LoaderInv'
<1>1. FilesInv /\ HoldsFile /\ fstat(fd) /\ UNCHANGED <<file_descriptors, private, path, fd, before>>
  BY DEF LoaderInv, FilesInv, LoadProgress, ElfStat, BinStat, fstat
<1>2. FilesInv' /\ HoldsFile'
  BY <1>1 DEF FilesInv, FilesTypeOK, DescriptorsOwnPrivates, Open, InUse, HoldsFile
<1>3. /\ last'.op /= "undefined" /\ last'.ok \in BOOLEAN
      /\ last'.ok => path \in DOMAIN Tree /\ Tree[path] = "file"
  BY <1>1, HeldFile DEF fstat, Called
<1>4. LoadProgress'
  BY <1>1, <1>2, <1>3 DEF ElfStat, BinStat, LoaderInv, LoadProgress
<1>5. stage' /= "idle"
  BY DEF ElfStat, BinStat
<1> QED BY <1>2, <1>3, <1>4, <1>5
        DEF LoaderInv, FilesInv, LoadRestoresTable, OutcomeFitsFile, LoadDefined

LEMMA ReadPreservesLoaderInv ==
  ASSUME LoaderInv, ElfRead \/ BinRead
  PROVE  LoaderInv'
<1>1. /\ FilesInv /\ HoldsFile /\ fread(fd) /\ UNCHANGED <<path, fd, before>>
      /\ path \in Paths /\ path \in DOMAIN Tree /\ Tree[path] = "file"
  BY DEF LoaderInv, FilesInv, LoadProgress, ElfRead, BinRead
<1>2. /\ UNCHANGED <<file_descriptors, private>>
      /\ last' = [op |-> "fread", fd |-> fd, ok |-> file_get_descriptor(fd) /= Closed]
  BY <1>1, HeldFile DEF fread, Called
<1>3. FilesInv' /\ HoldsFile'
  BY <1>1, <1>2 DEF FilesInv, FilesTypeOK, DescriptorsOwnPrivates, Open, InUse, HoldsFile
<1>4. last'.op /= "undefined" /\ (last'.ok => fd < MaxDescriptors)
  BY <1>1, <1>2, HeldFile
<1>5. LoadProgress'
  BY <1>1, <1>2, <1>3, <1>4 DEF ElfRead, BinRead, LoaderInv, LoadProgress
<1>6. stage' /= "idle"
  BY DEF ElfRead, BinRead
<1> QED BY <1>3, <1>4, <1>5, <1>6
        DEF LoaderInv, FilesInv, LoadRestoresTable, OutcomeFitsFile, LoadDefined

\* Closing the file of a load gives the table back, unless the load was given
\* the last descriptor.
LEMMA CloseRestoresTable ==
  ASSUME LoaderInv, fclose(fd),
         HoldsFile \/ (fd = 0 /\ file_descriptors = before)
  PROVE  /\ FilesInv' /\ last'.op /= "undefined"
         /\ fd < MaxDescriptors => file_descriptors' = before
<1>1. FilesInv /\ before \in [Descriptors -> Privates \cup {Closed}]
  BY DEF LoaderInv, FilesInv, LoadProgress
<1>2. fd \in Nat
  BY DEF HoldsFile, Descriptors
<1>3. FilesInv' /\ last'.op /= "undefined"
  BY <1>1, <1>2, fcloseOutcome DEF fclose, Called
<1>4. CASE HoldsFile /\ fd < MaxDescriptors
  <2>1. fd \in Descriptors /\ file_get_descriptor(fd) /= Closed
    BY <1>4, FilesAssumption DEF HoldsFile, Descriptors, file_get_descriptor
  <2>2. file_descriptors' = [file_descriptors EXCEPT ![fd] = Closed]
    BY <1>1, <1>2, <2>1, fcloseOutcome
  <2>3. file_descriptors' \in [Descriptors -> Privates \cup {Closed}]
    BY <1>3 DEF FilesInv, FilesTypeOK
  <2>4. \A d \in Descriptors : file_descriptors'[d] = before[d]
    BY <1>1, <1>4, <2>1, <2>2 DEF HoldsFile, FilesInv, FilesTypeOK
  <2> QED BY <1>1, <1>3, <2>3, <2>4
<1>5. CASE fd = 0 /\ file_descriptors = before
  <2>1. file_get_descriptor(fd) = Closed
    BY <1>5 DEF file_get_descriptor
  <2> QED BY <1>1, <1>2, <1>3, <1>5, <2>1, fcloseOutcome
<1> QED BY <1>3, <1>4, <1>5

LEMMA ClosePreservesLoaderInv ==
  ASSUME LoaderInv, ElfClose \/ BinClose
  PROVE  LoaderInv'
<1>1. /\ fclose(fd) /\ UNCHANGED <<path, fd, outcome, before>>
      /\ HoldsFile \/ (fd = 0 /\ file_descriptors = before)
      /\ before \in [Descriptors -> Privates \cup {Closed}]
      /\ path \in Paths
  BY DEF LoaderInv, LoadProgress, ElfClose, BinClose
<1>2. /\ FilesInv' /\ last'.op /= "undefined"
      /\ fd < MaxDescriptors => file_descriptors' = before
  BY <1>1, CloseRestoresTable
<1>3. ASSUME \E d \in 1 .. (MaxDescriptors - 1) : before[d] = Closed
      PROVE  fd < MaxDescriptors
  <2>1. MaxDescriptors \in Nat \ {0}
    BY FilesAssumption
  <2>2. CASE fd = 0
    BY <2>1, <2>2
  <2>3. CASE HoldsFile
    BY <1>3, <2>1, <2>3 DEF HoldsFile, Descriptors
  <2> QED BY <1>1, <2>2, <2>3
<1>4. LoadRestoresTable'
  BY <1>1, <1>2, <1>3 DEF LoadRestoresTable
<1>5. LoadProgress'
  BY <1>1, <1>2 DEF ElfClose, BinClose, LoaderInv, LoadProgress
<1>6. OutcomeFitsFile'
  BY <1>1 DEF ElfClose, BinClose, LoaderInv, LoadProgress, OutcomeFitsFile
<1> QED BY <1>2, <1>4, <1>5, <1>6 DEF LoaderInv, FilesInv, LoadDefined

LEMMA OtherCallPreservesLoaderInv ==
  ASSUME LoaderInv, OtherCall
  PROVE  LoaderInv'
<1>1. FilesInv'
  BY FileCallOutcome DEF LoaderInv, FilesInv, OtherCall
<1>2. LoadProgress'
  BY <1>1 DEF OtherCall, LoadProgress, FilesInv, FilesTypeOK
<1> QED BY <1>1, <1>2
        DEF OtherCall, LoaderInv, FilesInv, LoadRestoresTable, OutcomeFitsFile, LoadDefined

LEMMA InitEstablishesLoaderInv == Init => LoaderInv
<1> SUFFICES ASSUME Init PROVE LoaderInv
  OBVIOUS
<1>1. FilesTypeOK /\ DescriptorsOwnPrivates
  <2>1. NotInUse \in [path : DOMAIN Tree \cup {<<>>}, pos : Nat \cup {-1}]
    BY DEF NotInUse
  <2> QED BY <2>1 DEF Init, FilesInit, FilesTypeOK, DescriptorsOwnPrivates, Open
<1>2. LoadProgress
  BY <1>1 DEF Init, LoadProgress, FilesTypeOK
<1> QED BY <1>1, <1>2 DEF Init, LoaderInv, LoadRestoresTable, OutcomeFitsFile, LoadDefined

LEMMA StutterPreservesLoaderInv ==
  ASSUME LoaderInv, UNCHANGED loadervars
  PROVE  LoaderInv'
<1>1. FilesTypeOK' /\ DescriptorsOwnPrivates'
  BY DEF LoaderInv, loadervars, FilesTypeOK, DescriptorsOwnPrivates, Open, InUse
<1>2. LoadProgress'
  BY DEF LoaderInv, loadervars, LoadProgress, HoldsFile
<1> QED BY <1>1, <1>2
        DEF LoaderInv, loadervars, LoadRestoresTable, OutcomeFitsFile, LoadDefined, LeadsNowhere

LEMMA NextPreservesLoaderInv ==
  ASSUME LoaderInv, [Next]_loadervars
  PROVE  LoaderInv'
<1>1. CASE Load
  BY <1>1, ElfOpenPreservesLoaderInv, BinOpenPreservesLoaderInv, StatPreservesLoaderInv,
     ReadPreservesLoaderInv, ClosePreservesLoaderInv DEF Load
<1> QED BY <1>1, OtherCallPreservesLoaderInv, StutterPreservesLoaderInv DEF Next
-----------------------------------------------------------------------------
(* The theorems. *)

\* The inductive invariant holds in every reachable state.
THEOREM LoaderInvariant == Spec => []LoaderInv
<1>1. Init => LoaderInv
  BY InitEstablishesLoaderInv
<1>2. LoaderInv /\ [Next]_loadervars => LoaderInv'
  BY NextPreservesLoaderInv
<1> QED BY <1>1, <1>2, PTL DEF Spec

\* Every open descriptor has a private structure of its own, in use and on the
\* disk, whatever fopen, fread, fseek, fstat and fclose are called with, and
\* whichever of them fail.
THEOREM LoaderDescriptorsOwnPrivates == Spec => []DescriptorsOwnPrivates
<1>1. LoaderInv => DescriptorsOwnPrivates
  BY DEF LoaderInv
<1> QED BY <1>1, LoaderInvariant, PTL

\* elf_load and process_load_binary close what they have opened and nothing else.
THEOREM LoaderLoadRestoresTable == Spec => []LoadRestoresTable
<1>1. LoaderInv => LoadRestoresTable
  BY DEF LoaderInv
<1> QED BY <1>1, LoaderInvariant, PTL

\* process_load_data never takes a directory, a missing file or an error for a
\* program, nor an ELF program for a binary.
THEOREM LoaderOutcomeFitsFile == Spec => []OutcomeFitsFile
<1>1. LoaderInv => OutcomeFitsFile
  BY DEF LoaderInv
<1> QED BY <1>1, LoaderInvariant, PTL

\* A load uses a null item only where fat16_get_directory_entry does.
THEOREM LoaderLoadDefined == Spec => []LoadDefined
<1>1. LoaderInv => LoadDefined
  BY DEF LoaderInv
<1> QED BY <1>1, LoaderInvariant, PTL

\* No call through one descriptor, of a load or of any other part of the kernel,
\* moves, closes or replaces the file behind another one.
THEOREM LoaderCallsAreLocal == Spec => CallsAreLocal
<1> DEFINE A == \A d \in Open \ {last'.fd} :
                  /\ file_descriptors'[d] = file_descriptors[d]
                  /\ private'[file_descriptors[d]] = private[file_descriptors[d]]
<1>1. ASSUME LoaderInv, [Next]_loadervars PROVE [Local]_filevars
  <2>1. FilesInv
    BY <1>1 DEF LoaderInv, FilesInv
  <2>2. ASSUME NEW p \in Paths, ElfOpen(p) PROVE Local
    BY <2>1, <2>2, fopenOutcome, fopenIsLocal DEF ElfOpen
  <2>3. CASE BinOpen
    BY <1>1, <2>1, <2>3, fopenOutcome, fopenIsLocal DEF BinOpen, LoaderInv, LoadProgress
  <2>4. CASE ElfStat \/ BinStat \/ ElfRead \/ BinRead
    <3>1. fd \in Nat /\ (fstat(fd) \/ fread(fd))
      BY <1>1, <2>4 DEF ElfStat, BinStat, ElfRead, BinRead, LoaderInv, LoadProgress,
                        HoldsFile, Descriptors
    <3> QED BY <2>1, <3>1, fstatIsQuiet, freadIsQuiet, QuietIsLocal
  <2>5. CASE ElfClose \/ BinClose
    <3>1. fd \in Nat /\ fclose(fd)
      BY <1>1, <2>5 DEF ElfClose, BinClose, LoaderInv, LoadProgress, HoldsFile, Descriptors
    <3> QED BY <2>1, <3>1, fcloseIsLocal
  <2>6. CASE OtherCall
    BY <2>1, <2>6, FileCallOutcome DEF OtherCall
  <2>7. CASE UNCHANGED loadervars
    BY <2>7 DEF loadervars, filevars
  <2> QED BY <1>1, <2>2, <2>3, <2>4, <2>5, <2>6, <2>7 DEF Next, Load
<1>2. LoaderInv /\ [Next]_loadervars => [A]_filevars
  BY <1>1 DEF Local
<1> QED BY <1>2, LoaderInvariant, PTL DEF Spec, CallsAreLocal
=============================================================================
