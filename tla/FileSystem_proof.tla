-------------------------- MODULE FileSystem_proof --------------------------
(* Proofs about FileSystem, for any number of ZFileSystem and ZFile        *)
(* objects, names and handles.                                             *)
EXTENDS FileSystem, FiniteSetTheorems, TLAPS

IInv == TypeOK /\ MountOwned /\ HandlesBalanced

\* The one that is alive, without its cardinality.
LEMMA OnlyOne ==
  ASSUME NEW A, NEW s, A \in {{}, {s}}
  PROVE  Cardinality(A) <= 1
  BY FS_EmptySet, FS_Singleton, SMT

\* The sets that are counted are finite.
LEMMA Finite == IsFiniteSet(OpenFiles) /\ IsFiniteSet(Alive)
  BY NamesAssumption, FS_Subset DEF OpenFiles, Alive

\* A name leads to a file, to a directory, or nowhere.
LEMMA PathIs ==
  ASSUME NEW n \in Asked
  PROVE  Path(n) \in Names \cup Dirs \cup Nowhere
  BY CutAssumption DEF Asked, Path

LEMMA InitInv == Init => IInv
<1> SUFFICES ASSUME Init PROVE IInv
  OBVIOUS
<1>1. TypeOK
  <2>1. mounted \in BOOLEAN /\ stuck \in BOOLEAN
    BY Zenon DEF Init
  <2>2. opened \in Nat /\ lost \in Nat /\ thrown \in Errors
    BY DEF Init, Errors
  <2>3. 0 \in 0..MaxLen /\ Absent \in Absent..MaxLen
    BY LimitsAssumption DEF Absent
  <2>4. /\ system \in [Systems -> {"none", "alive"}]
        /\ file \in [Files -> OpenFile \cup {NoFile}]
        /\ length \in [Names -> Absent..MaxLen]
        /\ told \in [Files -> Nat] /\ acked \in [Files -> Nat]
        /\ kept \in [Names -> Nat]
    BY <2>3 DEF Init
  <2> QED
    BY <2>1, <2>2, <2>4 DEF TypeOK
<1>2. MountOwned
  <2>1. Alive = {}
    BY DEF Init, Alive
  <2> QED
    BY <2>1, FS_EmptySet DEF MountOwned, Init
<1>3. HandlesBalanced
  <2>1. OpenFiles = {} /\ opened = 0 /\ lost = 0
    BY DEF Init, OpenFiles, IsOpen
  <2>2. Cardinality(OpenFiles) = 0
    BY <2>1, FS_EmptySet
  <2> QED
    BY <2>1, <2>2 DEF HandlesBalanced
<1> QED
  BY <1>1, <1>2, <1>3 DEF IInv

\* The mount is as it was.
LEMMA Mounted ==
  ASSUME IInv, UNCHANGED <<system, mounted, stuck>>
  PROVE  MountOwned'
<1>1. Alive' = Alive
  BY DEF Alive
<1>2. /\ Cardinality(Alive) <= 1 /\ (Alive # {} => mounted)
      /\ (mounted /\ Alive = {} => stuck)
  BY Zenon DEF MountOwned, IInv
<1>3. (mounted' <=> mounted) /\ (stuck' <=> stuck)
  BY Zenon
<1> QED
  BY <1>1, <1>2, <1>3, Zenon DEF MountOwned

\* As many handles stay taken, and the same files are open.
LEMMA AsMany ==
  ASSUME IInv, UNCHANGED <<opened, lost>>,
         \A g \in Files : IsOpen(g)' <=> IsOpen(g)
  PROVE  HandlesBalanced'
<1>1. OpenFiles' = OpenFiles
  BY DEF OpenFiles
<1> QED
  BY <1>1 DEF HandlesBalanced, IInv

\* A file in use is not NoFile.
LEMMA NoFileApart == NoFile \notin OpenFile
  BY NamesAssumption DEF NoFile, OpenFile

\* What a call throws is always one of the errors.
LEMMA Throws ==
  ASSUME NEW err
  PROVE  MountError(err) \in Errors /\ OpenError(err) \in Errors
         /\ TransferError(err) \in Errors
  BY DEF MountError, OpenError, TransferError, Errors

LEMMA ConstructInv ==
  ASSUME IInv, NEW s \in Systems, Construct(s)
  PROVE  IInv'
<1> USE DEF IInv
<1>0. PICK ret \in fs_mount :
          IF ret = "ok"
          THEN /\ mounted' = TRUE
               /\ system' = [system EXCEPT ![s] = "alive"]
               /\ Throw("none")
          ELSE Throw(MountError(ret)) /\ UNCHANGED <<mounted, system>>
  BY DEF Construct
<1>u. UNCHANGED <<file, opened, length, stuck, lost, told, acked, kept>>
  BY <1>0 DEF Construct, Throw
<1>1. TypeOK'
  <2>1. thrown' \in Errors
    BY <1>0, Throws DEF Throw, Errors
  <2>2. mounted' \in BOOLEAN
    BY <1>0, Zenon DEF TypeOK
  <2>3. system' \in [Systems -> {"none", "alive"}]
    BY <1>0 DEF TypeOK
  <2> QED
    BY <1>u, <2>1, <2>2, <2>3 DEF TypeOK
<1>2. HandlesBalanced'
  BY <1>u, AsMany DEF IsOpen
<1>3. MountOwned'
  <2>1. CASE ret = "ok"
    <3>1. ~mounted
      BY <2>1, Zenon DEF fs_mount
    <3>2. Alive = {}
      BY <3>1, Zenon DEF MountOwned
    <3>3. Alive' = {s}
      BY <1>0, <2>1, <3>2 DEF Alive, TypeOK
    <3>4. mounted' = TRUE
      BY <1>0, <2>1
    <3>5. Alive' # {} /\ Cardinality(Alive') <= 1
      BY <3>3, OnlyOne
    <3> QED
      BY <3>4, <3>5, Zenon DEF MountOwned
  <2>2. CASE ret # "ok"
    <3>1. UNCHANGED <<system, mounted, stuck>>
      BY <1>0, <1>u, <2>2
    <3> QED
      BY <3>1, Mounted
  <2> QED
    BY <2>1, <2>2
<1> QED
  BY <1>1, <1>2, <1>3

LEMMA DestroyInv ==
  ASSUME IInv, NEW s \in Systems, Destroy(s)
  PROVE  IInv'
<1> USE DEF IInv
<1>0. PICK ok \in BOOLEAN :
         /\ mounted' = ~ok
         /\ stuck' = (stuck \/ ~ok)
         /\ file' = IF ok THEN [f \in Files |-> IF IsOpen(f)
                                        THEN [file[f] EXCEPT !.sound = FALSE]
                                        ELSE NoFile]
                    ELSE file
  BY DEF Destroy
<1>u. UNCHANGED <<opened, length, lost, told, acked, kept>> /\ thrown' = "none"
  BY DEF Destroy
<1>f. /\ file' \in [Files -> OpenFile \cup {NoFile}]
      /\ \A g \in Files : IsOpen(g)' <=> IsOpen(g)
  <2>1. CASE ~ok
    BY <1>0, <2>1 DEF TypeOK, IsOpen
  <2>2. CASE ok
    <3>2. \A x \in OpenFile : [x EXCEPT !.sound = FALSE] \in OpenFile
      BY DEF OpenFile
    <3>3. file' = [f \in Files |-> IF IsOpen(f) THEN [file[f] EXCEPT !.sound = FALSE]
                                  ELSE NoFile]
      BY <1>0, <2>2
    <3>4. \A g \in Files : /\ file[g] = NoFile => file'[g] = NoFile
                           /\ file[g] \in OpenFile => file'[g] \in OpenFile
      BY <3>2, <3>3, NoFileApart DEF IsOpen
    <3>5. \A g \in Files : file[g] \in OpenFile \/ file[g] = NoFile
      BY DEF TypeOK
    <3> QED
      BY <3>3, <3>4, <3>5, NoFileApart DEF IsOpen
  <2> QED
    BY <2>1, <2>2
<1>1. TypeOK'
  <2>1. thrown' \in Errors
    BY <1>u DEF Errors
  <2>2. mounted' \in BOOLEAN /\ stuck' \in BOOLEAN
    BY <1>0, Zenon
  <2>3. system' \in [Systems -> {"none", "alive"}]
    BY DEF Destroy, TypeOK
  <2> QED
    BY <1>u, <1>f, <2>1, <2>2, <2>3 DEF TypeOK
<1>2. HandlesBalanced'
  BY <1>u, <1>f, AsMany
<1>3. MountOwned'
  <2>1. Alive = {s}
    <3>1. s \in Alive
      BY DEF Destroy, Alive
    <3>2. Cardinality(Alive) \in Nat /\ Cardinality(Alive) # 0
      BY <3>1, Finite, FS_CardinalityType, FS_EmptySet
    <3>3. Cardinality(Alive) = 1
      BY <3>2 DEF MountOwned
    <3> QED
      BY <3>1, <3>3, Finite, FS_Singleton
  <2>2. Alive' = {}
    BY <2>1 DEF Alive, Destroy, TypeOK
  <2>3. Cardinality(Alive') <= 1
    BY <2>2, OnlyOne
  <2>4. mounted' => stuck'
    BY <1>0, Zenon
  <2> QED
    BY <2>2, <2>3, <2>4, Zenon DEF MountOwned
<1> QED
  BY <1>1, <1>2, <1>3

\* A check leaves every handle and every file alone, and a handle more is taken
\* only when the close has kept it.
LEMMA CheckExistsInv ==
  ASSUME IInv, NEW n, CheckExists(n)
  PROVE  IInv'
<1> USE DEF IInv
<1>u. UNCHANGED <<system, file, mounted, length, stuck, told, acked, kept>>
  BY DEF CheckExists, objects
<1>1. thrown' \in Errors
  BY Throws DEF CheckExists, Errors
<1>2. UNCHANGED <<opened, lost>> \/ (opened' = opened + 1 /\ lost' = lost + 1)
  BY DEF CheckExists
<1>3. TypeOK'
  BY <1>u, <1>1, <1>2 DEF TypeOK
<1>4. HandlesBalanced'
  <2>1. OpenFiles' = OpenFiles
    BY <1>u DEF OpenFiles, IsOpen
  <2>2. Cardinality(OpenFiles) \in Nat
    BY Finite, FS_CardinalityType
  <2> QED
    BY <1>2, <2>1, <2>2 DEF HandlesBalanced, TypeOK
<1> QED
  BY <1>u, <1>3, <1>4, Mounted

\* A handle more, a file more.
LEMMA OneMore ==
  ASSUME IInv, NEW f \in Files, ~IsOpen(f), file'[f] # NoFile,
         \A g \in Files \ {f} : file'[g] = file[g]
  PROVE  Cardinality(OpenFiles') = Cardinality(OpenFiles) + 1
<1>1. OpenFiles' = OpenFiles \cup {f}
  BY DEF OpenFiles, IsOpen
<1>2. f \notin OpenFiles
  BY DEF OpenFiles
<1> QED
  BY <1>1, <1>2, Finite, FS_AddElement

\* A file less, a handle less.
LEMMA OneLess ==
  ASSUME IInv, NEW f \in Files, IsOpen(f), file'[f] = NoFile,
         \A g \in Files \ {f} : file'[g] = file[g]
  PROVE  Cardinality(OpenFiles') = Cardinality(OpenFiles) - 1
<1>1. OpenFiles' = OpenFiles \ {f}
  BY DEF OpenFiles, IsOpen
<1>2. f \in OpenFiles
  BY DEF OpenFiles
<1> QED
  BY <1>1, <1>2, Finite, FS_RemoveElement

LEMMA OpenInv ==
  ASSUME IInv, NEW f \in Files, NEW n \in Asked,
         NEW flags \in Modes, Open(f, n, flags)
  PROVE  IInv'
<1> USE DEF IInv
<1>u. UNCHANGED <<system, mounted, stuck, lost, kept>>
  BY DEF Open, Throw
<1>m. MountOwned'
  BY <1>u, Mounted
<1> DEFINE len == IF At(Path(n)) = Absent THEN 0 ELSE At(Path(n))
           new == [name |-> Path(n), flags |-> flags, pos |-> 0,
                   size |-> len, sound |-> TRUE]
<1>0. PICK ret \in fs_open(Path(n), flags) :
          IF ret = "ok"
          THEN /\ file' = [file EXCEPT ![f] = new]
               /\ length' = [length EXCEPT ![Path(n)] = len]
               /\ opened' = opened + 1
               /\ thrown' = "none"
               /\ told' = [told EXCEPT ![f] = 0]
               /\ acked' = [acked EXCEPT ![f] = 0]
          ELSE Throw(OpenError(ret)) /\ UNCHANGED <<file, opened, length>>
  BY DEF Open
<1>1. CASE ret = "ok"
  <2>1. Path(n) \in Names
    BY <1>1, PathIs DEF fs_open
  <2>2. len \in 0..MaxLen
    <3>1. length[Path(n)] \in Absent..MaxLen
      BY <2>1 DEF TypeOK
    <3> QED
      BY <2>1, <3>1, LimitsAssumption DEF At, Absent
  <2> HIDE DEF len
  <2>3. new \in OpenFile /\ new # NoFile
    <3>1. flags \in SUBSET Flags
      BY ModesAssumption DEF Flags
    <3>2. 0 \in 0..MaxLen /\ TRUE \in BOOLEAN
      BY LimitsAssumption
    <3>3. new \in OpenFile
      BY <2>1, <2>2, <3>1, <3>2 DEF OpenFile
    <3> QED
      BY <3>3, NoFileApart
  <2> HIDE DEF new
  <2>4. file' = [file EXCEPT ![f] = new] /\ opened' = opened + 1
        /\ length' = [length EXCEPT ![Path(n)] = len] /\ thrown' = "none"
        /\ told' = [told EXCEPT ![f] = 0] /\ acked' = [acked EXCEPT ![f] = 0]
    BY <1>0, <1>1
  <2>5. file' \in [Files -> OpenFile \cup {NoFile}]
    BY <2>3, <2>4 DEF TypeOK
  <2>6. length' \in [Names -> Absent..MaxLen]
    <3>1. len \in Absent..MaxLen
      BY <2>2, LimitsAssumption DEF Absent
    <3> QED
      BY <2>4, <3>1 DEF TypeOK
  <2>7. TypeOK'
    <3>1. opened' \in Nat /\ thrown' \in Errors /\ told' \in [Files -> Nat]
          /\ acked' \in [Files -> Nat]
      BY <2>4 DEF TypeOK, Errors
    <3> QED
      BY <1>u, <2>5, <2>6, <3>1 DEF TypeOK
  <2>8. HandlesBalanced'
    <3>1. ~IsOpen(f)
      BY DEF Open
    <3>2. file'[f] # NoFile /\ \A g \in Files \ {f} : file'[g] = file[g]
      BY <2>3, <2>4 DEF TypeOK
    <3>3. Cardinality(OpenFiles') = Cardinality(OpenFiles) + 1
      BY <3>1, <3>2, OneMore
    <3>4. Cardinality(OpenFiles) \in Nat
      BY Finite, FS_CardinalityType
    <3> QED
      BY <1>u, <3>3, <3>4, <2>4 DEF HandlesBalanced, TypeOK
  <2> QED
    BY <1>m, <2>7, <2>8
<1>2. CASE ret # "ok"
  <2>1. UNCHANGED <<file, opened, length, told, acked>> /\ thrown' = OpenError(ret)
    BY <1>0, <1>2 DEF Throw
  <2>2. TypeOK'
    BY <2>1, <1>u, Throws DEF TypeOK
  <2>3. HandlesBalanced'
    BY <2>1, <1>u, AsMany DEF IsOpen
  <2> QED
    BY <1>m, <2>2, <2>3
<1> QED
  BY <1>1, <1>2

\* A file that is changed in place stays open and on the same name.
LEMMA InPlace ==
  ASSUME IInv, NEW f \in Files, IsOpen(f), NEW new \in OpenFile,
         file' = [file EXCEPT ![f] = new],
         UNCHANGED <<system, mounted, opened, length, stuck, lost, kept>>,
         thrown' \in Errors, told' \in [Files -> Nat], acked' \in [Files -> Nat]
  PROVE  IInv'
<1> USE DEF IInv
<1>1. file' \in [Files -> OpenFile \cup {NoFile}]
  BY DEF TypeOK
<1>2. TypeOK'
  BY <1>1 DEF TypeOK
<1>3. \A g \in Files : IsOpen(g)' <=> IsOpen(g)
  BY NoFileApart DEF IsOpen, TypeOK
<1> QED
  BY <1>2, <1>3, AsMany, Mounted

\* A call that throws before it has done anything.
LEMMA Nothing ==
  ASSUME IInv, NEW err \in Errors, Throw(err),
         UNCHANGED <<system, file, mounted, opened, length>>
  PROVE  IInv'
<1>1. TypeOK'
  BY DEF IInv, TypeOK, Throw
<1>2. HandlesBalanced'
  BY AsMany DEF Throw, IsOpen
<1> QED
  BY <1>1, <1>2, Mounted DEF IInv, Throw

LEMMA FailedInv ==
  ASSUME IInv, NEW f \in Files, IsOpen(f), Failed(f), UNCHANGED <<system, disk>>
  PROVE  IInv'
<1> DEFINE new == [file[f] EXCEPT !.sound = FALSE]
<1>1. new \in OpenFile
  BY DEF IInv, TypeOK, IsOpen, OpenFile
<1>2. file' = [file EXCEPT ![f] = new]
  BY DEF Failed
<1>3. thrown' \in Errors /\ UNCHANGED <<stuck, lost, told, acked, kept>>
  BY Throws DEF Failed, Throw
<1>4. told' \in [Files -> Nat] /\ acked' \in [Files -> Nat]
  BY <1>3 DEF IInv, TypeOK
<1> HIDE DEF new
<1> QED
  BY <1>1, <1>2, <1>3, <1>4, InPlace DEF disk

\* What a handle takes ends inside the file, and the file grows with it.
LEMMA TakenInside ==
  ASSUME IInv, NEW f \in Files, IsOpen(f), NEW size \in 1..MaxLen,
         WritePos(f) + size <= MaxLen, NEW k \in 0..size, Taken(f, k)
  PROVE  /\ WritePos(f) \in 0..MaxLen
         /\ \E new \in OpenFile :
                /\ file' = [file EXCEPT ![f] = new]
                /\ new.name = file[f].name /\ new.sound = file[f].sound
                /\ new.pos = WritePos(f) + k
                /\ new.size >= file[f].size /\ new.size >= WritePos(f) + k
<1> DEFINE e == WritePos(f) + k
           new == [file[f] EXCEPT !.pos = e, !.size = Larger(e, @)]
<1>1. file[f] \in OpenFile
  BY DEF IInv, TypeOK, IsOpen
<1>2. file[f].pos \in 0..MaxLen /\ file[f].size \in 0..MaxLen
  BY <1>1 DEF OpenFile
<1>3. WritePos(f) \in 0..MaxLen
  BY <1>2 DEF WritePos
<1>4. e \in 0..MaxLen
  BY <1>3, LimitsAssumption
<1>5. file' = [file EXCEPT ![f] = new]
  BY DEF Taken
<1> HIDE DEF e
<1>6. Larger(e, file[f].size) \in 0..MaxLen
      /\ Larger(e, file[f].size) >= file[f].size /\ Larger(e, file[f].size) >= e
  BY <1>2, <1>4, LimitsAssumption DEF Larger
<1>7. new \in OpenFile /\ new.name = file[f].name /\ new.sound = file[f].sound
      /\ new.pos = e /\ new.size = Larger(e, file[f].size)
  BY <1>1, <1>4, <1>6 DEF OpenFile
<1> HIDE DEF new
<1> QED
  BY <1>3, <1>5, <1>6, <1>7 DEF e

LEMMA WriteInv ==
  ASSUME IInv, NEW f \in Files, NEW size \in 1..MaxLen, NEW null \in BOOLEAN,
         Write(f, size, null)
  PROVE  IInv'
<1>u. IsOpen(f) /\ UNCHANGED <<system, disk>>
  BY DEF Write
<1>1. ASSUME NEW err \in Errors, Throw(err), UNCHANGED file
      PROVE  IInv'
  BY <1>1, <1>u, Nothing DEF disk
<1>2. ASSUME WritePos(f) + size <= MaxLen, NEW k \in 0..size, Taken(f, k),
             thrown' = IF k = size THEN "none" ELSE "uncompleted_write",
             told' = [told EXCEPT ![f] = WritePos(f) + k],
             acked' = IF k < size THEN acked
                      ELSE [acked EXCEPT ![f] = Larger(WritePos(f) + size, @)],
             UNCHANGED <<answer, stuck, lost, kept>>
      PROVE  IInv'
  <2>1. WritePos(f) \in 0..MaxLen
    BY <1>2, <1>u, TakenInside
  <2>2. PICK new \in OpenFile : file' = [file EXCEPT ![f] = new]
    BY <1>2, <1>u, TakenInside
  <2>3. thrown' \in Errors
    BY <1>2 DEF Errors
  <2>4. told' \in [Files -> Nat]
    <3>1. WritePos(f) + k \in Nat
      BY <2>1, LimitsAssumption
    <3> QED
      BY <1>2, <3>1 DEF IInv, TypeOK
  <2>5. acked' \in [Files -> Nat]
    <3>1. acked[f] \in Nat /\ acked \in [Files -> Nat]
      BY DEF IInv, TypeOK
    <3>2. Larger(WritePos(f) + size, acked[f]) \in Nat
      BY <2>1, <3>1, LimitsAssumption DEF Larger
    <3> QED
      BY <1>2, <3>1, <3>2
  <2> QED
    BY <1>2, <1>u, <2>2, <2>3, <2>4, <2>5, InPlace DEF disk
<1>3. {"file_not_open_for_write", "bad_data"} \subseteq Errors
  BY DEF Errors
<1> QED
  BY <1>u, <1>1, <1>2, <1>3, FailedInv DEF Write

\* A read ends inside the file.
LEMMA GotInside ==
  ASSUME IInv, NEW f \in Files, IsOpen(f), NEW k \in Nat, k <= Left(f), Got(f, k, k)
  PROVE  \E new \in OpenFile :
            /\ file' = [file EXCEPT ![f] = new]
            /\ new.name = file[f].name /\ new.sound = file[f].sound
            /\ new.pos = file[f].pos + k /\ new.size = file[f].size
<1> DEFINE p == file[f].pos + k
           new == [file[f] EXCEPT !.pos = p]
<1>1. file[f] \in OpenFile
  BY DEF IInv, TypeOK, IsOpen
<1>2. file[f].pos \in 0..MaxLen /\ file[f].size \in 0..MaxLen
  BY <1>1 DEF OpenFile
<1>3. p \in 0..MaxLen
  BY <1>2, LimitsAssumption DEF Left
<1>4. file' = [file EXCEPT ![f] = new]
  BY DEF Got
<1> HIDE DEF p
<1>5. new \in OpenFile /\ new.name = file[f].name /\ new.sound = file[f].sound
      /\ new.pos = p /\ new.size = file[f].size
  BY <1>1, <1>3 DEF OpenFile
<1> HIDE DEF new
<1> QED
  BY <1>4, <1>5 DEF p

LEMMA ReadInv ==
  ASSUME IInv, NEW f \in Files, NEW size \in 1..MaxLen, Read(f, size)
  PROVE  IInv'
<1>u. IsOpen(f) /\ UNCHANGED <<system, disk>>
  BY DEF Read
<1>1. ASSUME NEW err \in Errors, Throw(err), UNCHANGED file
      PROVE  IInv'
  BY <1>1, <1>u, Nothing DEF disk
<1>2. ASSUME NEW k \in 0..size, k <= Left(f), Got(f, k, k),
             thrown' = IF k = size THEN "none" ELSE "uncompleted_read",
             UNCHANGED <<answer, stuck, lost, acked, kept>>
      PROVE  IInv'
  <2>1. k \in Nat
    OBVIOUS
  <2>2. PICK new \in OpenFile : file' = [file EXCEPT ![f] = new]
    BY <1>2, <1>u, <2>1, GotInside
  <2>3. thrown' \in Errors
    BY <1>2 DEF Errors
  <2>4. told' \in [Files -> Nat] /\ acked' \in [Files -> Nat]
    BY <1>2, <2>1 DEF IInv, TypeOK, Got
  <2> QED
    BY <1>2, <1>u, <2>2, <2>3, <2>4, InPlace DEF disk
<1>3. "file_not_open_for_read" \in Errors
  BY DEF Errors
<1> QED
  BY <1>u, <1>1, <1>2, <1>3, FailedInv DEF Read

\* The two ends of a close: the handle came back, or the close has kept it.
LEMMA CloseInv ==
  ASSUME IInv, NEW f \in Files, Close(f)
  PROVE  IInv'
<1> USE DEF IInv
<1>u. /\ IsOpen(f) /\ thrown' = "none" /\ UNCHANGED <<system, mounted, stuck>>
      /\ file' = [file EXCEPT ![f] = NoFile]
      /\ told' = [told EXCEPT ![f] = 0] /\ acked' = [acked EXCEPT ![f] = 0]
  BY DEF Close
<1>m. MountOwned'
  BY <1>u, Mounted
<1>0. \/ opened' = opened - 1 /\ lost' = lost
      \/ opened' = opened /\ lost' = lost + 1
  BY DEF Close
<1>1. file'[f] = NoFile /\ \A g \in Files \ {f} : file'[g] = file[g]
  BY <1>u DEF TypeOK
<1>2. Cardinality(OpenFiles') = Cardinality(OpenFiles) - 1
  BY <1>u, <1>1, OneLess
<1>3. Cardinality(OpenFiles) \in Nat /\ Cardinality(OpenFiles) # 0
  <2>1. f \in OpenFiles
    BY <1>u DEF OpenFiles
  <2> QED
    BY <2>1, Finite, FS_EmptySet, FS_CardinalityType
<1>4. HandlesBalanced'
  BY <1>0, <1>2, <1>3 DEF HandlesBalanced, TypeOK
<1>5. opened' \in Nat /\ lost' \in Nat
  BY <1>0, <1>3 DEF HandlesBalanced, TypeOK
<1>6. file[f] \in OpenFile /\ acked[f] \in Nat
  BY <1>u DEF IsOpen, TypeOK
<1>7. file[f].name \in Names /\ file[f].size \in 0..MaxLen
  BY <1>6 DEF OpenFile
<1>8. length' \in [Names -> Absent..MaxLen]
  <2>1. length' = length \/ length' = [length EXCEPT ![file[f].name] = file[f].size]
    BY <1>7 DEF Close, TypeOK
  <2>2. file[f].size \in Absent..MaxLen
    BY <1>7, LimitsAssumption DEF Absent
  <2> QED
    BY <2>1, <2>2 DEF TypeOK
<1>9. kept' \in [Names -> Nat]
  <2> DEFINE n == file[f].name
             most == Larger(acked[f], kept[n])
  <2>1. kept' = kept \/ kept' = [kept EXCEPT ![n] = most]
    BY <1>7 DEF Close, TypeOK
  <2>2. most \in Nat
    BY <1>6, <1>7 DEF Larger, TypeOK
  <2> HIDE DEF most
  <2> QED
    BY <2>1, <2>2 DEF TypeOK
<1>10. TypeOK'
  <2>1. file' \in [Files -> OpenFile \cup {NoFile}] /\ thrown' \in Errors
        /\ told' \in [Files -> Nat] /\ acked' \in [Files -> Nat]
    BY <1>u DEF TypeOK, Errors
  <2> QED
    BY <1>u, <1>5, <1>8, <1>9, <2>1 DEF TypeOK
<1> QED
  BY <1>m, <1>4, <1>10

LEMMA NextInv == IInv /\ [Next]_vars => IInv'
<1> SUFFICES ASSUME IInv, [Next]_vars PROVE IInv'
  OBVIOUS
<1>1. CASE UNCHANGED vars
  <2>1. TypeOK'
    BY <1>1 DEF IInv, TypeOK, vars, objects, disk, history
  <2>2. HandlesBalanced'
    BY <1>1, AsMany DEF IsOpen, vars, objects, disk, history
  <2> QED
    BY <1>1, <2>1, <2>2, Mounted DEF IInv, vars, objects, disk, history
<1>2. CASE Next
  BY <1>2, ConstructInv, DestroyInv, CheckExistsInv, OpenInv, WriteInv, ReadInv,
     CloseInv DEF Next
<1> QED
  BY <1>1, <1>2

\* The types and the balance hold in every reachable state, whatever the file
\* system reports.
THEOREM Invariance == Spec => []IInv
  BY InitInv, NextInv, PTL DEF Spec

\* Every variable keeps its type.
THEOREM TypeCorrect == Spec => []TypeOK
<1>1. IInv => TypeOK
  BY DEF IInv
<1> QED
  BY <1>1, Invariance, PTL

\* At most one ZFileSystem is alive, it has the mount, and only an unmount that
\* failed leaves a mount without an owner.
THEOREM OneOwner == Spec => []MountOwned
<1>1. IInv => MountOwned
  BY DEF IInv
<1> QED
  BY <1>1, Invariance, PTL

\* The handles that are taken are those of the open ZFiles and those that a
\* failing close has kept, on any path, also after the unmount.
THEOREM NoLeak == Spec => []HandlesBalanced
<1>1. IInv => HandlesBalanced
  BY DEF IInv
<1> QED
  BY <1>1, Invariance, PTL
-----------------------------------------------------------------------------
(* What the caller has been told.                                          *)

\* AckedBytesStored, one conjunct for the files and one for their handles, with
\* what makes it inductive: a handle never has less of its file than is stored,
\* and is alone on it, so that no close takes back what an earlier one stored.
KeptStored == \A n \in Names : kept[n] > 0 => kept[n] <= length[n]
HandTold == \A f \in Files : IsOpen(f) /\ file[f].sound =>
               told[f] = file[f].pos /\ acked[f] <= file[f].size
Grown == \A f \in Files : IsOpen(f) => length[file[f].name] <= file[f].size
Alone == \A f, g \in Files :
            IsOpen(f) /\ IsOpen(g) /\ f # g => file[f].name # file[g].name

TellInv == KeptStored /\ HandTold /\ Grown /\ Alone

LEMMA TellInvGives == TellInv => AckedBytesStored
  BY DEF TellInv, KeptStored, HandTold, AckedBytesStored, OpenFiles

\* A step that leaves the files and the handles alone, and tells nothing new.
LEMMA NothingTold ==
  ASSUME TellInv, UNCHANGED <<file, length, told, acked, kept>>
  PROVE  TellInv'
  BY DEF TellInv, KeptStored, HandTold, Grown, Alone, IsOpen

\* A step of one handle on its file, which is told of nothing but what it has.
LEMMA OneMoved ==
  ASSUME IInv, TellInv, NEW f \in Files, IsOpen(f), NEW new \in OpenFile,
         file' = [file EXCEPT ![f] = new], new.name = file[f].name,
         new.size >= file[f].size, UNCHANGED <<length, kept>>,
         told' \in [Files -> Nat], acked' \in [Files -> Nat],
         \A g \in Files \ {f} : told'[g] = told[g] /\ acked'[g] = acked[g],
         new.sound => told'[f] = new.pos /\ acked'[f] <= new.size
  PROVE  TellInv'
<1>1. \A g \in Files : file'[g] = IF g = f THEN new ELSE file[g]
  BY DEF IInv, TypeOK
<1>2. new # NoFile
  BY NoFileApart
<1>3. \A g \in Files : (IsOpen(g)' <=> IsOpen(g)) /\ file'[g].name = file[g].name
  BY <1>1, <1>2 DEF IsOpen
<1>4. KeptStored'
  BY DEF TellInv, KeptStored
<1>5. HandTold'
  BY <1>1, <1>3 DEF TellInv, HandTold
<1>6. Grown'
  <2> SUFFICES ASSUME NEW g \in Files, IsOpen(g)'
               PROVE  length'[file'[g].name] <= file'[g].size
    BY DEF Grown
  <2>1. length[file[g].name] <= file[g].size
    BY <1>3 DEF TellInv, Grown
  <2>2. CASE g # f
    BY <1>1, <2>1, <2>2
  <2>3. CASE g = f
    <3>1. file[f] \in OpenFile
      BY DEF IInv, TypeOK, IsOpen
    <3>2. length[file[f].name] \in Int /\ file[f].size \in Int /\ new.size \in Int
      BY <3>1, LimitsAssumption DEF IInv, TypeOK, OpenFile, Absent
    <3> QED
      BY <1>1, <2>1, <2>3, <3>2
  <2> QED
    BY <2>2, <2>3
<1>7. Alone'
  BY <1>3 DEF TellInv, Alone
<1> QED
  BY <1>4, <1>5, <1>6, <1>7 DEF TellInv

LEMMA OpenTells ==
  ASSUME IInv, TellInv, NEW f \in Files, NEW n \in Asked,
         NEW flags \in Modes, Open(f, n, flags)
  PROVE  TellInv'
<1> DEFINE len == IF At(Path(n)) = Absent THEN 0 ELSE At(Path(n))
           new == [name |-> Path(n), flags |-> flags, pos |-> 0,
                   size |-> len, sound |-> TRUE]
<1>1. PICK ret \in fs_open(Path(n), flags) :
          IF ret = "ok"
          THEN /\ file' = [file EXCEPT ![f] = new]
               /\ length' = [length EXCEPT ![Path(n)] = len]
               /\ told' = [told EXCEPT ![f] = 0]
               /\ acked' = [acked EXCEPT ![f] = 0]
               /\ UNCHANGED kept
          ELSE UNCHANGED <<file, length, told, acked, kept>>
  BY DEF Open, Throw
<1>2. CASE ret # "ok"
  BY <1>1, <1>2, NothingTold
<1>3. CASE ret = "ok"
  <2>1. Path(n) \in Names
    BY <1>3, PathIs DEF fs_open
  <2>2. len \in Nat /\ length[Path(n)] \in Int /\ length[Path(n)] <= len
    BY <2>1, LimitsAssumption DEF At, Absent, IInv, TypeOK
  <2>3. length[Path(n)] # Absent => len = length[Path(n)]
    BY <2>1 DEF At
  <2> HIDE DEF len
  <2>4. \A x \in Names : length'[x] = IF x = Path(n) THEN len ELSE length[x]
    BY <1>1, <1>3 DEF IInv, TypeOK
  <2>5. \A g \in Files : /\ file'[g] = IF g = f THEN new ELSE file[g]
                         /\ told'[g] = IF g = f THEN 0 ELSE told[g]
                         /\ acked'[g] = IF g = f THEN 0 ELSE acked[g]
    BY <1>1, <1>3 DEF IInv, TypeOK
  <2>6. /\ new.name = Path(n) /\ new.pos = 0 /\ new.size = len /\ new.sound = TRUE
    OBVIOUS
  <2> HIDE DEF new
  <2>7. \A g \in Files \ {f} : (IsOpen(g)' <=> IsOpen(g)) /\ file'[g] = file[g]
    BY <2>5 DEF IsOpen
  <2>8. \A g \in Files : IsOpen(g) => file[g].name # Path(n)
    BY DEF Open
  <2>9. \A g \in Files : IsOpen(g) => file[g].name \in Names
    BY DEF IInv, TypeOK, IsOpen, OpenFile
  <2>10. KeptStored'
    <3> SUFFICES ASSUME NEW x \in Names, kept[x] > 0
                 PROVE  kept[x] <= length'[x]
      BY <1>1, <1>3 DEF KeptStored
    <3>1. kept[x] \in Nat /\ length[x] \in Int /\ kept[x] <= length[x]
      BY LimitsAssumption DEF TellInv, KeptStored, IInv, TypeOK, Absent
    <3> QED
      BY <3>1, <2>2, <2>4
  <2>11. HandTold'
    BY <2>2, <2>5, <2>6, <2>7 DEF TellInv, HandTold
  <2>12. Grown'
    <3> SUFFICES ASSUME NEW g \in Files, IsOpen(g)'
                 PROVE  length'[file'[g].name] <= file'[g].size
      BY DEF Grown
    <3>1. CASE g = f
      BY <3>1, <2>1, <2>2, <2>4, <2>5, <2>6
    <3>2. CASE g # f
      <4>1. IsOpen(g) /\ file'[g] = file[g] /\ file[g].name \in Names
            /\ file[g].name # Path(n)
        BY <3>2, <2>7, <2>8, <2>9
      <4> QED
        BY <4>1, <2>4 DEF TellInv, Grown
    <3> QED
      BY <3>1, <3>2
  <2>13. Alone'
    <3> SUFFICES ASSUME NEW g \in Files, NEW h \in Files,
                        IsOpen(g)', IsOpen(h)', g # h
                 PROVE  file'[g].name # file'[h].name
      BY DEF Alone
    <3>1. CASE g = f
      BY <3>1, <2>5, <2>6, <2>7, <2>8
    <3>2. CASE h = f
      BY <3>2, <2>5, <2>6, <2>7, <2>8
    <3>3. CASE g # f /\ h # f
      BY <3>3, <2>7 DEF TellInv, Alone
    <3> QED
      BY <3>1, <3>2, <3>3
  <2> QED
    BY <2>10, <2>11, <2>12, <2>13 DEF TellInv
<1> QED
  BY <1>2, <1>3

LEMMA FailedTells ==
  ASSUME IInv, TellInv, NEW f \in Files, IsOpen(f), Failed(f),
         UNCHANGED <<system, disk>>
  PROVE  TellInv'
<1> DEFINE new == [file[f] EXCEPT !.sound = FALSE]
<1>1. file[f] \in OpenFile
  BY DEF IInv, TypeOK, IsOpen
<1>2. new \in OpenFile /\ new.name = file[f].name /\ new.size = file[f].size
      /\ ~new.sound
  BY <1>1 DEF OpenFile
<1>3. file' = [file EXCEPT ![f] = new] /\ UNCHANGED <<length, told, acked, kept>>
  BY DEF Failed, Throw, disk
<1> HIDE DEF new
<1>4. told' \in [Files -> Nat] /\ acked' \in [Files -> Nat]
  BY <1>3 DEF IInv, TypeOK
<1>5. new.size >= file[f].size
  BY <1>1, <1>2, LimitsAssumption DEF OpenFile
<1> QED
  BY <1>2, <1>3, <1>4, <1>5, OneMoved

LEMMA WriteTells ==
  ASSUME IInv, TellInv, NEW f \in Files, NEW size \in 1..MaxLen,
         NEW null \in BOOLEAN, Write(f, size, null)
  PROVE  TellInv'
<1>u. IsOpen(f) /\ UNCHANGED <<system, disk>> /\ UNCHANGED <<length, kept>>
  BY DEF Write, Failed, Throw, disk
<1>1. CASE UNCHANGED <<file, told, acked>>
  BY <1>u, <1>1, NothingTold
<1>2. ASSUME WritePos(f) + size <= MaxLen, NEW k \in 0..size, Taken(f, k),
             told' = [told EXCEPT ![f] = WritePos(f) + k],
             acked' = IF k < size THEN acked
                      ELSE [acked EXCEPT ![f] = Larger(WritePos(f) + size, @)]
      PROVE  TellInv'
  <2> DEFINE e == WritePos(f) + k
  <2>1. WritePos(f) \in 0..MaxLen
    BY <1>2, <1>u, TakenInside
  <2>2. PICK new \in OpenFile :
            /\ file' = [file EXCEPT ![f] = new]
            /\ new.name = file[f].name /\ new.sound = file[f].sound
            /\ new.pos = e /\ new.size >= file[f].size /\ new.size >= e
    BY <1>2, <1>u, TakenInside
  <2>3. e \in Nat /\ (~(k < size) => e = WritePos(f) + size)
    BY <2>1, LimitsAssumption
  <2>4. told \in [Files -> Nat] /\ acked \in [Files -> Nat]
    BY DEF IInv, TypeOK
  <2>5. told' = [told EXCEPT ![f] = e]
    BY <1>2
  <2>6. acked' = acked \/ acked' = [acked EXCEPT ![f] = Larger(e, acked[f])]
    BY <1>2, <2>3
  <2> HIDE DEF e
  <2>7. Larger(e, acked[f]) \in Nat
    BY <2>3, <2>4 DEF Larger
  <2>8. told' \in [Files -> Nat] /\ told'[f] = e
    BY <2>3, <2>4, <2>5
  <2>9. acked' \in [Files -> Nat]
        /\ acked'[f] \in {acked[f], Larger(e, acked[f])}
    BY <2>4, <2>6, <2>7
  <2>10. \A g \in Files \ {f} : told'[g] = told[g] /\ acked'[g] = acked[g]
    BY <2>4, <2>5, <2>6
  <2>11. ASSUME new.sound PROVE acked'[f] <= new.size
    <3>1. acked[f] <= file[f].size
      BY <1>u, <2>2, <2>11 DEF TellInv, HandTold
    <3>2. file[f].size \in Nat /\ new.size \in Nat /\ acked[f] \in Nat
      BY <1>u, <2>4, LimitsAssumption DEF IInv, TypeOK, IsOpen, OpenFile
    <3>3. acked[f] <= new.size /\ Larger(e, acked[f]) <= new.size
      BY <3>1, <3>2, <2>2, <2>3 DEF Larger
    <3> QED
      BY <3>3, <2>9
  <2> QED
    BY <1>u, <2>2, <2>8, <2>9, <2>10, <2>11, OneMoved
<1> QED
  BY <1>u, <1>1, <1>2, FailedTells DEF Write, Throw

LEMMA ReadTells ==
  ASSUME IInv, TellInv, NEW f \in Files, NEW size \in 1..MaxLen, Read(f, size)
  PROVE  TellInv'
<1>u. IsOpen(f) /\ UNCHANGED <<system, disk>> /\ UNCHANGED <<length, acked, kept>>
  BY DEF Read, disk, Throw, Failed
<1>1. CASE UNCHANGED <<file, told>>
  BY <1>1, <1>u, NothingTold
<1>2. ASSUME NEW k \in 0..size, k <= Left(f), Got(f, k, k)
      PROVE  TellInv'
  <2>1. k \in Nat
    OBVIOUS
  <2>2. PICK new \in OpenFile :
            /\ file' = [file EXCEPT ![f] = new]
            /\ new.name = file[f].name /\ new.sound = file[f].sound
            /\ new.pos = file[f].pos + k /\ new.size = file[f].size
    BY <1>2, <1>u, <2>1, GotInside
  <2>3. told \in [Files -> Nat] /\ acked \in [Files -> Nat]
    BY DEF IInv, TypeOK
  <2>4. told' = [told EXCEPT ![f] = @ + k]
    BY <1>2 DEF Got
  <2>5. told' \in [Files -> Nat] /\ acked' \in [Files -> Nat]
        /\ told'[f] = told[f] + k
        /\ \A g \in Files \ {f} : told'[g] = told[g] /\ acked'[g] = acked[g]
    BY <2>1, <2>3, <2>4, <1>u
  <2>6. new.sound => told'[f] = new.pos /\ acked'[f] <= new.size
    BY <1>u, <2>2, <2>5 DEF TellInv, HandTold
  <2>7. new.size >= file[f].size
    BY <2>2, LimitsAssumption DEF OpenFile
  <2> QED
    BY <1>u, <2>2, <2>5, <2>6, <2>7, OneMoved
<1> QED
  BY <1>u, <1>1, <1>2, FailedTells DEF Read, Throw

\* What is stored only grows, and what is kept is stored: the handle is alone
\* on its file, so nothing was stored behind its back.
LEMMA CloseTells ==
  ASSUME IInv, TellInv, NEW f \in Files, Close(f)
  PROVE  TellInv'
<1> DEFINE n == file[f].name
<1>0. PICK good \in BOOLEAN, stored \in BOOLEAN :
         /\ good => stored /\ file[f].sound
         /\ length' = [length EXCEPT ![n] = IF stored THEN file[f].size ELSE @]
         /\ kept' = [kept EXCEPT ![n] = IF good THEN Larger(acked[f], @) ELSE @]
  <2>1. PICK close \in fs_close, stored \in BOOLEAN :
           LET good == close.ok /\ file[f].sound
           IN  /\ good => stored
               /\ length' = [length EXCEPT ![n] = IF stored THEN file[f].size ELSE @]
               /\ kept' = [kept EXCEPT ![n] = IF good THEN Larger(acked[f], @) ELSE @]
    BY DEF Close
  <2> DEFINE good == close.ok /\ file[f].sound
  <2>2. good \in BOOLEAN
    OBVIOUS
  <2>3. good => file[f].sound
    OBVIOUS
  <2>4. /\ good => stored
        /\ length' = [length EXCEPT ![n] = IF stored THEN file[f].size ELSE @]
        /\ kept' = [kept EXCEPT ![n] = IF good THEN Larger(acked[f], @) ELSE @]
    BY <2>1
  <2> HIDE DEF good
  <2> QED
    BY <2>2, <2>3, <2>4
<1>1. IsOpen(f) /\ file[f] \in OpenFile /\ n \in Names
  BY DEF Close, IsOpen, IInv, TypeOK, OpenFile
<1>2. file[f].size \in Nat /\ acked[f] \in Nat /\ length[n] \in Int /\ kept[n] \in Nat
      /\ length[n] <= file[f].size
  BY <1>1, LimitsAssumption DEF IInv, TypeOK, OpenFile, Absent, TellInv, Grown
<1>3. \A g \in Files : /\ file'[g] = IF g = f THEN NoFile ELSE file[g]
                       /\ g # f => told'[g] = told[g] /\ acked'[g] = acked[g]
  BY DEF Close, IInv, TypeOK
<1>4. \A g \in Files : IsOpen(g)' <=> IsOpen(g) /\ g # f
  BY <1>3 DEF IsOpen
<1>5. \A x \in Names \ {n} : length'[x] = length[x] /\ kept'[x] = kept[x]
  BY <1>0 DEF IInv, TypeOK
<1>6. /\ length'[n] = IF stored THEN file[f].size ELSE length[n]
      /\ kept'[n] = IF good THEN Larger(acked[f], kept[n]) ELSE kept[n]
  BY <1>0, <1>1 DEF IInv, TypeOK
<1>7. KeptStored'
  <2> SUFFICES ASSUME NEW x \in Names, kept'[x] > 0 PROVE kept'[x] <= length'[x]
    BY DEF KeptStored
  <2>1. CASE x # n
    BY <2>1, <1>5 DEF TellInv, KeptStored
  <2>2. CASE x = n
    <3>1. kept[n] > 0 => kept[n] <= length[n]
      BY <1>1 DEF TellInv, KeptStored
    <3>2. good => acked[f] <= file[f].size
      BY <1>0, <1>1 DEF TellInv, HandTold
    <3>3. CASE good
      BY <3>1, <3>2, <3>3, <2>2, <1>0, <1>2, <1>6 DEF Larger
    <3>4. CASE ~good
      BY <3>1, <3>4, <2>2, <1>2, <1>6
    <3> QED
      BY <3>3, <3>4
  <2> QED
    BY <2>1, <2>2
<1>8. HandTold'
  BY <1>3, <1>4 DEF TellInv, HandTold
<1>9. Grown'
  <2> SUFFICES ASSUME NEW g \in Files, IsOpen(g)'
               PROVE  length'[file'[g].name] <= file'[g].size
    BY DEF Grown
  <2>1. IsOpen(g) /\ g # f /\ file'[g] = file[g]
    BY <1>3, <1>4
  <2>2. file[g].name # n /\ file[g].name \in Names
    BY <2>1, <1>1 DEF TellInv, Alone, IsOpen, IInv, TypeOK, OpenFile
  <2>3. length'[file[g].name] = length[file[g].name]
    BY <2>2, <1>5
  <2> QED
    BY <2>1, <2>3 DEF TellInv, Grown
<1>10. Alone'
  BY <1>3, <1>4 DEF TellInv, Alone
<1> QED
  BY <1>7, <1>8, <1>9, <1>10 DEF TellInv

\* A ZFile that outlives its mount is told of nothing any more.
LEMMA DestroyTells ==
  ASSUME IInv, TellInv, NEW s \in Systems, Destroy(s)
  PROVE  TellInv'
<1>u. UNCHANGED <<length, told, acked, kept>>
  BY DEF Destroy
<1>1. CASE UNCHANGED file
  BY <1>u, <1>1, NothingTold
<1>2. CASE file' = [f \in Files |-> IF IsOpen(f) THEN [file[f] EXCEPT !.sound = FALSE]
                                   ELSE NoFile]
  <2>1. \A g \in Files : file[g] \in OpenFile \/ file[g] = NoFile
    BY DEF IInv, TypeOK
  <2>2. \A x \in OpenFile : LET y == [x EXCEPT !.sound = FALSE]
                            IN  /\ y \in OpenFile /\ y.name = x.name
                                /\ y.size = x.size /\ ~y.sound
    BY DEF OpenFile
  <2>4. \A g \in Files : file'[g] = IF IsOpen(g) THEN [file[g] EXCEPT !.sound = FALSE]
                                   ELSE NoFile
    BY <1>2
  <2>5. \A g \in Files :
           IsOpen(g)' => /\ IsOpen(g) /\ file'[g].name = file[g].name
                         /\ file'[g].size = file[g].size /\ ~file'[g].sound
    <3> SUFFICES ASSUME NEW g \in Files, file'[g] # NoFile
                 PROVE  /\ file[g] # NoFile /\ file'[g].name = file[g].name
                        /\ file'[g].size = file[g].size /\ ~file'[g].sound
      BY DEF IsOpen
    <3>1. file[g] # NoFile
      BY <2>4 DEF IsOpen
    <3>2. file[g] \in OpenFile
      BY <2>1, <3>1
    <3> QED
      BY <2>2, <2>4, <3>1, <3>2 DEF IsOpen
  <2>6. KeptStored'
    BY <1>u DEF TellInv, KeptStored
  <2>7. HandTold' /\ Grown' /\ Alone'
    BY <1>u, <2>5 DEF TellInv, HandTold, Grown, Alone
  <2> QED
    BY <2>6, <2>7 DEF TellInv
<1> QED
  BY <1>1, <1>2 DEF Destroy

LEMMA NextTells == IInv /\ TellInv /\ [Next]_vars => TellInv'
<1> SUFFICES ASSUME IInv, TellInv, [Next]_vars PROVE TellInv'
  OBVIOUS
<1>1. CASE UNCHANGED vars
  BY <1>1, NothingTold DEF vars, objects, disk, history
<1>2. ASSUME NEW s \in Systems, Construct(s) PROVE TellInv'
  <2>1. UNCHANGED <<file, length, told, acked, kept>>
    BY <1>2 DEF Construct, Throw
  <2> QED
    BY <2>1, NothingTold
<1>3. ASSUME NEW n \in Asked, CheckExists(n) PROVE TellInv'
  BY <1>3, NothingTold DEF CheckExists, objects
<1> QED
  BY <1>1, <1>2, <1>3, DestroyTells, OpenTells, WriteTells, ReadTells, CloseTells
     DEF Next

\* A caller that is not told of an error has all its bytes: through a handle on
\* which no call failed nothing is missing, and what such a ZFile stored stays
\* stored, for any files, errors and short transfers, and failing closes.
THEOREM BytesTold == Spec => []AckedBytesStored
<1>1. Init => TellInv
  BY DEF Init, TellInv, KeptStored, HandTold, Grown, Alone, IsOpen
<1> QED
  BY <1>1, NextTells, Invariance, TellInvGives, PTL DEF Spec
-----------------------------------------------------------------------------
\* The answer is the right one for the file at the path: the code takes nothing
\* for a missing file but the errno that the state justifies.
LEMMA CheckHonest ==
  ASSUME ExistsHonest, NEW n \in Asked, CheckExists(n)
  PROVE  ExistsHonest'
<1>1. PICK ret \in fs_open(Path(n), {}) :
         \/ ret = "ok" /\ answer' = [exists |-> TRUE, was |-> At(Path(n))]
         \/ /\ OpenError(ret) = "file_not_at_path"
            /\ answer' = [exists |-> FALSE, was |-> At(Path(n))]
         \/ UNCHANGED answer
  BY DEF CheckExists
<1>2. CASE ret = "ok" /\ answer' = [exists |-> TRUE, was |-> At(Path(n))]
  <2>1. Path(n) \in Names /\ length[Path(n)] # Absent
    BY <1>2, PathIs DEF fs_open
  <2> QED
    BY <1>2, <2>1 DEF ExistsHonest, At
<1>3. CASE /\ OpenError(ret) = "file_not_at_path"
           /\ answer' = [exists |-> FALSE, was |-> At(Path(n))]
  <2>1. ret = "ENOENT"
    BY <1>3 DEF OpenError
  <2>2. At(Path(n)) = Absent
    BY <2>1, NamesAssumption, PathIs DEF fs_open, At
  <2> QED
    BY <1>3, <2>2 DEF ExistsHonest
<1>4. CASE UNCHANGED answer
  BY <1>4 DEF ExistsHonest
<1> QED
  BY <1>1, <1>2, <1>3, <1>4

LEMMA NextHonest == ExistsHonest /\ [Next]_vars => ExistsHonest'
<1> SUFFICES ASSUME ExistsHonest, [Next]_vars PROVE ExistsHonest'
  OBVIOUS
<1> USE DEF Throw, Failed
<1>1. CASE UNCHANGED vars
  BY <1>1 DEF vars, history, ExistsHonest
<1>2. ASSUME NEW s \in Systems, Construct(s) \/ Destroy(s) PROVE UNCHANGED answer
  BY <1>2 DEF Construct, Destroy
<1>3. ASSUME NEW f \in Files, NEW n \in Asked,
             NEW flags \in Modes, Open(f, n, flags)
      PROVE  UNCHANGED answer
  BY <1>3 DEF Open
<1>4. ASSUME NEW f \in Files, NEW size \in 1..MaxLen, NEW null \in BOOLEAN,
             Write(f, size, null) \/ Read(f, size)
      PROVE  UNCHANGED answer
  BY <1>4 DEF Write, Read
<1>5. ASSUME NEW f \in Files, Close(f) PROVE UNCHANGED answer
  BY <1>5 DEF Close
<1>6. UNCHANGED answer => ExistsHonest'
  BY DEF ExistsHonest
<1> QED
  BY <1>1, <1>2, <1>3, <1>4, <1>5, <1>6, CheckHonest DEF Next

\* A check of existence is never wrong about the file at the path, whatever the
\* file system reports and however the name was cut.
THEOREM Honest == Spec => []ExistsHonest
<1>1. Init => ExistsHonest
  BY DEF Init, ExistsHonest, NoAnswer
<1> QED
  BY <1>1, NextHonest, PTL DEF Spec
=============================================================================
