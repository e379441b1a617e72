----------------------------- MODULE FileSystem -----------------------------
(***************************************************************************)
(* ZFileSystem and ZFile (subsys/file_system/file_system.cpp): objects     *)
(* that own a mount and an open file, and throw what the calls of Zephyr's *)
(* file system report.                                                     *)
(*                                                                         *)
(* The file system itself is external: a call may fail with any error that *)
(* the state allows, and with an input/output error at any time.  A file   *)
(* is its length.  What is written stays in the handle, as littlefs does,  *)
(* and is stored when the handle is closed.                                *)
(***************************************************************************)
EXTENDS Integers, FiniteSets

CONSTANTS
    Systems,    \* ZFileSystem objects on one mount point
    Files,      \* ZFile objects
    Names,      \* names of files
    Dirs,       \* names that are directories
    Nowhere,    \* names in directories that do not exist
    Cut,        \* [names too long for file_path -> what is left of them in it]
    Modes,      \* the flags that callers open files with
    MaxOpen,    \* file handles the file system has (its pool)
    MaxLen      \* bytes a file can have

ASSUME NamesAssumption ==
    /\ IsFiniteSet(Systems) /\ IsFiniteSet(Files)
    /\ Names \cap Dirs = {} /\ Nowhere \cap (Names \cup Dirs) = {}
    /\ "" \notin Names

ASSUME CutAssumption ==
    /\ Cut \in [DOMAIN Cut -> Names \cup Dirs \cup Nowhere]
    /\ DOMAIN Cut \cap (Names \cup Dirs \cup Nowhere) = {}

ASSUME ModesAssumption ==
    Modes \subseteq SUBSET {"Read", "Write", "Create", "Append"}

ASSUME LimitsAssumption == MaxOpen \in Nat /\ MaxLen \in Nat

VARIABLES
    mounted,    \* the mount point is mounted
    system,     \* [Systems -> "none" or "alive"]
    file,       \* [Files -> NoFile or an open fs_file_t]
    opened,     \* handles that the file system has open
    length      \* [Names -> length, or Absent]

VARIABLES       \* history
    thrown,     \* FileSystemError of the last call, "none" if it returned
    answer,     \* what check_file_exists last said, and what was there
    stuck,      \* an unmount has failed
    lost,       \* handles that a failing close has kept
    told,       \* [Files -> position, as the caller counts it: by what it asked
                \* for when a call returned, anew when it threw]
    acked,      \* [Files -> end of the last byte that a write acknowledged]
    kept        \* [Names -> the furthest such end of a ZFile that was closed in
                \* good order]

objects == <<system, file>>
disk    == <<mounted, opened, length>>
history == <<thrown, answer, stuck, lost, told, acked, kept>>
vars    == <<objects, disk, history>>

Absent == -1
NoFile == [name |-> "", flags |-> {}, pos |-> 0, size |-> 0, sound |-> FALSE]
NoAnswer == [exists |-> FALSE, was |-> Absent]

Flags == {"Read", "Write", "Create", "Append"}
Errors == {"none", "invalid_arg", "already_mounted", "fs_type_not_supported",
           "fs_type_not_registered", "invalid_filename", "busy",
           "path_is_directory", "file_not_at_path", "bad_data",
           "uncompleted_write", "uncompleted_read", "fs_not_available",
           "operation_not_supported", "file_not_open_for_write",
           "file_not_open_for_read", "unknown"}

\* size is the length of the file as the handle has it; the handle is sound
\* while no call on it has failed and its mount is there.
OpenFile == [name : Names, flags : SUBSET Flags, pos : 0..MaxLen,
             size : 0..MaxLen, sound : BOOLEAN]

TypeOK ==
    /\ mounted \in BOOLEAN /\ opened \in Nat
    /\ system \in [Systems -> {"none", "alive"}]
    /\ file \in [Files -> OpenFile \cup {NoFile}]
    /\ length \in [Names -> Absent..MaxLen]
    /\ thrown \in Errors /\ stuck \in BOOLEAN /\ lost \in Nat
    /\ told \in [Files -> Nat] /\ acked \in [Files -> Nat]
    /\ kept \in [Names -> Nat]

Init ==
    /\ mounted = FALSE /\ opened = 0
    /\ system = [s \in Systems |-> "none"]
    /\ file = [f \in Files |-> NoFile]
    /\ length = [n \in Names |-> Absent]
    /\ thrown = "none" /\ answer = NoAnswer
    /\ stuck = FALSE /\ lost = 0
    /\ told = [f \in Files |-> 0] /\ acked = [f \in Files |-> 0]
    /\ kept = [n \in Names |-> 0]

IsOpen(f) == file[f] # NoFile
OpenFiles == {f \in Files : IsOpen(f)}
Alive == {s \in Systems : system[s] = "alive"}
-----------------------------------------------------------------------------
(* What the calls of the file system may return: "ok" or an errno.         *)

fs_mount == IF mounted THEN {"EBUSY"}
            ELSE {"ok", "ENOENT", "EINVAL", "ENOTSUP", "EIO"}

\* The errors of the state come first, then those of the device.  Creating a
\* file does not create its directory.
fs_open(path, flags) ==
    CASE path \in Dirs -> {"EISDIR"}
      [] path \in Nowhere -> {"ENOENT", "EIO"}
      [] path \in Names /\ opened >= MaxOpen -> {"ENOMEM"}
      [] OTHER -> IF length[path] = Absent /\ "Create" \notin flags
                  THEN {"ENOENT", "EIO"} ELSE {"ok", "EIO", "EBUSY", "EINVAL"}

\* A close that fails may leave the handle taken, and may have stored what was
\* written or not; back says that the handle is free again.
fs_close == [ok : {TRUE}, back : {TRUE}] \cup [ok : {FALSE}, back : BOOLEAN]

\* What the code makes of an errno.
MountError(err) ==
    CASE err = "ENOENT"  -> "fs_type_not_registered"
      [] err = "EINVAL"  -> "invalid_arg"
      [] err = "EBUSY"   -> "already_mounted"
      [] err = "ENOTSUP" -> "fs_type_not_supported"
      [] OTHER           -> "unknown"

OpenError(err) ==
    CASE err = "ENOENT" -> "file_not_at_path"
      [] err = "EISDIR" -> "path_is_directory"
      [] err = "EBUSY"  -> "busy"
      [] err = "EINVAL" -> "invalid_filename"
      [] OTHER          -> "unknown"

TransferError(err) ==
    CASE err = "EBADF"   -> "fs_not_available"
      [] err = "ENOTSUP" -> "operation_not_supported"
      [] OTHER           -> "unknown"

has_flag(value, flag) == flag \in value

Throw(err) == thrown' = err /\ UNCHANGED <<answer, stuck, lost, told, acked, kept>>

\* The path of a name: file_path holds 255 characters and drops the others.
Path(n) == IF n \in DOMAIN Cut THEN Cut[n] ELSE n
Asked == Names \cup Dirs \cup Nowhere \cup DOMAIN Cut

\* The file at a path: its length, or Absent.
At(path) == IF path \in Names THEN length[path] ELSE Absent
-----------------------------------------------------------------------------
(* ZFileSystem.                                                            *)

\* Mutant: a constructor that keeps the object although it could not mount.
Construct_NoThrow(s) ==
    /\ system[s] = "none"
    /\ \E ret \in fs_mount :
           /\ mounted' = (mounted \/ ret = "ok")
           /\ system' = [system EXCEPT ![s] = "alive"]
           /\ Throw("none")
    /\ UNCHANGED <<file, opened, length>>

\* The constructor mounts, or throws; an object that was not constructed is
\* never destroyed, so a failed mount does not unmount what another one owns.
Construct(s) ==
    /\ system[s] = "none"
    /\ \E ret \in fs_mount :
           IF ret = "ok"
           THEN /\ mounted' = TRUE
                /\ system' = [system EXCEPT ![s] = "alive"]
                /\ Throw("none")
           ELSE Throw(MountError(ret)) /\ UNCHANGED <<mounted, system>>
    /\ UNCHANGED <<file, opened, length>>

\* The destructor unmounts, and nobody hears of an unmount that fails: the
\* mount then stays.  A ZFile that is still open outlives its mount.
Destroy(s) ==
    /\ system[s] = "alive"
    /\ system' = [system EXCEPT ![s] = "none"]
    /\ \E ok \in BOOLEAN :
           /\ mounted' = ~ok
           /\ stuck' = (stuck \/ ~ok)
           /\ file' = IF ok THEN [f \in Files |-> IF IsOpen(f)
                                          THEN [file[f] EXCEPT !.sound = FALSE]
                                          ELSE NoFile]
                      ELSE file
    /\ thrown' = "none"
    /\ UNCHANGED <<opened, length, answer, lost, told, acked, kept>>

\* Mutant: a check that takes every error for a missing file.
CheckExists_AnyError(n) ==
    /\ Alive # {}
    /\ \E ret \in fs_open(Path(n), {}) :
           /\ thrown' = "none"
           /\ answer' = [exists |-> ret = "ok", was |-> At(Path(n))]
    /\ UNCHANGED <<objects, disk, stuck, lost, told, acked, kept>>

\* Mutant: a check that does not close the file that it has opened.
CheckExists_NoClose(n) ==
    /\ Alive # {}
    /\ \E ret \in fs_open(Path(n), {}) :
           IF ret = "ok" \/ OpenError(ret) = "file_not_at_path"
           THEN /\ thrown' = "none"
                /\ answer' = [exists |-> ret = "ok", was |-> At(Path(n))]
                /\ opened' = IF ret = "ok" THEN opened + 1 ELSE opened
           ELSE thrown' = OpenError(ret) /\ UNCHANGED <<answer, opened>>
    /\ UNCHANGED <<objects, mounted, length, stuck, lost, told, acked, kept>>

\* check_file_exists opens the file without any flag and closes it again,
\* whatever the close says; only file_not_at_path means that there is none,
\* every other error is thrown.
CheckExists(n) ==
    /\ Alive # {}
    /\ \E ret \in fs_open(Path(n), {}) :
           \/ /\ ret = "ok"
              /\ thrown' = "none"
              /\ answer' = [exists |-> TRUE, was |-> At(Path(n))]
              /\ \E close \in fs_close :
                     /\ opened' = IF close.back THEN opened ELSE opened + 1
                     /\ lost' = IF close.back THEN lost ELSE lost + 1
           \/ /\ OpenError(ret) = "file_not_at_path"
              /\ thrown' = "none"
              /\ answer' = [exists |-> FALSE, was |-> At(Path(n))]
              /\ UNCHANGED <<opened, lost>>
           \/ /\ ret # "ok" /\ OpenError(ret) # "file_not_at_path"
              /\ thrown' = OpenError(ret)
              /\ UNCHANGED <<answer, opened, lost>>
    /\ UNCHANGED <<objects, mounted, length, stuck, told, acked, kept>>

\* ZFileSystem::open_file: the constructor of ZFile opens, or throws.  A ZFile
\* is the only one on its file, as in the tests: what two at once see of each
\* other is the file system's affair.
Open(f, n, flags) ==
    /\ Alive # {} /\ ~IsOpen(f)
    /\ \A g \in Files : IsOpen(g) => file[g].name # Path(n)
    /\ \E ret \in fs_open(Path(n), flags) :
           IF ret = "ok"
           THEN LET len == IF At(Path(n)) = Absent THEN 0 ELSE At(Path(n))
                IN  /\ file' = [file EXCEPT ![f] =
                                   [name |-> Path(n), flags |-> flags, pos |-> 0,
                                    size |-> len, sound |-> TRUE]]
                    /\ length' = [length EXCEPT ![Path(n)] = len]
                    /\ opened' = opened + 1
                    /\ thrown' = "none"
                    /\ told' = [told EXCEPT ![f] = 0]
                    /\ acked' = [acked EXCEPT ![f] = 0]
                    /\ UNCHANGED <<answer, stuck, lost, kept>>
           ELSE Throw(OpenError(ret)) /\ UNCHANGED <<file, opened, length>>
    /\ UNCHANGED <<system, mounted>>
-----------------------------------------------------------------------------
(* ZFile.                                                                  *)

Larger(x, y) == IF x > y THEN x ELSE y

\* Where fs_write puts its first byte.
WritePos(f) == IF "Append" \in file[f].flags THEN file[f].size ELSE file[f].pos

\* The handle after fs_write has taken k bytes.
Taken(f, k) ==
    LET e == WritePos(f) + k
    IN  file' = [file EXCEPT ![f].pos = e, ![f].size = Larger(e, @)]

\* A transfer that fails: the caller hears of it, and what the close makes of
\* the handle is open.
Failed(f) ==
    /\ \E err \in {"EBADF", "ENOTSUP", "EIO"} : Throw(TransferError(err))
    /\ file' = [file EXCEPT ![f].sound = FALSE]

\* Mutant: a write that does not compare what was written with what was asked.
Write_ShortOk(f, size, null) ==
    /\ IsOpen(f) /\ has_flag(file[f].flags, "Write") /\ ~null
    /\ WritePos(f) + size <= MaxLen
    /\ \E k \in 0..size : Taken(f, k)
    /\ thrown' = "none"
    /\ told' = [told EXCEPT ![f] = WritePos(f) + size]
    /\ acked' = [acked EXCEPT ![f] = Larger(WritePos(f) + size, @)]
    /\ UNCHANGED <<system, disk, answer, stuck, lost, kept>>

\* write: the flags and the pointer are checked first; then fs_write fails, or
\* takes some of the bytes, which throws although they stay taken, or all.
Write(f, size, null) ==
    /\ IsOpen(f)
    /\ \/ /\ ~has_flag(file[f].flags, "Write")
          /\ Throw("file_not_open_for_write") /\ UNCHANGED file
       \/ /\ has_flag(file[f].flags, "Write") /\ null
          /\ Throw("bad_data") /\ UNCHANGED file
       \/ /\ has_flag(file[f].flags, "Write") /\ ~null
          /\ Failed(f)
       \/ /\ has_flag(file[f].flags, "Write") /\ ~null
          /\ WritePos(f) + size <= MaxLen
          /\ \E k \in 0..size :
                 /\ Taken(f, k)
                 /\ thrown' = IF k = size THEN "none" ELSE "uncompleted_write"
                 /\ told' = [told EXCEPT ![f] = WritePos(f) + k]
                 /\ acked' = IF k < size THEN acked
                             ELSE [acked EXCEPT ![f] = Larger(WritePos(f) + size, @)]
          /\ UNCHANGED <<answer, stuck, lost, kept>>
    /\ UNCHANGED <<system, disk>>

\* The bytes that are left to read for f.
Left(f) == IF file[f].size > file[f].pos THEN file[f].size - file[f].pos ELSE 0

\* The position after k bytes have been read through f, of which the caller
\* counts n.
Got(f, k, n) ==
    /\ file' = [file EXCEPT ![f].pos = @ + k]
    /\ told' = [told EXCEPT ![f] = @ + n]

\* Mutant: a read that returns what there was.
Read_ShortOk(f, size) ==
    /\ IsOpen(f) /\ has_flag(file[f].flags, "Read")
    /\ \E k \in 0..size : k <= Left(f) /\ Got(f, k, size)
    /\ thrown' = "none"
    /\ UNCHANGED <<system, disk, answer, stuck, lost, acked, kept>>

\* read: the flags are checked; then fs_read fails, or reads less than asked,
\* which throws although the position has moved, or all of it.
Read(f, size) ==
    /\ IsOpen(f)
    /\ \/ /\ ~has_flag(file[f].flags, "Read")
          /\ Throw("file_not_open_for_read") /\ UNCHANGED file
       \/ /\ has_flag(file[f].flags, "Read")
          /\ Failed(f)
       \/ /\ has_flag(file[f].flags, "Read")
          /\ \E k \in 0..size :
                 /\ k <= Left(f)
                 /\ Got(f, k, k)
                 /\ thrown' = IF k = size THEN "none" ELSE "uncompleted_read"
          /\ UNCHANGED <<answer, stuck, lost, acked, kept>>
    /\ UNCHANGED <<system, disk>>

\* The destructor closes the file, whatever the close says.  A sound handle is
\* stored by a close that succeeds; otherwise it may be stored or not.
Close(f) ==
    /\ IsOpen(f)
    /\ \E close \in fs_close, stored \in BOOLEAN :
           LET n == file[f].name
               good == close.ok /\ file[f].sound
           IN  /\ good => stored
               /\ length' = [length EXCEPT ![n] = IF stored THEN file[f].size ELSE @]
               /\ kept' = [kept EXCEPT ![n] = IF good THEN Larger(acked[f], @) ELSE @]
               /\ opened' = IF close.back THEN opened - 1 ELSE opened
               /\ lost' = IF close.back THEN lost ELSE lost + 1
    /\ file' = [file EXCEPT ![f] = NoFile]
    /\ told' = [told EXCEPT ![f] = 0] /\ acked' = [acked EXCEPT ![f] = 0]
    /\ thrown' = "none"
    /\ UNCHANGED <<system, mounted, answer, stuck>>
-----------------------------------------------------------------------------
Next ==
    \/ \E s \in Systems : Construct(s) \/ Destroy(s)
    \/ \E n \in Asked : CheckExists(n)
    \/ \E f \in Files, n \in Asked, flags \in Modes : Open(f, n, flags)
    \/ \E f \in Files, size \in 1..MaxLen, null \in BOOLEAN : Write(f, size, null)
    \/ \E f \in Files, size \in 1..MaxLen : Read(f, size)
    \/ \E f \in Files : Close(f)

Spec == Init /\ [][Next]_vars
-----------------------------------------------------------------------------
(* Properties.                                                             *)

\* At most one ZFileSystem is alive, and it has the mount: one that fails to
\* mount does not come to life and takes nothing from the one that has it.  A
\* mount is left without an owner only by an unmount that failed, whose result
\* the destructor ignores (file_system.cpp:70).
MountOwned ==
    /\ Cardinality(Alive) <= 1
    /\ Alive # {} => mounted
    /\ mounted /\ Alive = {} => stuck

\* No handle leaks by the program: on every path, thrown or not, also of ZFiles
\* that outlive their mount, the handles that are taken are those of the live
\* ZFile objects and those that a failing close has kept (file_system.cpp:64,
\* 196).
HandlesBalanced == opened = Cardinality(OpenFiles) + lost

\* check_file_exists says true of an existing file and false of a missing one,
\* and when it cannot tell it throws.  The file is the one at the path, which
\* for a name that does not fit in the path is another one.
ExistsHonest == answer.exists <=> answer.was # Absent

\* A caller that is not told of an error has all its bytes.  Through a ZFile on
\* which no call failed, the caller knows the position, and what was
\* acknowledged is in the file, also when the device took or delivered only
\* some of the bytes (file_system.cpp:113-116, 144-147); once such a ZFile has
\* been closed without error the bytes are stored, and no later ZFile on the
\* file, whatever fails on it, loses them.  The destructor tells nobody of a
\* close that fails (file_system.cpp:196): those bytes are not promised.
AckedBytesStored ==
    /\ \A n \in Names : kept[n] > 0 => kept[n] <= length[n]
    /\ \A f \in OpenFiles : file[f].sound =>
           told[f] = file[f].pos /\ acked[f] <= file[f].size
=============================================================================
