------------------------------ MODULE BootCount ------------------------------
(***************************************************************************)
(* The littlefs sample (samples/test/src/main.cpp): each run of main mounts *)
(* the flash, adds one to the boot counter in one file, changes the test   *)
(* pattern in another, and unmounts.  Any call may fail, and the power may *)
(* fail between any two of them.                                           *)
(*                                                                         *)
(* littlefs itself is external: what is written to a file gets to the      *)
(* flash when the file is closed, all of it or nothing, and nothing after  *)
(* a write that failed.  A file is the sequence of its blocks, the unit in *)
(* which main reads and writes it: a byte, or the pattern, whole or the    *)
(* first bytes of it.  A file that is not there yet is empty.              *)
(***************************************************************************)
EXTENDS Naturals, Sequences

CONSTANTS
    Byte,       \* values of a uint8_t: 256
    Size,       \* TEST_FILE_SIZE: 547
    Pieces,     \* how many bytes of the pattern a short write may store
    MaxBoots,   \* bound: times the power comes on
    MaxShort    \* bound: short writes of each file

ASSUME ByteAssumption == Byte \in Nat \ {0} /\ Byte % 2 = 0
ASSUME SizeAssumption == Size \in Nat /\ Size > 1
ASSUME PiecesAssumption == Pieces \subseteq 0..(Size - 1)
ASSUME BoundsAssumption == MaxBoots \in Nat /\ MaxShort \in Nat

VARIABLES
    pc,         \* the next call of main, "done" after it, "off" without power
    rc,         \* "ok" or "error": what the last function or call returned
    boot_count, \* the counter in littlefs_increase_infile_value
    file_test_pattern,
    file,       \* the open fs_file_t, or NoFile
    dir,        \* lsdir has the directory open
    mounted,
    flash       \* the blocks of each file

VARIABLES       \* history
    boots,      \* times the power came on
    commits,    \* new contents of each file that got to the flash
    told,       \* runs in which the function on each file returned 0
    short       \* writes of each file that stored less without an error

memory  == <<rc, boot_count, file_test_pattern>>
handles == <<file, dir, mounted>>
history == <<boots, commits, told, short>>
vars    == <<pc, memory, handles, flash, history>>

Files == {"boot_count", "pattern"}
NoFile == [name |-> "", pos |-> 0, data |-> <<>>, state |-> "closed"]
-----------------------------------------------------------------------------
(* The pattern.                                                            *)

Pattern == [0..(Size - 1) -> 0..(Byte - 1)]

\* A static array is zero when the power comes on.
Zeros == [i \in 0..(Size - 1) |-> 0]

\* memset to 0x55, a count in every eighth byte, and 0xAA in the last.
init_pattern ==
    [i \in 0..(Size - 1) |->
        IF i = Size - 1 THEN 170 % Byte
        ELSE IF i % 8 = 0 THEN (i \div 8 + 1) % Byte ELSE 85 % Byte]

\* Mutant: the fill is chosen by the first byte as it is afterwards.
incr_pattern_After(p, inc) ==
    [i \in 0..(Size - 1) |->
        IF i = Size - 1 \/ i % 8 = 0 THEN (p[i] + inc) % Byte
        ELSE IF ((p[0] + inc) % Byte) % 2 = 0 THEN 170 % Byte ELSE 85 % Byte]

\* The counts and the last byte go up, and the bytes between them are filled
\* as the first byte was even or odd before.
incr_pattern(p, inc) ==
    [i \in 0..(Size - 1) |->
        IF i = Size - 1 \/ i % 8 = 0 THEN (p[i] + inc) % Byte
        ELSE IF p[0] % 2 = 0 THEN 170 % Byte ELSE 85 % Byte]
-----------------------------------------------------------------------------
(* The calls of the file system, when they succeed.                        *)

\* The bytes of part, and those of whole behind it.
Over(part, whole) ==
    [i \in DOMAIN part \cup DOMAIN whole |->
        IF i \in DOMAIN part THEN part[i] ELSE whole[i]]

fs_open(f) ==
    file' = [name |-> f, pos |-> 0, data |-> flash[f], state |-> "clean"]

\* There is a block at the position of the open file.
MoreData == file.pos < Len(file.data)

fs_read == file' = [file EXCEPT !.pos = IF MoreData THEN @ + 1 ELSE @]

fs_seek == file' = [file EXCEPT !.pos = 0]

fs_write(block) ==
    file' = [file EXCEPT
        !.pos = @ + 1, !.state = "dirty",
        !.data = IF MoreData THEN [@ EXCEPT ![file.pos + 1] = block]
                             ELSE Append(@, block)]

\* A write may store less than it was given, and return how much: none, or the
\* first k bytes of a block that had, or had not, been there.
fs_write_short(block, k) ==
    LET part == [i \in 0..(k - 1) |-> block[i]]
    IN  IF k = 0 THEN UNCHANGED file
        ELSE file' = [file EXCEPT
            !.pos = @ + 1, !.state = "dirty",
            !.data = IF MoreData
                     THEN [@ EXCEPT ![file.pos + 1] = Over(part, file.data[file.pos + 1])]
                     ELSE Append(@, part)]

\* A write that fails leaves a file that will not be stored.
fs_write_fails == file' = [file EXCEPT !.state = "failed"]

\* Closing a file stores it; when that fails, it may be stored or not.
fs_close(ret) ==
    /\ file' = NoFile
    /\ \/ /\ file.state = "dirty"
          /\ flash' = [flash EXCEPT ![file.name] = file.data]
          /\ commits' = [commits EXCEPT ![file.name] = @ + 1]
       \/ /\ file.state = "dirty" => ret = "error"
          /\ UNCHANGED <<flash, commits>>
-----------------------------------------------------------------------------
Init ==
    /\ pc = "off" /\ rc = "ok"
    /\ boot_count = 0 /\ file_test_pattern = Zeros
    /\ file = NoFile /\ dir = FALSE /\ mounted = FALSE
    /\ flash = [f \in Files |-> <<>>]
    /\ boots = 0
    /\ commits = [f \in Files |-> 0] /\ told = [f \in Files |-> 0]
    /\ short = [f \in Files |-> 0]

PowerUp ==
    /\ pc = "off" /\ boots < MaxBoots
    /\ boots' = boots + 1
    /\ pc' = "mount"
    /\ UNCHANGED <<memory, handles, flash, commits, told, short>>

\* The power may go at any time: what is in memory is gone.
PowerFailure ==
    /\ pc # "off"
    /\ pc' = "off" /\ rc' = "ok"
    /\ boot_count' = 0 /\ file_test_pattern' = Zeros
    /\ file' = NoFile /\ dir' = FALSE /\ mounted' = FALSE
    /\ UNCHANGED <<flash, history>>

\* A call that returns ret, after which main goes on at next, or at otherwise.
Returns(ret, next, otherwise) ==
    /\ rc' = ret
    /\ pc' = IF ret = "ok" THEN next ELSE otherwise

Rets == {"ok", "error"}
-----------------------------------------------------------------------------
\* littlefs_mount, with the flash area that littlefs_flash_erase opens and,
\* without CONFIG_APP_WIPE_STORAGE, does not erase; main ends when it fails.
Mount ==
    /\ pc = "mount"
    /\ \E ret \in Rets : /\ Returns(ret, "statvfs", "done")
                         /\ mounted' = (ret = "ok")
    /\ UNCHANGED <<boot_count, file_test_pattern, file, dir, flash, history>>

Statvfs ==
    /\ pc = "statvfs"
    /\ \E ret \in Rets : Returns(ret, "opendir", "unmount")
    /\ UNCHANGED <<boot_count, file_test_pattern, handles, flash, history>>

\* lsdir: the directory is opened,
OpenDir ==
    /\ pc = "opendir"
    /\ \E ret \in Rets : /\ Returns(ret, "readdir", "unmount")
                         /\ dir' = (ret = "ok")
    /\ UNCHANGED <<boot_count, file_test_pattern, file, mounted, flash, history>>

\* read to its end or to the first error,
ReadDir ==
    /\ pc = "readdir"
    /\ \E ret \in Rets : Returns(ret, "closedir", "closedir")
    /\ UNCHANGED <<boot_count, file_test_pattern, handles, flash, history>>

\* and closed in either case.
CloseDir ==
    /\ pc = "closedir"
    /\ dir' = FALSE
    /\ pc' = IF rc = "ok" THEN "openCount" ELSE "unmount"
    /\ UNCHANGED <<memory, file, mounted, flash, history>>
-----------------------------------------------------------------------------
(* littlefs_increase_infile_value.                                         *)

OpenCount ==
    /\ pc = "openCount"
    /\ boot_count' = 0
    /\ \E ret \in Rets : /\ Returns(ret, "readCount", "unmount")
                         /\ IF ret = "ok" THEN fs_open("boot_count")
                                          ELSE UNCHANGED file
    /\ UNCHANGED <<file_test_pattern, dir, mounted, flash, history>>

\* Mutant: an error returns without the way out that closes the file.
ReadCount_Returns ==
    /\ pc = "readCount"
    /\ Returns("error", "seekCount", "unmount")
    /\ UNCHANGED <<boot_count, file_test_pattern, handles, flash, history>>

\* Nothing is read from an empty file: the counter stays zero.
ReadCount ==
    /\ pc = "readCount"
    /\ \E ret \in Rets :
           /\ Returns(ret, "seekCount", "closeCount")
           /\ IF ret = "ok"
              THEN /\ fs_read
                   /\ boot_count' = IF MoreData THEN file.data[file.pos + 1]
                                                ELSE boot_count
              ELSE UNCHANGED <<file, boot_count>>
    /\ UNCHANGED <<file_test_pattern, dir, mounted, flash, history>>

\* Mutant: the counter is written behind the one that was read.
SeekCount_Skipped ==
    /\ pc = "seekCount"
    /\ Returns("ok", "writeCount", "closeCount")
    /\ UNCHANGED <<boot_count, file_test_pattern, handles, flash, history>>

SeekCount ==
    /\ pc = "seekCount"
    /\ \E ret \in Rets : /\ Returns(ret, "writeCount", "closeCount")
                         /\ IF ret = "ok" THEN fs_seek ELSE UNCHANGED file
    /\ UNCHANGED <<boot_count, file_test_pattern, dir, mounted, flash, history>>

\* The counter is a uint8_t.
WriteCount ==
    /\ pc = "writeCount"
    /\ boot_count' = (boot_count + 1) % Byte
    /\ \E ret \in Rets : /\ Returns(ret, "closeCount", "closeCount")
                         /\ IF ret = "ok" THEN fs_write(boot_count')
                                          ELSE fs_write_fails
    /\ UNCHANGED <<file_test_pattern, dir, mounted, flash, history>>

\* Only an error counts as a failure: a write of nothing passes for a success.
WriteCountShort ==
    /\ pc = "writeCount" /\ short["boot_count"] < MaxShort
    /\ boot_count' = (boot_count + 1) % Byte
    /\ Returns("ok", "closeCount", "closeCount")
    /\ fs_write_short(boot_count', 0)
    /\ short' = [short EXCEPT !["boot_count"] = @ + 1]
    /\ UNCHANGED <<file_test_pattern, dir, mounted, flash, boots, commits, told>>

\* Mutant: what closing returns is returned, whatever happened before.
CloseCount_Forgets ==
    /\ pc = "closeCount"
    /\ \E ret \in Rets :
           /\ fs_close(ret)
           /\ Returns(ret, "openPattern", "unmount")
           /\ told' = [told EXCEPT !["boot_count"] = IF ret = "ok" THEN @ + 1 ELSE @]
    /\ UNCHANGED <<boot_count, file_test_pattern, dir, mounted, boots, short>>

\* The way out of the function closes the file and returns 0 only when no call
\* has failed; main goes on to the pattern only then.
CloseCount ==
    /\ pc = "closeCount"
    /\ \E ret \in Rets :
           /\ fs_close(ret)
           /\ Returns(IF rc = "ok" THEN ret ELSE rc, "openPattern", "unmount")
           /\ told' = [told EXCEPT !["boot_count"] = IF rc' = "ok" THEN @ + 1 ELSE @]
    /\ UNCHANGED <<boot_count, file_test_pattern, dir, mounted, boots, short>>
-----------------------------------------------------------------------------
(* littlefs_binary_file_adj.                                               *)

OpenPattern ==
    /\ pc = "openPattern"
    /\ \E ret \in Rets : /\ Returns(ret, "stat", "unmount")
                         /\ IF ret = "ok" THEN fs_open("pattern")
                                          ELSE UNCHANGED file
    /\ UNCHANGED <<boot_count, file_test_pattern, dir, mounted, flash, history>>

\* fs_stat tells the size of the file on the flash; an empty file gets the
\* first pattern.
Stat ==
    /\ pc = "stat"
    /\ \E ret \in Rets :
           /\ Returns(ret, IF flash["pattern"] = <<>> THEN "seekPattern"
                                                     ELSE "readPattern",
                      "closePattern")
           /\ file_test_pattern' = IF pc' = "seekPattern" THEN init_pattern
                                                          ELSE file_test_pattern
    /\ UNCHANGED <<boot_count, handles, flash, history>>

\* Any other is read, over what the array held, and incremented.
ReadPattern ==
    /\ pc = "readPattern"
    /\ \E ret \in Rets :
           /\ Returns(ret, "seekPattern", "closePattern")
           /\ IF ret = "ok"
              THEN /\ fs_read
                   /\ file_test_pattern' = incr_pattern(
                         IF MoreData THEN Over(file.data[file.pos + 1], file_test_pattern)
                                     ELSE file_test_pattern, 1)
              ELSE UNCHANGED <<file, file_test_pattern>>
    /\ UNCHANGED <<boot_count, dir, mounted, flash, history>>

SeekPattern ==
    /\ pc = "seekPattern"
    /\ \E ret \in Rets : /\ Returns(ret, "writePattern", "closePattern")
                         /\ IF ret = "ok" THEN fs_seek ELSE UNCHANGED file
    /\ UNCHANGED <<boot_count, file_test_pattern, dir, mounted, flash, history>>

WritePattern ==
    /\ pc = "writePattern"
    /\ \E ret \in Rets : /\ Returns(ret, "closePattern", "closePattern")
                         /\ IF ret = "ok" THEN fs_write(file_test_pattern)
                                          ELSE fs_write_fails
    /\ UNCHANGED <<boot_count, file_test_pattern, dir, mounted, flash, history>>

\* And so does a write of a piece of the pattern.
WritePatternShort ==
    /\ pc = "writePattern" /\ short["pattern"] < MaxShort
    /\ Returns("ok", "closePattern", "closePattern")
    /\ \E k \in Pieces : fs_write_short(file_test_pattern, k)
    /\ short' = [short EXCEPT !["pattern"] = @ + 1]
    /\ UNCHANGED <<boot_count, file_test_pattern, dir, mounted, flash, boots, commits, told>>

\* Both ways out of the function lead main to the unmount.
ClosePattern ==
    /\ pc = "closePattern"
    /\ \E ret \in Rets :
           /\ fs_close(ret)
           /\ Returns(IF rc = "ok" THEN ret ELSE rc, "unmount", "unmount")
           /\ told' = [told EXCEPT !["pattern"] = IF rc' = "ok" THEN @ + 1 ELSE @]
    /\ UNCHANGED <<boot_count, file_test_pattern, dir, mounted, boots, short>>

\* The end of main; what fs_unmount returns is only printed.
Unmount ==
    /\ pc = "unmount"
    /\ \E ret \in Rets : /\ Returns(ret, "done", "done")
                         /\ mounted' = (ret # "ok")
    /\ UNCHANGED <<boot_count, file_test_pattern, file, dir, flash, history>>
-----------------------------------------------------------------------------
littlefs_increase_infile_value ==
    \/ OpenCount \/ ReadCount \/ SeekCount
    \/ WriteCount \/ WriteCountShort \/ CloseCount

littlefs_binary_file_adj ==
    \/ OpenPattern \/ Stat \/ ReadPattern \/ SeekPattern
    \/ WritePattern \/ WritePatternShort \/ ClosePattern

main == Mount \/ Statvfs \/ OpenDir \/ ReadDir \/ CloseDir
        \/ littlefs_increase_infile_value \/ littlefs_binary_file_adj \/ Unmount

Next == PowerUp \/ PowerFailure \/ main

Spec == Init /\ [][Next]_vars
-----------------------------------------------------------------------------
(* Properties.                                                             *)

\* The counter on the flash is the number of boots that were counted, in its
\* eight bits; no boot is counted twice, and none goes uncounted whose increase
\* returned 0, whatever fails and whenever the power goes, but for those whose
\* write stored nothing without an error (main.cpp:70-114).
BootsCounted ==
    /\ flash["boot_count"] = IF commits["boot_count"] = 0 THEN <<>>
                             ELSE <<commits["boot_count"] % Byte>>
    /\ told["boot_count"] <= commits["boot_count"] + short["boot_count"]
    /\ commits["boot_count"] <= boots

\* The pattern after n increments of the first one.
PatternAfter(n) ==
    [i \in 0..(Size - 1) |->
        IF i = Size - 1 THEN (170 + n) % Byte
        ELSE IF i % 8 = 0 THEN (i \div 8 + 1 + n) % Byte
        ELSE IF n = 0 \/ n % 2 = 1 THEN 85 % Byte ELSE 170 % Byte]

\* As long as no write of it was short, the pattern on the flash is a whole one,
\* incremented once for each time that it was stored, from the first one on; and
\* no change of it that returned 0 is missing (main.cpp:116-146, 173-236).
PatternWhole ==
    /\ short["pattern"] = 0 =>
           flash["pattern"] = IF commits["pattern"] = 0 THEN <<>>
                              ELSE <<PatternAfter(commits["pattern"] - 1)>>
    /\ told["pattern"] <= commits["pattern"] + short["pattern"]

\* The pattern never gets ahead of the counter: it changes only in a boot that
\* was counted, or whose counter was written short (main.cpp:347-355).
PatternFollowsCount ==
    commits["pattern"] <= commits["boot_count"] + short["boot_count"]

\* Every way through main closes what it has opened before it unmounts, and
\* main never ends with the flash mounted unless the unmount failed.
NothingLeftOpen ==
    /\ pc \in {"unmount", "done"} => file = NoFile /\ ~dir
    /\ pc = "unmount" => mounted
    /\ pc = "done" /\ mounted => rc = "error"
=============================================================================
