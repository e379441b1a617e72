-------------------------- MODULE BootCount_proof --------------------------
(* Proofs about BootCount, for any even number of values of a byte, any    *)
(* size of the pattern, and any number of boots and of short writes.       *)
EXTENDS BootCount, Integers, TLAPS

CountPcs   == {"readCount", "seekCount", "writeCount", "closeCount"}
PatternPcs == {"stat", "readPattern", "seekPattern", "writePattern", "closePattern"}
EarlyPcs   == {"mount", "statvfs", "opendir", "readdir", "closedir", "openCount"}
OtherPcs   == {"off", "openPattern", "unmount", "done"}

\* Files, directory and flash are open in the stretch of main that opens them.
HandleInv ==
    /\ pc \in CountPcs \cup PatternPcs \cup EarlyPcs \cup OtherPcs
    /\ pc \notin CountPcs \cup PatternPcs => file = NoFile
    /\ pc \notin {"readdir", "closedir"} => ~dir
    /\ pc \notin {"off", "mount", "done"} => mounted
    /\ pc = "done" /\ mounted => rc = "error"

\* The counts only move in their order: boot, counter, pattern.  A write that
\* was short stands in for what it did not store.
TallyInv ==
    /\ boots \in Nat
    /\ commits \in [Files -> Nat] /\ told \in [Files -> Nat]
    /\ short \in [Files -> Nat]
    /\ \A f \in Files : told[f] <= commits[f] + short[f]
    /\ commits["boot_count"] <= boots
    /\ commits["pattern"] <= commits["boot_count"] + short["boot_count"]
    /\ pc \in EarlyPcs \cup CountPcs => commits["boot_count"] < boots
    /\ pc \in PatternPcs \cup {"openPattern"} =>
           commits["pattern"] < commits["boot_count"] + short["boot_count"]

Counts(n) == IF n = 0 THEN <<>> ELSE <<n % Byte>>
Patterns(n) == IF n = 0 THEN <<>> ELSE <<PatternAfter(n - 1)>>

\* What is on the flash is what was stored there last; the pattern only as long
\* as none was cut short.
FlashInv ==
    /\ flash = [f \in Files |-> flash[f]]
    /\ flash["boot_count"] = Counts(commits["boot_count"])
    /\ short["pattern"] = 0 => flash["pattern"] = Patterns(commits["pattern"])

\* An open file as fs_open left it, at position n.
Clean(f, n) == file = [name |-> f, pos |-> n, data |-> flash[f], state |-> "clean"]

\* How far the counter has come.
CountInv ==
    /\ pc = "readCount" => Clean("boot_count", 0) /\ boot_count = 0
    /\ pc = "seekCount" => \E n \in 0..1 : Clean("boot_count", n)
    /\ pc = "writeCount" => Clean("boot_count", 0)
    /\ pc \in {"seekCount", "writeCount"} =>
           boot_count = commits["boot_count"] % Byte
    /\ pc = "closeCount" =>
           /\ file.name = "boot_count"
           /\ file.state = "dirty" => file.data = Counts(commits["boot_count"] + 1)
           /\ rc = "ok" /\ file.state # "dirty" =>
                  /\ told["boot_count"] < commits["boot_count"] + short["boot_count"]
                  /\ commits["pattern"] < commits["boot_count"] + short["boot_count"]

\* How far the pattern has come.
PatternInv ==
    /\ pc \in {"stat", "readPattern"} => Clean("pattern", 0)
    /\ pc = "seekPattern" => \E n \in 0..1 : Clean("pattern", n)
    /\ pc = "writePattern" => Clean("pattern", 0)
    /\ pc = "closePattern" =>
           /\ file.name = "pattern"
           /\ rc = "ok" /\ file.state # "dirty" =>
                  told["pattern"] < commits["pattern"] + short["pattern"]

\* What it is, if none was cut short.
ContentInv ==
    short["pattern"] = 0 =>
        /\ pc = "readPattern" => commits["pattern"] # 0
        /\ pc \in {"seekPattern", "writePattern"} =>
               file_test_pattern = PatternAfter(commits["pattern"])
        /\ pc = "closePattern" /\ file.state = "dirty" =>
               file.data = Patterns(commits["pattern"] + 1)

IInv == HandleInv /\ TallyInv /\ FlashInv /\ CountInv /\ PatternInv /\ ContentInv

USE DEF memory, handles, history, vars
-----------------------------------------------------------------------------
(* Arithmetic of bytes.                                                    *)

LEMMA ModUnique ==
  ASSUME NEW n \in Nat, n > 0, NEW p \in Int, NEW q \in Int,
         NEW r \in 0..(n - 1), NEW s \in 0..(n - 1), n * p + r = n * q + s
  PROVE  r = s
<1>1. n * (p - q) = s - r
  OBVIOUS
<1>2. CASE p - q >= 1
  <2>1. n * (p - q) >= n * 1
    BY <1>2
  <2> QED
    BY <1>1, <2>1
<1>3. CASE p - q <= -1
  <2>1. n * (p - q) <= n * (-1)
    BY <1>3
  <2> QED
    BY <1>1, <2>1
<1>4. CASE p = q
  BY <1>4
<1> QED
  BY <1>2, <1>3, <1>4

LEMMA DivMod ==
  ASSUME NEW n \in Nat, n > 0, NEW a \in Nat
  PROVE  a = n * (a \div n) + (a % n) /\ a \div n \in Nat /\ a % n \in 0..(n - 1)
OBVIOUS
LEMMA ModStep ==
  ASSUME NEW n \in Nat, n > 0, NEW a \in Nat
  PROVE  ((a % n) + 1) % n = (a + 1) % n
<1> DEFINE q == a \div n  r == a % n  p == (a + 1) \div n  s == (a + 1) % n
           t == (r + 1) \div n  u == (r + 1) % n
<1>1. a = n * q + r /\ q \in Nat /\ r \in 0..(n - 1)
  BY DivMod
<1>2. a + 1 = n * p + s /\ p \in Nat /\ s \in 0..(n - 1)
  <2>1. a + 1 \in Nat
    OBVIOUS
  <2> QED
    BY <2>1, DivMod
<1>3. r + 1 = n * t + u /\ t \in Nat /\ u \in 0..(n - 1)
  <2>1. r + 1 \in Nat
    BY <1>1
  <2> HIDE DEF r
  <2> QED
    BY <2>1, DivMod
<1> HIDE DEF q, r, p, s, t, u
<1>4. n * (q + t) + u = n * p + s
  <2>1. n * (q + t) = n * q + n * t
    BY <1>1, <1>3
  <2>2. n * q \in Int /\ n * t \in Int /\ n * p \in Int
    BY <1>1, <1>2, <1>3
  <2> QED
    BY <1>1, <1>2, <1>3, <2>1, <2>2
<1>5. u = s
  BY <1>1, <1>2, <1>3, <1>4, ModUnique
<1> QED
  BY <1>5 DEF u, s, r

\* A remainder by an even number is as even or odd as the number.
LEMMA ModParity ==
  ASSUME NEW n \in Nat, n > 0, n % 2 = 0, NEW a \in Nat
  PROVE  (a % n) % 2 = a % 2
<1>1. a = n * (a \div n) + (a % n) /\ a \div n \in Nat /\ a % n \in Nat
  BY DivMod
<1>2. PICK h \in Nat : n = 2 * h
  <2>1. n = 2 * (n \div 2) /\ n \div 2 \in Nat
    OBVIOUS
  <2> QED
    BY <2>1
<1>3. n * (a \div n) = 2 * (h * (a \div n)) /\ h * (a \div n) \in Nat
  BY <1>1, <1>2
<1> DEFINE m == h * (a \div n)  r == a % n
<1>4. a = 2 * m + r /\ m \in Nat /\ r \in Nat
  BY <1>1, <1>3
<1> HIDE DEF m, r
<1>5. r % 2 = a % 2
  BY <1>4
<1> QED
  BY <1>5 DEF r

\* A file of one block, and what a write makes of it or of an empty one.
LEMMA Blocks ==
  ASSUME NEW x, NEW b
  PROVE  /\ Len(<<>>) = 0 /\ Append(<<>>, b) = <<b>>
         /\ Len(<<x>>) = 1 /\ <<x>>[1] = x /\ [<<x>> EXCEPT ![1] = b] = <<b>>
OBVIOUS

LEMMA Bytes == Byte \in Nat /\ Byte > 0 /\ Byte % 2 = 0
BY ByteAssumption

\* The first pattern is the one after no increment.
LEMMA FirstPattern == init_pattern = PatternAfter(0)
<1>1. ASSUME NEW i \in 0..(Size - 1)
      PROVE  init_pattern[i] = PatternAfter(0)[i]
  <2>1. 170 + 0 = 170 /\ i \div 8 + 1 + 0 = i \div 8 + 1
    BY SizeAssumption
  <2> QED
    BY <2>1 DEF init_pattern, PatternAfter
<1> QED
  BY <1>1 DEF init_pattern, PatternAfter

\* Incrementing a pattern gives the next one: its fill, chosen by the first byte
\* of the old pattern, alternates.
LEMMA NextPattern ==
  ASSUME NEW n \in Nat
  PROVE  incr_pattern(PatternAfter(n), 1) = PatternAfter(n + 1)
<1> DEFINE old == PatternAfter(n)
<1>1. 0 \in 0..(Size - 1) /\ 0 # Size - 1 /\ 0 % 8 = 0 /\ 0 \div 8 = 0
  BY SizeAssumption
<1>2. old[0] = (1 + n) % Byte
  BY <1>1 DEF PatternAfter
<1>3. old[0] % 2 = (1 + n) % 2
  BY <1>2, Bytes, ModParity
<1>4. ASSUME NEW i \in 0..(Size - 1)
      PROVE  incr_pattern(old, 1)[i] = PatternAfter(n + 1)[i]
  <2>1. CASE i = Size - 1
    <3>1. old[i] = (170 + n) % Byte /\ incr_pattern(old, 1)[i] = (old[i] + 1) % Byte
      BY <2>1 DEF PatternAfter, incr_pattern
    <3>2. PatternAfter(n + 1)[i] = (170 + (n + 1)) % Byte
      BY <2>1 DEF PatternAfter
    <3>3. 170 + n \in Nat /\ (170 + n) + 1 = 170 + (n + 1)
      OBVIOUS
    <3>4. (((170 + n) % Byte) + 1) % Byte = ((170 + n) + 1) % Byte
      BY <3>3, Bytes, ModStep
    <3> QED
      BY <3>1, <3>2, <3>3, <3>4
  <2>2. CASE i # Size - 1 /\ i % 8 = 0
    <3>1. old[i] = (i \div 8 + 1 + n) % Byte
          /\ incr_pattern(old, 1)[i] = (old[i] + 1) % Byte
      BY <2>2 DEF PatternAfter, incr_pattern
    <3>2. PatternAfter(n + 1)[i] = (i \div 8 + 1 + (n + 1)) % Byte
      BY <2>2 DEF PatternAfter
    <3>3. i \div 8 + 1 + n \in Nat /\ (i \div 8 + 1 + n) + 1 = i \div 8 + 1 + (n + 1)
      BY SizeAssumption
    <3> QED
      BY <3>1, <3>2, <3>3, Bytes, ModStep
  <2>3. CASE i # Size - 1 /\ i % 8 # 0
    <3>1. incr_pattern(old, 1)[i] = IF (1 + n) % 2 = 0 THEN 170 % Byte ELSE 85 % Byte
      BY <1>3, <2>3 DEF incr_pattern
    <3>2. PatternAfter(n + 1)[i] = IF n + 1 = 0 \/ (n + 1) % 2 = 1
                                   THEN 85 % Byte ELSE 170 % Byte
      BY <2>3 DEF PatternAfter
    <3>3. n + 1 # 0 /\ (1 + n = n + 1) /\ ((n + 1) % 2 = 0 \/ (n + 1) % 2 = 1)
      OBVIOUS
    <3> QED
      BY <3>1, <3>2, <3>3
  <2> QED
    BY <2>1, <2>2, <2>3
<1> QED
  BY <1>4 DEF incr_pattern, PatternAfter

LEMMA OneMore ==
  ASSUME NEW a \in Nat, NEW b \in Nat, NEW c \in Nat, a <= b + c
  PROVE  a < b + (c + 1)
OBVIOUS

\* A whole pattern covers what the array held.
LEMMA Overlay ==
  ASSUME NEW n, NEW g
  PROVE  incr_pattern(Over(PatternAfter(n), g), 1) = incr_pattern(PatternAfter(n), 1)
<1>1. ASSUME NEW i \in 0..(Size - 1)
      PROVE  Over(PatternAfter(n), g)[i] = PatternAfter(n)[i]
  BY <1>1 DEF PatternAfter, Over
<1>2. 0 \in 0..(Size - 1)
  BY SizeAssumption
<1>3. Over(PatternAfter(n), g)[0] = PatternAfter(n)[0]
  BY <1>1, <1>2
<1> QED
  BY <1>1, <1>3 DEF incr_pattern
-----------------------------------------------------------------------------
(* What is open.                                                           *)

LEMMA HandlesKept == ASSUME HandleInv, Next PROVE HandleInv'
<1> USE DEF HandleInv, CountPcs, PatternPcs, EarlyPcs, OtherPcs
<1>1. CASE PowerUp
  BY <1>1 DEF PowerUp, Returns, Rets
<1>2. CASE PowerFailure
  BY <1>2 DEF PowerFailure, Returns, Rets
<1>3. CASE Mount
  BY <1>3 DEF Mount, Returns, Rets
<1>4. CASE Statvfs
  BY <1>4 DEF Statvfs, Returns, Rets
<1>5. CASE OpenDir
  BY <1>5 DEF OpenDir, Returns, Rets
<1>6. CASE ReadDir
  BY <1>6 DEF ReadDir, Returns, Rets
<1>7. CASE CloseDir
  BY <1>7 DEF CloseDir, Returns, Rets
<1>8. CASE OpenCount
  BY <1>8 DEF OpenCount, Returns, Rets
<1>9. CASE ReadCount
  BY <1>9 DEF ReadCount, Returns, Rets
<1>10. CASE SeekCount
  BY <1>10 DEF SeekCount, Returns, Rets
<1>11. CASE WriteCount
  BY <1>11 DEF WriteCount, Returns, Rets
<1>12. CASE CloseCount
  BY <1>12 DEF CloseCount, Returns, Rets, fs_close
<1>13. CASE OpenPattern
  BY <1>13 DEF OpenPattern, Returns, Rets
<1>14. CASE Stat
  BY <1>14 DEF Stat, Returns, Rets
<1>15. CASE ReadPattern
  BY <1>15 DEF ReadPattern, Returns, Rets
<1>16. CASE SeekPattern
  BY <1>16 DEF SeekPattern, Returns, Rets
<1>17. CASE WritePattern
  BY <1>17 DEF WritePattern, Returns, Rets
<1>18. CASE ClosePattern
  BY <1>18 DEF ClosePattern, Returns, Rets, fs_close
<1>19. CASE Unmount
  BY <1>19 DEF Unmount, Returns, Rets
<1>20. CASE WriteCountShort
  BY <1>20 DEF WriteCountShort, Returns
<1>21. CASE WritePatternShort
  BY <1>21 DEF WritePatternShort, Returns
<1> QED
  BY <1>1, <1>2, <1>3, <1>4, <1>5, <1>6, <1>7, <1>8, <1>9, <1>10, <1>11, <1>12, <1>13, <1>14, <1>15, <1>16, <1>17, <1>18, <1>19,
     <1>20, <1>21
     DEF Next, main, littlefs_increase_infile_value,
                 littlefs_binary_file_adj

-----------------------------------------------------------------------------
(* The tally.                                                              *)

\* What a function that returns 0 has stored is told once, and never before.
LEMMA TalliesKept ==
  ASSUME HandleInv, TallyInv, CountInv, PatternInv, Next
  PROVE  TallyInv'
<1> USE DEF Files, CountPcs, PatternPcs, EarlyPcs
<1>0. /\ boots \in Nat /\ commits["boot_count"] \in Nat /\ commits["pattern"] \in Nat
      /\ told["boot_count"] \in Nat /\ told["pattern"] \in Nat
      /\ short["boot_count"] \in Nat /\ short["pattern"] \in Nat
  BY DEF TallyInv
<1>1. CASE PowerUp
  BY <1>1, <1>0 DEF PowerUp, TallyInv, HandleInv, OtherPcs
<1>2. CASE PowerFailure
  BY <1>2, <1>0 DEF PowerFailure, TallyInv, HandleInv, OtherPcs
<1>3. CASE Mount
  BY <1>3 DEF Mount, Returns, Rets, TallyInv
<1>4. CASE Statvfs
  BY <1>4 DEF Statvfs, Returns, Rets, TallyInv
<1>5. CASE OpenDir
  BY <1>5 DEF OpenDir, Returns, Rets, TallyInv
<1>6. CASE ReadDir
  BY <1>6 DEF ReadDir, Returns, Rets, TallyInv
<1>7. CASE CloseDir
  BY <1>7 DEF CloseDir, Returns, Rets, TallyInv
<1>8. CASE OpenCount
  BY <1>8 DEF OpenCount, Returns, Rets, TallyInv
<1>9. CASE ReadCount
  BY <1>9 DEF ReadCount, Returns, Rets, TallyInv
<1>10. CASE SeekCount
  BY <1>10 DEF SeekCount, Returns, Rets, TallyInv
<1>11. CASE WriteCount
  BY <1>11 DEF WriteCount, Returns, Rets, TallyInv
<1>12. CASE CloseCount
  BY <1>12, <1>0 DEF CloseCount, Returns, Rets, fs_close, TallyInv, CountInv, PatternInv
<1>13. CASE OpenPattern
  BY <1>13 DEF OpenPattern, Returns, Rets, TallyInv
<1>14. CASE Stat
  BY <1>14 DEF Stat, Returns, Rets, TallyInv
<1>15. CASE ReadPattern
  BY <1>15 DEF ReadPattern, Returns, Rets, TallyInv
<1>16. CASE SeekPattern
  BY <1>16 DEF SeekPattern, Returns, Rets, TallyInv
<1>17. CASE WritePattern
  BY <1>17 DEF WritePattern, Returns, Rets, TallyInv
<1>18. CASE ClosePattern
  BY <1>18, <1>0 DEF ClosePattern, Returns, Rets, fs_close, TallyInv, CountInv, PatternInv
<1>19. CASE Unmount
  BY <1>19 DEF Unmount, Returns, Rets, TallyInv
<1>20. CASE WriteCountShort
  BY <1>20, <1>0 DEF WriteCountShort, Returns, TallyInv
<1>21. CASE WritePatternShort
  BY <1>21, <1>0 DEF WritePatternShort, Returns, TallyInv
<1> QED
  BY <1>1, <1>2, <1>3, <1>4, <1>5, <1>6, <1>7, <1>8, <1>9, <1>10, <1>11, <1>12, <1>13, <1>14, <1>15, <1>16, <1>17, <1>18, <1>19,
     <1>20, <1>21
     DEF Next, main, littlefs_increase_infile_value,
                 littlefs_binary_file_adj

\* No count of short writes goes back to zero.
LEMMA ShortGrows ==
  ASSUME TallyInv, Next
  PROVE  /\ short'["pattern"] = 0 => short["pattern"] = 0
         /\ WritePatternShort => short'["pattern"] # 0
<1>1. short \in [Files -> Nat]
  BY DEF TallyInv
<1>2. CASE WritePatternShort
  <2>1. short'["pattern"] = short["pattern"] + 1 /\ short["pattern"] \in Nat
    BY <1>1, <1>2 DEF WritePatternShort, Files
  <2> QED
    BY <2>1
<1>3. CASE WriteCountShort
  BY <1>1, <1>3 DEF WriteCountShort, WritePatternShort, Files
<1>4. CASE ~WritePatternShort /\ ~WriteCountShort
  BY <1>4 DEF Next, PowerUp, PowerFailure, main, Mount, Statvfs, OpenDir, ReadDir,
        CloseDir, littlefs_increase_infile_value, OpenCount, ReadCount,
        SeekCount, WriteCount, CloseCount, littlefs_binary_file_adj,
        OpenPattern, Stat, ReadPattern, SeekPattern, WritePattern,
        ClosePattern, Unmount
<1> QED
  BY <1>2, <1>3, <1>4
-----------------------------------------------------------------------------
(* The flash.                                                              *)

\* Closing stores the open file, if it stores anything.
LEMMA FlashKept ==
  ASSUME TallyInv, FlashInv, CountInv, PatternInv, ContentInv, Next
  PROVE  FlashInv'
<1> USE DEF Files
<1>1. CASE PowerUp
  BY <1>1 DEF PowerUp, Returns, Rets, FlashInv, Counts, Patterns, PatternAfter
<1>2. CASE PowerFailure
  BY <1>2 DEF PowerFailure, Returns, Rets, FlashInv, Counts, Patterns, PatternAfter
<1>3. CASE Mount
  BY <1>3 DEF Mount, Returns, Rets, FlashInv, Counts, Patterns, PatternAfter
<1>4. CASE Statvfs
  BY <1>4 DEF Statvfs, Returns, Rets, FlashInv, Counts, Patterns, PatternAfter
<1>5. CASE OpenDir
  BY <1>5 DEF OpenDir, Returns, Rets, FlashInv, Counts, Patterns, PatternAfter
<1>6. CASE ReadDir
  BY <1>6 DEF ReadDir, Returns, Rets, FlashInv, Counts, Patterns, PatternAfter
<1>7. CASE CloseDir
  BY <1>7 DEF CloseDir, Returns, Rets, FlashInv, Counts, Patterns, PatternAfter
<1>8. CASE OpenCount
  BY <1>8 DEF OpenCount, Returns, Rets, FlashInv, Counts, Patterns, PatternAfter
<1>9. CASE ReadCount
  BY <1>9 DEF ReadCount, Returns, Rets, FlashInv, Counts, Patterns, PatternAfter
<1>10. CASE SeekCount
  BY <1>10 DEF SeekCount, Returns, Rets, FlashInv, Counts, Patterns, PatternAfter
<1>11. CASE WriteCount
  BY <1>11 DEF WriteCount, Returns, Rets, FlashInv, Counts, Patterns, PatternAfter
<1>12. CASE CloseCount
  BY <1>12 DEF CloseCount, Returns, Rets, fs_close, TallyInv, FlashInv,
            CountInv, PatternInv, ContentInv, Counts, Patterns
<1>13. CASE OpenPattern
  BY <1>13 DEF OpenPattern, Returns, Rets, FlashInv, Counts, Patterns, PatternAfter
<1>14. CASE Stat
  BY <1>14 DEF Stat, Returns, Rets, FlashInv, Counts, Patterns, PatternAfter
<1>15. CASE ReadPattern
  BY <1>15 DEF ReadPattern, Returns, Rets, FlashInv, Counts, Patterns, PatternAfter
<1>16. CASE SeekPattern
  BY <1>16 DEF SeekPattern, Returns, Rets, FlashInv, Counts, Patterns, PatternAfter
<1>17. CASE WritePattern
  BY <1>17 DEF WritePattern, Returns, Rets, FlashInv, Counts, Patterns, PatternAfter
<1>18. CASE ClosePattern
  BY <1>18 DEF ClosePattern, Returns, Rets, fs_close, TallyInv, FlashInv,
            CountInv, PatternInv, ContentInv, Counts, Patterns
<1>19. CASE Unmount
  BY <1>19 DEF Unmount, Returns, Rets, FlashInv, Counts, Patterns, PatternAfter
<1>20. CASE WriteCountShort
  BY <1>20 DEF WriteCountShort, FlashInv
<1>21. CASE WritePatternShort
  BY <1>21, ShortGrows DEF WritePatternShort, FlashInv, TallyInv
<1> QED
  BY <1>1, <1>2, <1>3, <1>4, <1>5, <1>6, <1>7, <1>8, <1>9, <1>10, <1>11, <1>12, <1>13, <1>14, <1>15, <1>16, <1>17, <1>18, <1>19,
     <1>20, <1>21
     DEF Next, main, littlefs_increase_infile_value,
                 littlefs_binary_file_adj

-----------------------------------------------------------------------------
(* The counter.                                                            *)

\* From one call to the next, the counter is the one on the flash, then the one
\* that is written.
LEMMA CountKept ==
  ASSUME HandleInv, TallyInv, FlashInv, CountInv, Next
  PROVE  CountInv'
<1>0. commits["boot_count"] \in Nat
  BY DEF TallyInv, Files
<1>1. CASE PowerUp
  BY <1>1 DEF PowerUp, Returns, Rets, CountInv, Clean
<1>2. CASE PowerFailure
  BY <1>2 DEF PowerFailure, Returns, Rets, CountInv, Clean
<1>3. CASE Mount
  BY <1>3 DEF Mount, Returns, Rets, CountInv, Clean
<1>4. CASE Statvfs
  BY <1>4 DEF Statvfs, Returns, Rets, CountInv, Clean
<1>5. CASE OpenDir
  BY <1>5 DEF OpenDir, Returns, Rets, CountInv, Clean
<1>6. CASE ReadDir
  BY <1>6 DEF ReadDir, Returns, Rets, CountInv, Clean
<1>7. CASE CloseDir
  BY <1>7 DEF CloseDir, Returns, Rets, CountInv, Clean
<1>8. CASE OpenCount
  <2>1. UNCHANGED <<flash, commits>> /\ pc' \in {"readCount", "unmount"}
    BY <1>8 DEF OpenCount, Returns
  <2>2. pc' = "readCount" => Clean("boot_count", 0)'
    BY <1>8 DEF OpenCount, Returns, Rets, fs_open, Clean
  <2> QED
    BY <1>8, <2>1, <2>2 DEF OpenCount, CountInv
<1>9. CASE ReadCount
  <2>1. Clean("boot_count", 0) /\ boot_count = 0 /\ UNCHANGED <<flash, commits>>
    BY <1>9 DEF ReadCount, CountInv
  <2>2. file.pos = 0 /\ file.data = Counts(commits["boot_count"])
        /\ file.name = "boot_count" /\ file.state = "clean"
    BY <2>1 DEF Clean, FlashInv
  <2>3. (IF MoreData THEN file.data[file.pos + 1] ELSE boot_count)
            = commits["boot_count"] % Byte
    <3>1. CASE commits["boot_count"] = 0
      <4>1. ~MoreData
        BY <2>2, <3>1, Blocks DEF Counts, MoreData
      <4>2. 0 % Byte = 0
        BY Bytes
      <4> QED
        BY <2>1, <3>1, <4>1, <4>2
    <3>2. CASE commits["boot_count"] # 0
      <4>1. file.data = <<commits["boot_count"] % Byte>>
        BY <2>2, <3>2 DEF Counts
      <4>2. MoreData /\ file.data[1] = commits["boot_count"] % Byte
        BY <2>2, <4>1, Blocks DEF MoreData
      <4> QED
        BY <2>2, <4>2
    <3> QED
      BY <3>1, <3>2
  <2>4. CASE pc' = "seekCount"
    <3>1. fs_read /\ boot_count' = commits["boot_count"] % Byte
      BY <1>9, <2>3, <2>4 DEF ReadCount, Returns, Rets
    <3>2. Clean("boot_count", 0)' \/ Clean("boot_count", 1)'
      BY <2>1, <3>1 DEF fs_read, Clean
    <3> QED
      BY <2>1, <2>4, <3>1, <3>2 DEF CountInv
  <2>5. CASE pc' = "closeCount"
    <3>1. rc' = "error" /\ UNCHANGED file
      BY <1>9, <2>5 DEF ReadCount, Returns, Rets
    <3> QED
      BY <2>2, <2>5, <3>1 DEF CountInv
  <2> QED
    BY <1>9, <2>4, <2>5 DEF ReadCount, Returns, Rets
<1>10. CASE SeekCount
  <2>1. PICK n \in 0..1 : Clean("boot_count", n)
    BY <1>10 DEF SeekCount, CountInv
  <2>2. UNCHANGED <<boot_count, flash, commits>>
    BY <1>10 DEF SeekCount
  <2>3. CASE pc' = "writeCount"
    <3>1. fs_seek
      BY <1>10, <2>3 DEF SeekCount, Returns, Rets
    <3>2. Clean("boot_count", 0)'
      BY <2>1, <2>2, <3>1 DEF fs_seek, Clean
    <3> QED
      BY <1>10, <2>2, <2>3, <3>2 DEF SeekCount, CountInv
  <2>4. CASE pc' = "closeCount"
    <3>1. rc' = "error" /\ UNCHANGED file
      BY <1>10, <2>4 DEF SeekCount, Returns, Rets
    <3>2. file.name = "boot_count" /\ file.state = "clean"
      BY <2>1 DEF Clean
    <3> QED
      BY <2>4, <3>1, <3>2 DEF CountInv
  <2> QED
    BY <1>10, <2>3, <2>4 DEF SeekCount, Returns, Rets
<1>11. CASE WriteCount
  <2>1. Clean("boot_count", 0) /\ UNCHANGED commits /\ pc' = "closeCount"
    BY <1>11 DEF WriteCount, CountInv, Returns, Rets
  <2>2. file.pos = 0 /\ file.data = Counts(commits["boot_count"])
        /\ file.name = "boot_count" /\ file.state = "clean"
    BY <2>1 DEF Clean, FlashInv
  <2> DEFINE b == (boot_count + 1) % Byte
  <2>3. <<b>> = Counts(commits["boot_count"] + 1)
    <3>1. boot_count = commits["boot_count"] % Byte
      BY <1>11 DEF WriteCount, CountInv
    <3>2. ((commits["boot_count"] % Byte) + 1) % Byte = (commits["boot_count"] + 1) % Byte
      BY <1>0, Bytes, ModStep
    <3>3. commits["boot_count"] + 1 # 0
      BY <1>0
    <3> QED
      BY <3>1, <3>2, <3>3 DEF Counts
  <2>4. CASE rc' = "ok"
    <3>1. fs_write(b)
      BY <1>11, <2>4 DEF WriteCount, Returns
    <3> HIDE DEF b
    <3>2. file'.name = "boot_count" /\ file'.state = "dirty"
          /\ file'.data = (IF MoreData THEN [file.data EXCEPT ![1] = b]
                                       ELSE Append(file.data, b))
      BY <2>1, <2>2, <3>1 DEF fs_write, Clean
    <3>3. file'.data = <<b>>
      <4>1. CASE commits["boot_count"] = 0
        BY <2>2, <3>2, <4>1, Blocks DEF Counts, MoreData
      <4>2. CASE commits["boot_count"] # 0
        BY <2>2, <3>2, <4>2, Blocks DEF Counts, MoreData
      <4> QED
        BY <4>1, <4>2
    <3> QED
      BY <2>1, <2>3, <3>2, <3>3 DEF CountInv
  <2>5. CASE rc' = "error"
    <3>1. fs_write_fails
      BY <1>11, <2>5 DEF WriteCount, Returns
    <3>2. file'.name = "boot_count" /\ file'.state = "failed"
      BY <2>1, <3>1 DEF fs_write_fails, Clean
    <3> QED
      BY <2>1, <2>5, <3>2 DEF CountInv
  <2> QED
    BY <1>11, <2>4, <2>5 DEF WriteCount, Returns, Rets
<1>12. CASE CloseCount
  BY <1>12 DEF CloseCount, Returns, Rets, CountInv, Clean
<1>13. CASE OpenPattern
  BY <1>13 DEF OpenPattern, Returns, Rets, CountInv, Clean
<1>14. CASE Stat
  BY <1>14 DEF Stat, Returns, Rets, CountInv, Clean
<1>15. CASE ReadPattern
  BY <1>15 DEF ReadPattern, Returns, Rets, CountInv, Clean
<1>16. CASE SeekPattern
  BY <1>16 DEF SeekPattern, Returns, Rets, CountInv, Clean
<1>17. CASE WritePattern
  BY <1>17 DEF WritePattern, Returns, Rets, CountInv, Clean
<1>18. CASE ClosePattern
  BY <1>18 DEF ClosePattern, Returns, Rets, CountInv, Clean
<1>19. CASE Unmount
  BY <1>19 DEF Unmount, Returns, Rets, CountInv, Clean
<1>20. CASE WriteCountShort
  <2>1. Clean("boot_count", 0) /\ pc' = "closeCount" /\ UNCHANGED <<file, told, commits>>
    BY <1>20 DEF WriteCountShort, CountInv, Returns, fs_write_short
  <2>2. file.name = "boot_count" /\ file.state = "clean"
    BY <2>1 DEF Clean
  <2>3. /\ short'["boot_count"] = short["boot_count"] + 1
        /\ short["boot_count"] \in Nat /\ told["boot_count"] \in Nat
        /\ commits["pattern"] \in Nat
        /\ told["boot_count"] <= commits["boot_count"] + short["boot_count"]
        /\ commits["pattern"] <= commits["boot_count"] + short["boot_count"]
    BY <1>20 DEF WriteCountShort, TallyInv, Files
  <2>4. /\ told["boot_count"] < commits["boot_count"] + (short["boot_count"] + 1)
        /\ commits["pattern"] < commits["boot_count"] + (short["boot_count"] + 1)
    BY <1>0, <2>3, OneMore
  <2> QED
    BY <2>1, <2>2, <2>3, <2>4 DEF CountInv
<1>21. CASE WritePatternShort
  BY <1>21 DEF WritePatternShort, Returns, CountInv
<1> QED
  BY <1>1, <1>2, <1>3, <1>4, <1>5, <1>6, <1>7, <1>8, <1>9, <1>10, <1>11, <1>12, <1>13, <1>14, <1>15, <1>16, <1>17, <1>18, <1>19,
     <1>20, <1>21
     DEF Next, main, littlefs_increase_infile_value,
                 littlefs_binary_file_adj

-----------------------------------------------------------------------------
(* The pattern.                                                            *)

LEMMA PatternKept ==
  ASSUME HandleInv, TallyInv, PatternInv, Next
  PROVE  PatternInv'
<1>0. commits["pattern"] \in Nat
  BY DEF TallyInv, Files
<1>1. CASE PowerUp
  BY <1>1 DEF PowerUp, Returns, Rets, PatternInv, Clean
<1>2. CASE PowerFailure
  BY <1>2 DEF PowerFailure, Returns, Rets, PatternInv, Clean
<1>3. CASE Mount
  BY <1>3 DEF Mount, Returns, Rets, PatternInv, Clean
<1>4. CASE Statvfs
  BY <1>4 DEF Statvfs, Returns, Rets, PatternInv, Clean
<1>5. CASE OpenDir
  BY <1>5 DEF OpenDir, Returns, Rets, PatternInv, Clean
<1>6. CASE ReadDir
  BY <1>6 DEF ReadDir, Returns, Rets, PatternInv, Clean
<1>7. CASE CloseDir
  BY <1>7 DEF CloseDir, Returns, Rets, PatternInv, Clean
<1>8. CASE OpenCount
  BY <1>8 DEF OpenCount, Returns, Rets, PatternInv, Clean
<1>9. CASE ReadCount
  BY <1>9 DEF ReadCount, Returns, Rets, PatternInv, Clean
<1>10. CASE SeekCount
  BY <1>10 DEF SeekCount, Returns, Rets, PatternInv, Clean
<1>11. CASE WriteCount
  BY <1>11 DEF WriteCount, Returns, Rets, PatternInv, Clean
<1>12. CASE CloseCount
  BY <1>12 DEF CloseCount, Returns, Rets, PatternInv, Clean
<1>13. CASE OpenPattern
  <2>1. UNCHANGED <<flash, commits>> /\ pc' \in {"stat", "unmount"}
    BY <1>13 DEF OpenPattern, Returns
  <2>2. pc' = "stat" => Clean("pattern", 0)'
    BY <1>13 DEF OpenPattern, Returns, Rets, fs_open, Clean
  <2> QED
    BY <1>13, <2>1, <2>2 DEF OpenPattern, PatternInv
<1>14. CASE Stat
  <2>1. Clean("pattern", 0)'
    BY <1>14 DEF Stat, PatternInv, Clean
  <2>2. pc' \in {"readPattern", "seekPattern"} \/ (pc' = "closePattern" /\ rc' = "error")
    BY <1>14 DEF Stat, Returns, Rets
  <2>3. file'.name = "pattern"
    BY <2>1 DEF Clean
  <2> QED
    BY <2>1, <2>2, <2>3 DEF PatternInv
<1>15. CASE ReadPattern
  <2>1. Clean("pattern", 0) /\ UNCHANGED flash
    BY <1>15 DEF ReadPattern, PatternInv
  <2>2. CASE pc' = "seekPattern"
    <3>1. fs_read
      BY <1>15, <2>2 DEF ReadPattern, Returns, Rets
    <3>2. Clean("pattern", 0)' \/ Clean("pattern", 1)'
      BY <2>1, <3>1 DEF fs_read, Clean
    <3> QED
      BY <2>2, <3>2 DEF PatternInv
  <2>3. CASE pc' = "closePattern"
    <3>1. rc' = "error" /\ UNCHANGED file
      BY <1>15, <2>3 DEF ReadPattern, Returns, Rets
    <3>2. file.name = "pattern"
      BY <2>1 DEF Clean
    <3> QED
      BY <2>3, <3>1, <3>2 DEF PatternInv
  <2> QED
    BY <1>15, <2>2, <2>3 DEF ReadPattern, Returns, Rets
<1>16. CASE SeekPattern
  <2>1. PICK n \in 0..1 : Clean("pattern", n)
    BY <1>16 DEF SeekPattern, PatternInv
  <2>2. CASE pc' = "writePattern"
    <3>1. fs_seek /\ UNCHANGED flash
      BY <1>16, <2>2 DEF SeekPattern, Returns, Rets
    <3>2. Clean("pattern", 0)'
      BY <2>1, <3>1 DEF fs_seek, Clean
    <3> QED
      BY <2>2, <3>2 DEF PatternInv
  <2>3. CASE pc' = "closePattern"
    <3>1. rc' = "error" /\ UNCHANGED file
      BY <1>16, <2>3 DEF SeekPattern, Returns, Rets
    <3>2. file.name = "pattern"
      BY <2>1 DEF Clean
    <3> QED
      BY <2>3, <3>1, <3>2 DEF PatternInv
  <2> QED
    BY <1>16, <2>2, <2>3 DEF SeekPattern, Returns, Rets
<1>17. CASE WritePattern
  <2>1. Clean("pattern", 0) /\ pc' = "closePattern"
    BY <1>17 DEF WritePattern, PatternInv, Returns, Rets
  <2>2. CASE rc' = "ok"
    <3>1. fs_write(file_test_pattern)
      BY <1>17, <2>2 DEF WritePattern, Returns
    <3>2. file'.name = "pattern" /\ file'.state = "dirty"
      BY <2>1, <3>1 DEF fs_write, Clean
    <3> QED
      BY <2>1, <3>2 DEF PatternInv
  <2>3. CASE rc' = "error"
    <3>1. fs_write_fails
      BY <1>17, <2>3 DEF WritePattern, Returns
    <3>2. file'.name = "pattern"
      BY <2>1, <3>1 DEF fs_write_fails, Clean
    <3> QED
      BY <2>1, <2>3, <3>2 DEF PatternInv
  <2> QED
    BY <1>17, <2>2, <2>3 DEF WritePattern, Returns, Rets
<1>18. CASE ClosePattern
  BY <1>18 DEF ClosePattern, Returns, Rets, PatternInv, Clean
<1>19. CASE Unmount
  BY <1>19 DEF Unmount, Returns, Rets, PatternInv, Clean
<1>20. CASE WriteCountShort
  BY <1>20 DEF WriteCountShort, Returns, Rets, PatternInv, Clean
<1>21. CASE WritePatternShort
  <2>1. Clean("pattern", 0) /\ pc' = "closePattern"
    BY <1>21 DEF WritePatternShort, PatternInv, Returns
  <2>2. file'.name = "pattern"
    <3>1. PICK k \in Pieces : fs_write_short(file_test_pattern, k)
      BY <1>21 DEF WritePatternShort
    <3>2. file.name = "pattern" /\ DOMAIN file = {"name", "pos", "data", "state"}
      BY <2>1 DEF Clean
    <3>3. UNCHANGED file \/ file'.name = file.name
      BY <3>1, <3>2 DEF fs_write_short
    <3> QED
      BY <3>2, <3>3
  <2>3. told'["pattern"] < commits'["pattern"] + short'["pattern"]
    <3>1. /\ UNCHANGED <<told, commits>>
          /\ short'["pattern"] = short["pattern"] + 1
      BY <1>21 DEF WritePatternShort, TallyInv, Files
    <3>2. /\ told["pattern"] \in Nat /\ short["pattern"] \in Nat
          /\ told["pattern"] <= commits["pattern"] + short["pattern"]
      BY DEF TallyInv, Files
    <3> QED
      BY <1>0, <3>1, <3>2, OneMore
  <2> QED
    BY <2>1, <2>2, <2>3 DEF PatternInv
<1> QED
  BY <1>1, <1>2, <1>3, <1>4, <1>5, <1>6, <1>7, <1>8, <1>9, <1>10, <1>11, <1>12, <1>13, <1>14, <1>15, <1>16, <1>17, <1>18, <1>19,
     <1>20, <1>21
     DEF Next, main, littlefs_increase_infile_value,
                 littlefs_binary_file_adj

\* From one call to the next, the pattern is the one on the flash, then the one
\* that is written.
LEMMA ContentKept ==
  ASSUME HandleInv, TallyInv, FlashInv, PatternInv, ContentInv, Next
  PROVE  ContentInv'
<1> SUFFICES ASSUME short'["pattern"] = 0 PROVE ContentInv'
  BY DEF ContentInv
<1>0. short["pattern"] = 0 /\ commits["pattern"] \in Nat
  BY ShortGrows DEF TallyInv, Files
<1>1. CASE PowerUp
  BY <1>1 DEF PowerUp, Returns, Rets, ContentInv
<1>2. CASE PowerFailure
  BY <1>2 DEF PowerFailure, Returns, Rets, ContentInv
<1>3. CASE Mount
  BY <1>3 DEF Mount, Returns, Rets, ContentInv
<1>4. CASE Statvfs
  BY <1>4 DEF Statvfs, Returns, Rets, ContentInv
<1>5. CASE OpenDir
  BY <1>5 DEF OpenDir, Returns, Rets, ContentInv
<1>6. CASE ReadDir
  BY <1>6 DEF ReadDir, Returns, Rets, ContentInv
<1>7. CASE CloseDir
  BY <1>7 DEF CloseDir, Returns, Rets, ContentInv
<1>8. CASE OpenCount
  BY <1>8 DEF OpenCount, Returns, Rets, ContentInv
<1>9. CASE ReadCount
  BY <1>9 DEF ReadCount, Returns, Rets, ContentInv
<1>10. CASE SeekCount
  BY <1>10 DEF SeekCount, Returns, Rets, ContentInv
<1>11. CASE WriteCount
  BY <1>11 DEF WriteCount, Returns, Rets, ContentInv
<1>12. CASE CloseCount
  BY <1>12 DEF CloseCount, Returns, Rets, ContentInv
<1>13. CASE OpenPattern
  BY <1>13 DEF OpenPattern, Returns, Rets, ContentInv
<1>14. CASE Stat
  <2>1. Clean("pattern", 0) /\ UNCHANGED <<file, flash, commits>>
        /\ flash["pattern"] = Patterns(commits["pattern"])
    BY <1>14, <1>0 DEF Stat, PatternInv, FlashInv
  <2>2. CASE pc' = "seekPattern"
    <3>1. flash["pattern"] = <<>> /\ file_test_pattern' = init_pattern
      BY <1>14, <2>2 DEF Stat, Returns, Rets
    <3>2. ASSUME commits["pattern"] # 0 PROVE FALSE
      <4>1. flash["pattern"] = <<PatternAfter(commits["pattern"] - 1)>>
        BY <2>1, <3>2 DEF Patterns
      <4> QED
        BY <3>1, <4>1, Blocks
    <3> QED
      BY <2>1, <2>2, <3>1, <3>2, FirstPattern DEF ContentInv
  <2>3. CASE pc' = "readPattern"
    <3>1. flash["pattern"] # <<>>
      BY <1>14, <2>3 DEF Stat, Returns, Rets
    <3>2. commits["pattern"] # 0
      BY <2>1, <3>1 DEF Patterns
    <3> QED
      BY <2>1, <2>3, <3>2 DEF ContentInv
  <2>4. CASE pc' = "closePattern"
    <3>1. file'.state = "clean"
      BY <2>1 DEF Clean
    <3> QED
      BY <2>4, <3>1 DEF ContentInv
  <2> QED
    BY <1>14, <2>2, <2>3, <2>4 DEF Stat, Returns, Rets
<1>15. CASE ReadPattern
  <2>1. Clean("pattern", 0) /\ commits["pattern"] # 0 /\ UNCHANGED <<flash, commits>>
    BY <1>15, <1>0 DEF ReadPattern, PatternInv, ContentInv
  <2>2. file.pos = 0 /\ file.data = Patterns(commits["pattern"]) /\ file.state = "clean"
    BY <1>0, <2>1 DEF Clean, FlashInv
  <2>3. MoreData /\ file.data[file.pos + 1] = PatternAfter(commits["pattern"] - 1)
    BY <2>1, <2>2, Blocks DEF Patterns, MoreData
  <2>4. CASE pc' = "seekPattern"
    <3>1. file_test_pattern' =
              incr_pattern(Over(PatternAfter(commits["pattern"] - 1), file_test_pattern), 1)
      BY <1>15, <2>3, <2>4 DEF ReadPattern, Returns, Rets
    <3>2. commits["pattern"] - 1 \in Nat /\ (commits["pattern"] - 1) + 1 = commits["pattern"]
      BY <1>0, <2>1
    <3>3. file_test_pattern' = PatternAfter(commits["pattern"])
      BY <3>1, <3>2, NextPattern, Overlay
    <3> QED
      BY <2>1, <2>4, <3>3 DEF ContentInv
  <2>5. CASE pc' = "closePattern"
    <3>1. UNCHANGED file
      BY <1>15, <2>5 DEF ReadPattern, Returns, Rets
    <3> QED
      BY <2>2, <2>5, <3>1 DEF ContentInv
  <2> QED
    BY <1>15, <2>4, <2>5 DEF ReadPattern, Returns, Rets
<1>16. CASE SeekPattern
  <2>1. PICK n \in 0..1 : Clean("pattern", n)
    BY <1>16 DEF SeekPattern, PatternInv
  <2>2. UNCHANGED <<file_test_pattern, commits>>
    BY <1>16 DEF SeekPattern
  <2>3. CASE pc' = "writePattern"
    BY <1>16, <1>0, <2>2, <2>3 DEF SeekPattern, ContentInv
  <2>4. CASE pc' = "closePattern"
    <3>1. UNCHANGED file
      BY <1>16, <2>4 DEF SeekPattern, Returns, Rets
    <3>2. file.state = "clean"
      BY <2>1 DEF Clean
    <3> QED
      BY <2>4, <3>1, <3>2 DEF ContentInv
  <2> QED
    BY <1>16, <2>3, <2>4 DEF SeekPattern, Returns, Rets
<1>17. CASE WritePattern
  <2>1. Clean("pattern", 0) /\ UNCHANGED commits /\ pc' = "closePattern"
    BY <1>17 DEF WritePattern, PatternInv, Returns, Rets
  <2>2. file.pos = 0 /\ file.data = Patterns(commits["pattern"])
    BY <1>0, <2>1 DEF Clean, FlashInv
  <2> DEFINE b == file_test_pattern
  <2>3. <<b>> = Patterns(commits["pattern"] + 1)
    <3>1. file_test_pattern = PatternAfter(commits["pattern"])
      BY <1>17, <1>0 DEF WritePattern, ContentInv
    <3>2. commits["pattern"] + 1 # 0 /\ (commits["pattern"] + 1) - 1 = commits["pattern"]
      BY <1>0
    <3> QED
      BY <3>1, <3>2 DEF Patterns
  <2>4. CASE rc' = "ok"
    <3>1. fs_write(b)
      BY <1>17, <2>4 DEF WritePattern, Returns
    <3> HIDE DEF b
    <3>2. file'.data = (IF MoreData THEN [file.data EXCEPT ![1] = b]
                                    ELSE Append(file.data, b))
      BY <2>1, <2>2, <3>1 DEF fs_write, Clean
    <3>3. file'.data = <<b>>
      <4>1. CASE commits["pattern"] = 0
        BY <2>2, <3>2, <4>1, Blocks DEF Patterns, MoreData
      <4>2. CASE commits["pattern"] # 0
        BY <2>2, <3>2, <4>2, Blocks DEF Patterns, MoreData
      <4> QED
        BY <4>1, <4>2
    <3> QED
      BY <2>1, <2>3, <3>3 DEF ContentInv
  <2>5. CASE rc' = "error"
    <3>1. fs_write_fails
      BY <1>17, <2>5 DEF WritePattern, Returns
    <3>2. file'.state = "failed"
      BY <2>1, <3>1 DEF fs_write_fails, Clean
    <3> QED
      BY <2>1, <3>2 DEF ContentInv
  <2> QED
    BY <1>17, <2>4, <2>5 DEF WritePattern, Returns, Rets
<1>18. CASE ClosePattern
  BY <1>18 DEF ClosePattern, Returns, Rets, ContentInv
<1>19. CASE Unmount
  BY <1>19 DEF Unmount, Returns, Rets, ContentInv
<1>20. CASE WriteCountShort
  BY <1>20 DEF WriteCountShort, Returns, Rets, ContentInv
<1>21. CASE WritePatternShort
  BY <1>0, <1>21, ShortGrows
<1> QED
  BY <1>1, <1>2, <1>3, <1>4, <1>5, <1>6, <1>7, <1>8, <1>9, <1>10, <1>11, <1>12, <1>13, <1>14, <1>15, <1>16, <1>17, <1>18, <1>19,
     <1>20, <1>21
     DEF Next, main, littlefs_increase_infile_value,
                 littlefs_binary_file_adj
-----------------------------------------------------------------------------
(* The whole.                                                              *)

LEMMA InitHolds == Init => IInv
<1> SUFFICES ASSUME Init PROVE IInv
  OBVIOUS
<1>1. HandleInv
  BY DEF Init, HandleInv, CountPcs, PatternPcs, EarlyPcs, OtherPcs
<1>2. TallyInv
  BY DEF Init, TallyInv, Files, CountPcs, PatternPcs, EarlyPcs
<1>3. FlashInv
  BY DEF Init, FlashInv, Files, Counts, Patterns
<1>4. CountInv /\ PatternInv /\ ContentInv
  BY DEF Init, CountInv, PatternInv, ContentInv
<1> QED
  BY <1>1, <1>2, <1>3, <1>4 DEF IInv

LEMMA NextHolds == IInv /\ [Next]_vars => IInv'
<1> SUFFICES ASSUME IInv, [Next]_vars PROVE IInv'
  OBVIOUS
<1>1. CASE Next
  BY <1>1, HandlesKept, TalliesKept, FlashKept, CountKept, PatternKept,
     ContentKept DEF IInv
<1>2. CASE UNCHANGED vars
  <2>1. HandleInv' /\ TallyInv' /\ FlashInv'
    BY <1>2 DEF IInv, HandleInv, TallyInv, FlashInv
  <2>2. CountInv' /\ PatternInv' /\ ContentInv'
    BY <1>2 DEF IInv, CountInv, PatternInv, ContentInv, Clean
  <2> QED
    BY <2>1, <2>2 DEF IInv
<1> QED
  BY <1>1, <1>2

LEMMA Invariance == Spec => []IInv
<1> QED
  BY InitHolds, NextHolds, PTL DEF Spec

\* The counter on the flash counts, in its eight bits, the boots that stored it,
\* and counts every boot whose increase returned 0 unless its write was short.
THEOREM Counted == Spec => []BootsCounted
<1>1. IInv => BootsCounted
  BY DEF IInv, TallyInv, FlashInv, Counts, BootsCounted, Files
<1> QED
  BY <1>1, Invariance, PTL

\* The pattern on the flash is one of the sequence, whole, and as far along as
\* the times it was stored, as long as no write of it was short.
THEOREM Whole == Spec => []PatternWhole
<1>1. IInv => PatternWhole
  BY DEF IInv, TallyInv, FlashInv, Patterns, PatternWhole, Files
<1> QED
  BY <1>1, Invariance, PTL

\* The pattern changes only in a boot that stored its counter or wrote it short.
THEOREM Follows == Spec => []PatternFollowsCount
<1>1. IInv => PatternFollowsCount
  BY DEF IInv, TallyInv, PatternFollowsCount
<1> QED
  BY <1>1, Invariance, PTL

\* Every way through main, whatever fails on it, closes what it has opened.
THEOREM Closed == Spec => []NothingLeftOpen
<1>1. IInv => NothingLeftOpen
  BY DEF IInv, HandleInv, NothingLeftOpen, CountPcs, PatternPcs, EarlyPcs, OtherPcs
<1> QED
  BY <1>1, Invariance, PTL
=============================================================================
