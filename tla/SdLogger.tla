-------------------------------- MODULE SdLogger --------------------------------
(***************************************************************************)
(* The SD card logger of the winch (sdLogger): one of its rings of         *)
(* numbered log files.  A file name ends in two digits, so the files form  *)
(* a ring of Base*Base numbers.  The logger appends to its current file,   *)
(* creating it on the first write; every logging interval it moves to the *)
(* next number (increment_file_names), removing that file and the one      *)
(* after it so that a gap follows the newest file, and, when free space is *)
(* low, the two oldest files.  After a reset the RAM is lost: init() finds *)
(* the first file that exists from 00 (find_first_filename) and then the  *)
(* first number after it that does not (find_next_filename).              *)
(*                                                                         *)
(* The four rings (commands, output, feedback, serial) run the same code   *)
(* on their own names; the serial ring is also written right after init() *)
(* and each rotation, which the model's interleavings include.  A file     *)
(* number is the integer msd*Base + lsd of its two digits.                 *)
(***************************************************************************)
EXTENDS Naturals, Sequences, SequencesExt

CONSTANT Base   \* the digits '0'..'9' of a file number: 10 in the code

ASSUME Base > 1

Slots == Base * Base

VARIABLES
    files,          \* the numbers whose file exists on the card
    cur,            \* the number in the logger's file name
    sdInitialized,  \* m_sdInitialized
    pc              \* "boot" after a reset, "run" once init() returned

vars == <<files, cur, sdInitialized, pc>>

(* Mutation: the reset of "99" to "00" left out.                         *)
IncrFnNoWrap(n) ==
    IF n % Base # Base - 1 THEN n + 1 ELSE (n \div Base + 1) * Base

(* incr_fn(): the least significant digit counts up; at '9' it becomes '0' *)
(* and the next digit counts up; "99" becomes "00".                        *)
IncrFn(n) ==
    LET lsd == n % Base
        msd == n \div Base
    IN CASE lsd # Base - 1 -> n + 1
         [] msd # Base - 1 -> (msd + 1) * Base
         [] OTHER -> 0

(* find_first_filename(): from n, the first number whose file exists; it  *)
(* gives up after Slots increments, which bring it back to n.              *)
RECURSIVE FindFirst(_, _, _)
FindFirst(ex, n, count) ==
    IF n \in ex THEN n
    ELSE IF count + 1 > Slots - 1 THEN IncrFn(n)
    ELSE FindFirst(ex, IncrFn(n), count + 1)

(* Mutation: only the first of the two files removed.                    *)
RemoveNextOnlyFirst(ex, n, moveAhead) ==
    ex \ {IF moveAhead THEN FindFirst(ex, n, 0) ELSE n}

(* remove_next_files(n, move_ahead): remove the file l and the next one,  *)
(* l being n, or with move_ahead the first existing file from n.          *)
RemoveNext(ex, n, moveAhead) ==
    LET l == IF moveAhead THEN FindFirst(ex, n, 0) ELSE n
    IN ex \ {l, IncrFn(l)}

(* find_next_filename(): from n, the first number whose file does not     *)
(* exist; past "99" it starts again at "00" after removing 00 and 01.      *)
(* The result is the number and the files left.                           *)
RECURSIVE FindNext(_, _)
FindNext(ex, n) ==
    IF n \notin ex THEN [fn |-> n, ex |-> ex]
    ELSE IF IncrFn(n) # 0 THEN FindNext(ex, IncrFn(n))
    ELSE FindNext(RemoveNext(ex, 0, FALSE), 0)

----------------------------------------------------------------------------
(* The card is empty when the logger first starts; the constructor sets  *)
(* every file number to 00.                                               *)
Init ==
    /\ files = {}
    /\ cur = 0
    /\ sdInitialized = FALSE
    /\ pc = "boot"

(* init() with the card and file system up: init_file_names(), then       *)
(* remove_next_files() of the new number, and with low free space the      *)
(* removal of the two oldest files.                                       *)
InitFileNames(ex) == FindNext(ex, FindFirst(ex, 0, 0))

SdInit(lowSpace) ==
    /\ pc = "boot"
    /\ LET nx == InitFileNames(files)
           ex1 == RemoveNext(nx.ex, nx.fn, FALSE)
           ex2 == IF lowSpace THEN RemoveNext(ex1, nx.fn, TRUE) ELSE ex1
       IN /\ files' = ex2
          /\ cur' = nx.fn
    /\ sdInitialized' = TRUE
    /\ pc' = "run"

(* init() when cardBegin() or fsBegin() fails: nothing is logged.         *)
SdInitFailed ==
    /\ pc = "boot"
    /\ sdInitialized' = FALSE
    /\ pc' = "run"
    /\ UNCHANGED <<files, cur>>

(* print()/println() to the file: open with O_CREAT | O_APPEND, write.    *)
Log ==
    /\ pc = "run" /\ sdInitialized
    /\ files' = files \cup {cur}
    /\ UNCHANGED <<cur, sdInitialized, pc>>

(* incrementIfIntervalHasBeen() when the interval has passed:             *)
(* increment_file_names() moves on only from a file that was written,     *)
(* then removes the new file and the next, and with low free space the     *)
(* two oldest.                                                            *)
IncrementFileNames(lowSpace) ==
    /\ pc = "run" /\ sdInitialized
    /\ LET c1 == IF cur \in files THEN IncrFn(cur) ELSE cur
           ex1 == RemoveNext(files, c1, FALSE)
           ex2 == IF lowSpace THEN RemoveNext(ex1, c1, TRUE) ELSE ex1
       IN /\ files' = ex2
          /\ cur' = c1
    /\ UNCHANGED <<sdInitialized, pc>>

(* A reset (power, watchdog, the reboot command): RAM is lost and the      *)
(* constructor runs again; the card keeps its files.                      *)
Reset ==
    /\ pc = "run"
    /\ pc' = "boot"
    /\ cur' = 0
    /\ sdInitialized' = FALSE
    /\ UNCHANGED files

Next ==
    \/ \E low \in BOOLEAN : SdInit(low) \/ IncrementFileNames(low)
    \/ SdInitFailed
    \/ Log
    \/ Reset

Spec == Init /\ [][Next]_vars

----------------------------------------------------------------------------
Numbers == 0..(Slots - 1)

TypeOK ==
    /\ files \subseteq Numbers /\ cur \in Numbers
    /\ sdInitialized \in BOOLEAN /\ pc \in {"boot", "run"}

(* The ring as the logger reads it: the existing files from the number    *)
(* after its current one round to the current one; before init() has      *)
(* run, from the number init() would resume at.                           *)
ResumePoint == IF pc = "run" /\ sdInitialized THEN cur
               ELSE InitFileNames(files).fn

LogView == SelectSeq([k \in 1..Slots |-> (ResumePoint + k) % Slots],
                     LAMBDA f : f \in files)

Ring == INSTANCE SdLogRing WITH logs <- LogView, Ids <- Numbers,
                                Capacity <- Slots - 1

(* The logger implements the ring: across logging, rotations with and      *)
(* without low free space, failed start-ups and resets (after which the   *)
(* position is rebuilt from the card alone, also past the wrap from "99"   *)
(* to "00"), every step either leaves the ring alone, appends the newly    *)
(* created current file after the newest, or deletes the oldest files;    *)
(* the logger never resumes between older files nor deletes a newer file  *)
(* than one it keeps, and a gap always remains.                           *)
ImplementsRing == Ring!Spec
================================================================================
