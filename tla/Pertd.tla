--------------------------------- MODULE Pertd ---------------------------------
(***************************************************************************)
(* pertd, the first Pertelian LCD daemon, and the processes that feed it   *)
(* through files.                                                          *)
(*                                                                         *)
(* Other programs write the text of row i into the data file pert<i+1> and *)
(* create the control files pertstop, backlighton, backlightoff and        *)
(* pertrefresh, or send SIGUSR1.  Each iteration of the daemon's loop     *)
(* checks the control files (removing those it finds), and when the        *)
(* refresh time is hit stats each data file: a file whose st_mtime (whole  *)
(* seconds) differs from the one recorded is read again.  It then fills   *)
(* the rows, shows the date when there is nothing to show, and sleeps.     *)
(*                                                                         *)
(* file[i] is the content of data file i, or NoFile; a content is a        *)
(* sequence of characters in which "\n" is the newline.  The daemon's      *)
(* time is clock, in microseconds; time() is Seconds(clock).  The writer  *)
(* of a data file either replaces it whole (a rename of a file written    *)
(* elsewhere) or truncates it and then writes it (a shell redirection).    *)
(***************************************************************************)
EXTENDS Integers, Sequences, PertDisplay

CONSTANTS
    Versions,     \* Versions[i]: the contents written to data file i, in order
    AtomicRows,   \* the rows whose writer replaces the file in one step
    OncePerSecond,\* TRUE: no two changes of a file fall in the same second
    Controls,     \* the control files the environment may create
    RefreshTime,  \* refresh_time, seconds
    DelayTime,    \* delay_time, microseconds
    BacklightMgt, \* backlight_mgt
    Epoch,        \* time() when the daemon starts, seconds
    MaxIter,      \* bound on the iterations of the main loop
    QuietAfter,   \* the data files change only before this iteration
    NoFile        \* a data file that does not exist

ASSUME /\ RefreshTime > 0 /\ DelayTime > 0 /\ Epoch > RefreshTime
       /\ Controls \subseteq {"stop", "backlighton", "backlightoff", "refresh"}
       /\ BacklightMgt \in {0, 1}

VARIABLES
    file,            \* data file contents
    mtime,           \* their st_mtime, seconds
    ver,             \* ver[i]: how many of Versions[i] writer i has begun
    writing,         \* writing[i]: writer i truncated file i and has not written
    ctl,             \* the control files that exist
    pc,              \* where the daemon is in its loop
    idx,             \* read_data()'s i
    lastModTime,     \* last_mod_time[]
    lastRefreshTime, \* last_refresh_time, seconds
    lines,           \* lines[]
    pos,             \* pos[]
    backlightOn,     \* backlight_on
    clock,           \* the time in microseconds
    iter,            \* iterations completed
    disp,            \* the text last written to each row
    checked          \* ghost: checked[i], see LineReflectsFile

vars == <<file, mtime, ver, writing, ctl, pc, idx, lastModTime,
          lastRefreshTime, lines, pos, backlightOn, clock, iter, disp, checked>>

Seconds(us) == us \div 1000000
NL == "\n"

(* Mutation: the loop over the newlines left out.                        *)
ReadLineNewlinesKept(c) ==
    LET t == SubSeq(c, 1, Len(c) - 1)
    IN IF Len(t) > Width THEN t \o <<" ", "-", " ">> ELSE t

(* read_data() on the bytes c read from a file: the last character is     *)
(* dropped, the remaining newlines become spaces, and a line too long for  *)
(* a row gets the " - " separator.                                        *)
ReadLine(c) ==
    LET t == [k \in 1..(Len(c) - 1) |-> IF c[k] = NL THEN " " ELSE c[k]]
    IN IF Len(t) > Width THEN t \o <<" ", "-", " ">> ELSE t

----------------------------------------------------------------------------
(* read_config() with refresh_time, delay_time and backlight_mgt set, and   *)
(* the start of main(): backlight on, last_refresh_time and last_mod_time  *)
(* zero, no lines.  No data file exists yet.                               *)
Init ==
    /\ file = [i \in Rows |-> NoFile]
    /\ mtime = [i \in Rows |-> 0]
    /\ ver = [i \in Rows |-> 0]
    /\ writing = [i \in Rows |-> FALSE]
    /\ ctl = {}
    /\ pc = "top" /\ idx = 0
    /\ lastModTime = [i \in Rows |-> 0]
    /\ lastRefreshTime = 0
    /\ lines = [i \in Rows |-> <<>>]
    /\ pos = [i \in Rows |-> 0]
    /\ backlightOn = 1
    /\ clock = Epoch * 1000000
    /\ iter = 0
    /\ disp = [i \in Rows |-> Blanks]
    /\ checked = [i \in Rows |-> FALSE]

daemonVars == <<pc, idx, lastModTime, lastRefreshTime, lines, pos,
                backlightOn, clock, iter, disp>>

(* The environment.  With OncePerSecond, a file changes only in a later   *)
(* second than its last change; no file changes from iteration QuietAfter  *)
(* on, which leaves the daemon the rest of its iterations to catch up.     *)
MayChange(i) == /\ pc # "done" /\ iter < QuietAfter
                /\ OncePerSecond => mtime[i] < Seconds(clock)

MayWrite(i) == MayChange(i) /\ ~writing[i] /\ ver[i] < Len(Versions[i])

Modified(i, c) ==
    /\ file' = [file EXCEPT ![i] = c]
    /\ mtime' = [mtime EXCEPT ![i] = Seconds(clock)]
    /\ checked' = [checked EXCEPT ![i] = FALSE]

ReplaceFile(i) ==
    /\ i \in AtomicRows /\ MayWrite(i)
    /\ Modified(i, Versions[i][ver[i] + 1])
    /\ ver' = [ver EXCEPT ![i] = @ + 1]
    /\ UNCHANGED <<writing, ctl, daemonVars>>

TruncateFile(i) ==
    /\ i \notin AtomicRows /\ MayWrite(i)
    /\ Modified(i, <<>>)
    /\ ver' = [ver EXCEPT ![i] = @ + 1]
    /\ writing' = [writing EXCEPT ![i] = TRUE]
    /\ UNCHANGED <<ctl, daemonVars>>

WriteFile(i) ==
    /\ writing[i] /\ MayChange(i)
    /\ Modified(i, Versions[i][ver[i]])
    /\ writing' = [writing EXCEPT ![i] = FALSE]
    /\ UNCHANGED <<ver, ctl, daemonVars>>

CreateControl(f) ==
    /\ pc # "done" /\ f \notin ctl
    /\ ctl' = ctl \cup {f}
    /\ UNCHANGED <<file, mtime, ver, writing, daemonVars, checked>>

(* SIGUSR1: schedule_dataread() runs between two steps of the loop.       *)
Sigusr1 ==
    /\ pc # "done"
    /\ lastRefreshTime' = 0
    /\ UNCHANGED <<file, mtime, ver, writing, ctl, pc, idx, lastModTime,
                   lines, pos, backlightOn, clock, iter, disp, checked>>

----------------------------------------------------------------------------
(* stop_indicated(), backlighton_indicated(), backlightoff_indicated(),   *)
(* refresh_indicated(): the control file f exists (the caller removes it). *)
Indicated(f) == f \in ctl

(* The top of main()'s loop with the stop file present: the closing       *)
(* message, and the daemon exits.                                         *)
Stop ==
    /\ pc = "top" /\ Indicated("stop")
    /\ ctl' = ctl \ {"stop"}
    /\ disp' = StoppedRows
    /\ pc' = "done"
    /\ UNCHANGED <<file, mtime, ver, writing, idx, lastModTime, lastRefreshTime,
                   lines, pos, backlightOn, clock, iter, checked>>

(* refresh_time_hit() with last_refresh_time lr: more than refresh_time    *)
(* seconds since it.                                                      *)
RefreshTimeHit(lr) == Seconds(clock) - lr > RefreshTime

(* Mutation: the refresh period restarted on every pass, hit or not.     *)
TopOfLoopAlwaysRestart ==
    /\ pc = "top" /\ ~Indicated("stop")
    /\ LET lr == IF Indicated("refresh") THEN 0 ELSE lastRefreshTime
       IN /\ lastRefreshTime' = Seconds(clock)
          /\ pc' = IF RefreshTimeHit(lr) THEN "read" ELSE "show"
    /\ ctl' = ctl \ {"backlighton", "backlightoff", "refresh"}
    /\ backlightOn' = CASE Indicated("backlightoff") -> 0
                        [] Indicated("backlighton") -> 1
                        [] OTHER -> backlightOn
    /\ idx' = 0
    /\ UNCHANGED <<file, mtime, ver, writing, lastModTime, lines, pos, clock,
                   iter, disp, checked>>

(* The rest of the top of the loop: the backlight files, the refresh file  *)
(* (schedule_dataread()), then refresh_time_hit(), which restarts the      *)
(* refresh period when it decides that read_data() runs.                   *)
TopOfLoop ==
    /\ pc = "top" /\ ~Indicated("stop")
    /\ LET lr == IF Indicated("refresh") THEN 0 ELSE lastRefreshTime
       IN /\ lastRefreshTime' = IF RefreshTimeHit(lr) THEN Seconds(clock) ELSE lr
          /\ pc' = IF RefreshTimeHit(lr) THEN "read" ELSE "show"
    /\ ctl' = ctl \ {"backlighton", "backlightoff", "refresh"}
    /\ backlightOn' = CASE Indicated("backlightoff") -> 0
                        [] Indicated("backlighton") -> 1
                        [] OTHER -> backlightOn
    /\ idx' = 0
    /\ UNCHANGED <<file, mtime, ver, writing, lastModTime, lines, pos, clock,
                   iter, disp, checked>>

(* data_file_changed(i): a file that cannot be stat'ed counts as changed. *)
DataFileChanged(i) == file[i] = NoFile \/ mtime[i] # lastModTime[i]

(* What read_data() makes of a changed file: NULL when it is missing      *)
(* (fopen fails), empty (st_size 0) or nothing is read.                    *)
NewLine(i) == IF file[i] \in {NoFile, <<>>} THEN <<>> ELSE ReadLine(file[i])

(* Mutation: the loop runs to i <= 4.                                    *)
ReadDoneOffByOne(i) == i = 4

(* The test of read_data()'s for loop after the pass for data file i.     *)
ReadDone(i) == i = 3

(* backlight_management(): with backlight_mgt, the backlight on exactly    *)
(* when some line of ls has data.                                        *)
BacklightManagement(ls) ==
    IF BacklightMgt = 1 THEN IF DataToDisplay(ls) THEN 1 ELSE 0 ELSE backlightOn

(* One pass of read_data()'s loop, for data file idx; after the last one, *)
(* backlight_management().  checked records whether this check happened in *)
(* a later second than the file's last change.                            *)
ReadDataFile ==
    /\ pc = "read"
    /\ LET i == idx
           ls == IF DataFileChanged(i) THEN [lines EXCEPT ![i] = NewLine(i)]
                 ELSE lines
       IN /\ lines' = ls
          /\ lastModTime' = [lastModTime EXCEPT ![i] =
                               IF file[i] = NoFile THEN 0 ELSE mtime[i]]
          /\ checked' = [checked EXCEPT ![i] =
                           file[i] = NoFile \/ mtime[i] < Seconds(clock)]
          /\ idx' = IF ReadDone(i) THEN 0 ELSE i + 1
          /\ pc' = IF ReadDone(i) THEN "show" ELSE "read"
          /\ backlightOn' = IF ReadDone(i) THEN BacklightManagement(ls)
                            ELSE backlightOn
    /\ UNCHANGED <<file, mtime, ver, writing, ctl, lastRefreshTime, pos, clock,
                   iter, disp>>

(* The horizontal refresh of every row, the date when no line has data,   *)
(* and sleep_us(delay_time).  (inVerticalMode() always returns 0.)         *)
Show ==
    /\ pc = "show"
    /\ iter < MaxIter
    /\ LET scroll == ScrollRows(lines, pos)
       IN /\ pos' = scroll.pos
          /\ disp' = IF DataToDisplay(lines) THEN scroll.rows
                     ELSE WithDate(scroll.rows)
    /\ clock' = clock + DelayTime
    /\ iter' = iter + 1
    /\ pc' = "top"
    /\ UNCHANGED <<file, mtime, ver, writing, ctl, idx, lastModTime,
                   lastRefreshTime, lines, backlightOn, checked>>

Next ==
    \/ \E i \in Rows : ReplaceFile(i) \/ TruncateFile(i) \/ WriteFile(i)
    \/ \E f \in Controls : CreateControl(f)
    \/ Sigusr1
    \/ Stop
    \/ TopOfLoop
    \/ ReadDataFile
    \/ Show

Spec == Init /\ [][Next]_vars

(* The daemon is one process looping with sleep_us(), so each step of its *)
(* loop that is enabled is eventually taken.  Nothing is assumed of the   *)
(* writers.                                                               *)
FairSpec ==
    /\ Spec
    /\ WF_vars(Stop) /\ WF_vars(TopOfLoop) /\ WF_vars(ReadDataFile)
    /\ WF_vars(Show)

----------------------------------------------------------------------------
Content == Seq({NL, " ", "-", "a", "b", "c", "d", "e", "f"})

TypeOK ==
    /\ \A i \in Rows : file[i] = NoFile \/ file[i] \in Content
    /\ pc \in {"top", "read", "show", "done"} /\ idx \in Rows
    /\ lastModTime \in [Rows -> Nat] /\ lastRefreshTime \in Nat
    /\ lines \in [Rows -> Content] /\ backlightOn \in {0, 1}
    /\ pos \in [Rows -> Nat] /\ checked \in [Rows -> BOOLEAN]

(* What a data file should show, as the comments of read_data() describe  *)
(* it: nothing for a missing or empty file; otherwise the text with its    *)
(* trailing newline trimmed, the other newlines as spaces, and " - "       *)
(* appended when it must scroll.                                          *)
Shown(c) ==
    IF c \in {NoFile, <<>>} THEN <<>>
    ELSE LET t == IF c[Len(c)] = NL THEN SubSeq(c, 1, Len(c) - 1) ELSE c
             u == [k \in DOMAIN t |-> IF t[k] = NL THEN " " ELSE t[k]]
         IN IF Len(u) > Width THEN u \o <<" ", "-", " ">> ELSE u

(* A data file the daemon checked in a second after the file last changed *)
(* is what the row shows: the mtime comparison of data_file_changed()      *)
(* loses no update, and read_data() turns the file into the line that the  *)
(* file describes.                                                        *)
LineReflectsFile == \A i \in Rows : checked[i] => lines[i] = Shown(file[i])

(* Once the writers are done, every row eventually shows, and keeps        *)
(* showing, what its data file describes, unless the daemon was stopped:   *)
(* refresh_time_hit() must keep letting read_data() run, and the           *)
(* last_mod_time comparison must notice each file's last change.           *)
LinesCatchUp ==
    <>[](pc # "done" => \A i \in Rows : lines[i] = Shown(file[i]))
================================================================================
