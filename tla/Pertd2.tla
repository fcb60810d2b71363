-------------------------------- MODULE Pertd2 --------------------------------
(***************************************************************************)
(* pertd2, the daemon that drives the Pertelian LCD from a FIFO, and the   *)
(* programs that write commands into that FIFO.                           *)
(*                                                                         *)
(* A writer sends commands as lines: "line1".."line4" followed by a       *)
(* timeout line, an end-of-data marker, the text lines and the marker      *)
(* again; "delay time" and "char delay" followed by a number; and the      *)
(* one-line commands.  The daemon's loop reads commands with the           *)
(* non-blocking read_line() until get_command() fails, refreshes the four *)
(* rows (expiring old lines, scrolling long ones with fill_line()), manages *)
(* the backlight and sleeps for delay_time microseconds.                  *)
(*                                                                         *)
(* A line is a sequence of characters.  fifo is what the reader has not    *)
(* consumed yet: the bytes in get_one_char()'s buffer followed by those in *)
(* the pipe; read_line() returns NULL exactly when it is empty.  A NULL    *)
(* entry of lines[] is the empty line: every use of lines[] (fill_line,    *)
(* data_to_display, the expiry) treats the two alike.                      *)
(***************************************************************************)
EXTENDS Integers, Sequences, SequencesExt, PertDisplay

CONSTANTS
    Writers,    \* the processes writing to the FIFO
    Sends,      \* Sends[w]: the commands writer w sends, in order
    Chunked,    \* TRUE: a writer's bytes may reach the pipe in several write()s
    InitDelay,  \* delay_time from the configuration, in microseconds
    MaxIter     \* bound on the iterations of the main loop

Digit == <<"0", "1", "2", "3", "4", "5", "6", "7", "8", "9">>
LineCmds == <<"line1", "line2", "line3", "line4">>

VARIABLES
    fifo,            \* unread lines
    pending,         \* pending[w]: the lines writer w has not written yet
    pc,              \* where the daemon is in its loop
    cur,             \* line_num of the process_line() in progress
    curTimeout,      \* its cur_timeout
    eod,             \* get_line()'s EOD string
    buf,             \* get_line()'s line_buffer
    lines,           \* lines[]
    pos,             \* pos[]
    refreshTime,     \* refresh_time[], seconds
    timeout,         \* timeout[], seconds
    backlightStatus, \* backlight_status
    backlightMgt,    \* backlight_mgt
    delayTime,       \* delay_time, microseconds
    charDelay,       \* char_delay
    stopIndicated,   \* stop_indicated
    clock,           \* the time in microseconds
    now,             \* main()'s now: time() at the top of the iteration
    iter,            \* iterations completed
    disp             \* the text last written to each row

vars == <<fifo, pending, pc, cur, curTimeout, eod, buf, lines, pos, refreshTime,
          timeout, backlightStatus, backlightMgt, delayTime, charDelay,
          stopIndicated, clock, now, iter, disp>>

Seconds(us) == us \div 1000000

(* The lines that carry a command: a line command is followed by its       *)
(* timeout, the marker, the text and the marker; a delay command by its    *)
(* value.                                                                 *)
Encode(c) ==
    CASE c.cmd \in Range(LineCmds) ->
              <<<<c.cmd>>, c.arg, c.eod>> \o c.text \o <<c.eod>>
      [] c.cmd \in {"delay time", "char delay"} -> <<<<c.cmd>>, c.arg>>
      [] OTHER -> <<<<c.cmd>>>>

Stream(w) == FlattenSeq([k \in DOMAIN Sends[w] |-> Encode(Sends[w][k])])

(* is_numeric(): every character a digit (so the empty line is numeric).  *)
IsNumeric(l) == \A k \in DOMAIN l : l[k] \in Range(Digit)

(* atoi() of a numeric line.                                              *)
Atoi(l) ==
    FoldLeft(LAMBDA acc, c : 10 * acc + (CHOOSE d \in 0..9 : Digit[d + 1] = c),
             0, l)

(* read_line() through get_one_char(): the next line, or NULL (the loop   *)
(* sees an empty FIFO) leaving nothing consumed.                          *)
AfterReadLine == IF fifo = <<>> THEN fifo ELSE Tail(fifo)

----------------------------------------------------------------------------
(* read_config() with no configuration file but delay_time, then the       *)
(* initialisation of main(): empty lines, the backlight on.                *)
Init ==
    /\ fifo = <<>>
    /\ pending = [w \in Writers |-> Stream(w)]
    /\ pc = "cmd"
    /\ cur = 0 /\ curTimeout = 0 /\ eod = <<>> /\ buf = <<>>
    /\ lines = [i \in Rows |-> <<>>]
    /\ pos = [i \in Rows |-> 0]
    /\ refreshTime = [i \in Rows |-> 0]
    /\ timeout = [i \in Rows |-> 0]
    /\ backlightStatus = 1
    /\ backlightMgt = 0
    /\ delayTime = IF InitDelay = 0 THEN 500000 ELSE InitDelay
    /\ charDelay = 1
    /\ stopIndicated = FALSE
    /\ clock = 0 /\ now = 0 /\ iter = 0
    /\ disp = [i \in Rows |-> Blanks]

(* A writer's write(): all it has left (one flush of its stdio buffer), or *)
(* when Chunked any non-empty part of it.  Pipe writes are atomic.         *)
Write(w) ==
    /\ pc # "done"
    /\ pending[w] # <<>>
    /\ \E k \in IF Chunked THEN 1..Len(pending[w]) ELSE {Len(pending[w])} :
          /\ fifo' = fifo \o SubSeq(pending[w], 1, k)
          /\ pending' = [pending EXCEPT ![w] = SubSeq(@, k + 1, Len(@))]
    /\ UNCHANGED <<pc, cur, curTimeout, eod, buf, lines, pos, refreshTime,
                   timeout, backlightStatus, backlightMgt, delayTime, charDelay,
                   stopIndicated, clock, now, iter, disp>>

----------------------------------------------------------------------------
(* get_command(): read_line() and the command it names.                   *)
CommandText ==
    {"backlight on", "backlight off", "stop", "line1", "line2", "line3",
     "line4", "delay time", "char delay", "backlight mgt on",
     "backlight mgt off"}

Reads(kw) == pc = "cmd" /\ fifo # <<>> /\ Head(fifo) = <<kw>> /\ fifo' = Tail(fifo)

loopVars == <<refreshTime, timeout, clock, now, iter, disp, pos>>

(* error_cmd: no data, or a line that is no command (it is thrown away);  *)
(* processing_command becomes 0 and the display is refreshed.             *)
NoCommand ==
    /\ pc = "cmd"
    /\ ~(fifo # <<>> /\ Head(fifo) \in {<<c>> : c \in CommandText})
    /\ fifo' = AfterReadLine
    /\ pc' = "refresh"
    /\ UNCHANGED <<pending, cur, curTimeout, eod, buf, lines, backlightStatus,
                   backlightMgt, delayTime, charDelay, stopIndicated, loopVars>>

BacklightCmd(on) ==
    /\ Reads(IF on = 1 THEN "backlight on" ELSE "backlight off")
    /\ backlightStatus' = on
    /\ UNCHANGED <<pending, pc, cur, curTimeout, eod, buf, lines, backlightMgt,
                   delayTime, charDelay, stopIndicated, loopVars>>

BacklightMgtCmd(on) ==
    /\ Reads(IF on = 1 THEN "backlight mgt on" ELSE "backlight mgt off")
    /\ backlightMgt' = on
    /\ UNCHANGED <<pending, pc, cur, curTimeout, eod, buf, lines,
                   backlightStatus, delayTime, charDelay, stopIndicated,
                   loopVars>>

(* stop: the loop still processes the remaining commands and refreshes.   *)
StopCmd ==
    /\ Reads("stop")
    /\ stopIndicated' = TRUE
    /\ UNCHANGED <<pending, pc, cur, curTimeout, eod, buf, lines,
                   backlightStatus, backlightMgt, delayTime, charDelay,
                   loopVars>>

(* lineN: process_line(N-1) begins with get_timeout().                   *)
LineCmd(i) ==
    /\ Reads(LineCmds[i + 1])
    /\ pc' = "timeout"
    /\ cur' = i
    /\ UNCHANGED <<pending, curTimeout, eod, buf, lines, backlightStatus,
                   backlightMgt, delayTime, charDelay, stopIndicated, loopVars>>

DelayCmd(kw) ==
    /\ Reads(kw)
    /\ pc' = IF kw = "delay time" THEN "delay" ELSE "chardelay"
    /\ UNCHANGED <<pending, cur, curTimeout, eod, buf, lines, backlightStatus,
                   backlightMgt, delayTime, charDelay, stopIndicated, loopVars>>

----------------------------------------------------------------------------
(* The reads that complete a command.  Each is one read_line() call, and   *)
(* finds NULL when the writer has not written the line yet.               *)
Stored(text) ==
    /\ lines' = [lines EXCEPT ![cur] = text]
    /\ timeout' = [timeout EXCEPT ![cur] = curTimeout]
    /\ refreshTime' = [refreshTime EXCEPT ![cur] = Seconds(clock)]

(* Mutation: the timeout line read but left in the FIFO.                *)
GetTimeoutNoConsume ==
    /\ pc = "timeout"
    /\ curTimeout' = IF fifo # <<>> /\ IsNumeric(Head(fifo))
                     THEN Atoi(Head(fifo)) ELSE 0
    /\ UNCHANGED fifo
    /\ pc' = "eod"
    /\ UNCHANGED <<pending, cur, eod, buf, lines, backlightStatus, backlightMgt,
                   delayTime, charDelay, stopIndicated, loopVars>>

(* Mutation: a bad timeout (-1) not replaced by 0.                      *)
GetTimeoutUnclamped ==
    /\ pc = "timeout"
    /\ curTimeout' = IF fifo # <<>> /\ IsNumeric(Head(fifo))
                     THEN Atoi(Head(fifo)) ELSE -1
    /\ fifo' = AfterReadLine
    /\ pc' = "eod"
    /\ UNCHANGED <<pending, cur, eod, buf, lines, backlightStatus, backlightMgt,
                   delayTime, charDelay, stopIndicated, loopVars>>

(* get_timeout(): no data or a non-numeric line gives -1, which            *)
(* process_line() replaces by 0.                                           *)
GetTimeout ==
    /\ pc = "timeout"
    /\ curTimeout' = IF fifo # <<>> /\ IsNumeric(Head(fifo))
                     THEN Atoi(Head(fifo)) ELSE 0
    /\ fifo' = AfterReadLine
    /\ pc' = "eod"
    /\ UNCHANGED <<pending, cur, eod, buf, lines, backlightStatus, backlightMgt,
                   delayTime, charDelay, stopIndicated, loopVars>>

(* get_line() reading its EOD string: with no data it returns NULL, and   *)
(* process_line() stores that as the line.                                *)
GetEOD ==
    /\ pc = "eod"
    /\ IF fifo = <<>>
       THEN /\ Stored(<<>>)
            /\ pc' = "cmd"
            /\ UNCHANGED <<fifo, eod, buf>>
       ELSE /\ eod' = Head(fifo)
            /\ buf' = <<>>
            /\ fifo' = Tail(fifo)
            /\ pc' = "text"
            /\ UNCHANGED <<lines, timeout, refreshTime>>
    /\ UNCHANGED <<pending, cur, curTimeout, backlightStatus, backlightMgt,
                   delayTime, charDelay, stopIndicated, clock, now, iter, disp,
                   pos>>

(* get_line() reading a text line: the EOD string or no data ends the     *)
(* line, which process_line() stores; any other line is appended, after a *)
(* blank when the buffer is not empty.                                    *)
GetText ==
    /\ pc = "text"
    /\ IF fifo = <<>> \/ Head(fifo) = eod
       THEN /\ Stored(buf)
            /\ pc' = "cmd"
            /\ fifo' = AfterReadLine
            /\ UNCHANGED buf
       ELSE /\ buf' = IF Len(buf) > 0 THEN buf \o <<" ">> \o Head(fifo)
                      ELSE Head(fifo)
            /\ fifo' = Tail(fifo)
            /\ UNCHANGED <<pc, lines, timeout, refreshTime>>
    /\ UNCHANGED <<pending, cur, curTimeout, eod, backlightStatus,
                   backlightMgt, delayTime, charDelay, stopIndicated, clock,
                   now, iter, disp, pos>>

(* process_delay_time() and process_char_delay(): a non-empty numeric line *)
(* sets the value; an empty or non-numeric one is dropped.                *)
SetDelay ==
    /\ pc \in {"delay", "chardelay"}
    /\ fifo' = AfterReadLine
    /\ IF fifo # <<>> /\ Len(Head(fifo)) > 0 /\ IsNumeric(Head(fifo))
       THEN IF pc = "delay"
            THEN delayTime' = Atoi(Head(fifo)) /\ UNCHANGED charDelay
            ELSE charDelay' = Atoi(Head(fifo)) /\ UNCHANGED delayTime
       ELSE UNCHANGED <<delayTime, charDelay>>
    /\ pc' = "cmd"
    /\ UNCHANGED <<pending, cur, curTimeout, eod, buf, lines, backlightStatus,
                   backlightMgt, stopIndicated, loopVars>>

----------------------------------------------------------------------------
(* A line with a timeout older than it, at the iteration's time.          *)
Expired(i) == timeout[i] > 0 /\ now - refreshTime[i] > timeout[i]

(* The rest of an iteration of main(): the refresh loop (expiry, then      *)
(* wrtln(i, fill_line(i, 0)) for each row in order), the date and time     *)
(* when there is nothing to show, backlight management, sleep_us() and     *)
(* the loop test (on stop, the closing message).                           *)
Refresh ==
    /\ pc = "refresh"
    /\ iter < MaxIter
    /\ LET shown == [i \in Rows |-> IF Expired(i) THEN <<>> ELSE lines[i]]
           scroll == ScrollRows(shown, pos)
           data == DataToDisplay(shown)
       IN /\ lines' = shown
          /\ pos' = scroll.pos
          /\ disp' = CASE stopIndicated -> StoppedRows
                       [] data -> scroll.rows
                       [] OTHER -> WithDate(scroll.rows)
          /\ backlightStatus' = IF backlightMgt = 1
                                THEN IF data THEN 1 ELSE 0
                                ELSE backlightStatus
    /\ clock' = clock + delayTime
    /\ now' = Seconds(clock + delayTime)
    /\ iter' = iter + 1
    /\ pc' = IF stopIndicated THEN "done" ELSE "cmd"
    /\ UNCHANGED <<fifo, pending, cur, curTimeout, eod, buf, refreshTime,
                   timeout, backlightMgt, delayTime, charDelay, stopIndicated>>

Next ==
    \/ \E w \in Writers : Write(w)
    \/ NoCommand
    \/ \E on \in {0, 1} : BacklightCmd(on) \/ BacklightMgtCmd(on)
    \/ StopCmd
    \/ \E i \in Rows : LineCmd(i)
    \/ \E kw \in {"delay time", "char delay"} : DelayCmd(kw)
    \/ GetTimeout
    \/ GetEOD
    \/ GetText
    \/ SetDelay
    \/ Refresh

Spec == Init /\ [][Next]_vars

----------------------------------------------------------------------------
Line == Seq(STRING)

TypeOK ==
    /\ pc \in {"cmd", "timeout", "eod", "text", "delay", "chardelay",
               "refresh", "done"}
    /\ cur \in Rows
    /\ lines \in [Rows -> Line]
    /\ pos \in [Rows -> Nat]
    /\ timeout \in [Rows -> Nat]
    /\ refreshTime \in [Rows -> Nat]
    /\ backlightStatus \in {0, 1} /\ backlightMgt \in {0, 1}
    /\ delayTime \in Nat /\ charDelay \in Nat
    /\ disp \in [Rows -> [1..Width -> STRING]]

(* The text a writer meant for a row: its text lines separated by blanks. *)
Joined(text) ==
    FlattenSeq([k \in DOMAIN text |-> IF k = 1 THEN text[k]
                                      ELSE <<" ">> \o text[k]])

(* What a bad timeout means to the daemon: no expiry.                     *)
TimeoutOf(arg) == IF IsNumeric(arg) THEN Atoi(arg) ELSE 0

(* Every row the daemon shows holds the text of one lineN command some     *)
(* writer sent for that row, with that command's timeout: the parser of   *)
(* get_command / get_timeout / get_line never mixes the lines of two       *)
(* commands, nor shows a marker, a timeout or a command as text.           *)
DisplayedLineIsSentMessage ==
    \A i \in Rows : lines[i] # <<>> =>
        \E w \in Writers : \E k \in DOMAIN Sends[w] :
            /\ Sends[w][k].cmd = LineCmds[i + 1]
            /\ lines[i] = Joined(Sends[w][k].text)
            /\ timeout[i] = TimeoutOf(Sends[w][k].arg)
====
