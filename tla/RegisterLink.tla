----------------------------- MODULE RegisterLink -----------------------------
(***************************************************************************)
(* The serial link between the winch's MM3 driver and the Motion Mind 3   *)
(* controller, request by request.                                        *)
(*                                                                         *)
(* Every driver call sends one line and waits for one line back with      *)
(* Serial3.readBytesUntil(), which gives up after its timeout: a read      *)
(* ("R01 rr") is answered by "rr=value", a write ("W01 rr v") or a         *)
(* velocity command ("V01 v") by "OK".  readRegister() parses the number   *)
(* after '=' and sets badRead only when no byte came; writeMM3() only logs *)
(* what it got.  Nothing ever discards input, so a reply that comes after  *)
(* its timeout is the first line the next call reads.                     *)
(*                                                                         *)
(* The driver runs readController(), stopMoving(), and moveSetup() followed *)
(* by moveAtSpeed(), as the winch's loop and commands call them.  The      *)
(* controller serves the requests in order.  Faults: a request or a reply  *)
(* is lost (at most MaxLost), and, with LateReplies, a reply may come      *)
(* after the driver stopped waiting.                                      *)
(***************************************************************************)
EXTENDS Integers, Sequences

CONSTANTS
    VPLim,        \* m_vplim, in counts
    PosMax,       \* the controller's position register ranges over 0..PosMax
    Amps,         \* what register 29 (amps) reads
    Status,       \* what register 16 (status) reads
    Spd,          \* the velocity register the move command writes
    LateReplies,  \* TRUE: a reply may arrive after its timeout
    MaxLost,      \* bound on lost requests and replies
    MaxOps        \* bound on the driver calls started

ASSUME /\ PosMax <= VPLim /\ Spd > 0 /\ MaxLost \in Nat /\ MaxOps \in Nat

VARIABLES
    regs,       \* the controller's registers
    tx,         \* requests on the way to the controller
    rx,         \* reply lines the driver has not read
    op,         \* the driver call in progress, or "idle"
    out,        \* the request whose reply the driver waits for
    prog,       \* the requests the call still has to send
    currPos,    \* m_currPos, in counts
    currStatus, \* m_currStatus
    badRead,    \* badRead
    stopped,    \* m_stopped
    lost,       \* requests and replies lost so far
    ops,        \* driver calls started so far
    posSrc,     \* ghost: the request whose reply gave currPos
    statusSrc   \* ghost: the request whose reply gave currStatus

vars == <<regs, tx, rx, op, out, prog, currPos, currStatus, badRead, stopped,
          lost, ops, posSrc, statusSrc>>

AbsVal(x) == IF x < 0 THEN -x ELSE x

(* FN_REG_STOPPED and FN_REG_MOVING differ in the DISABLEPID bit only;    *)
(* the function register is kept as that bit.                             *)
FnStopped == 1
FnMoving == 0

Read(r) == [cmd |-> "R", reg |-> r, val |-> 0]
Write(r, v) == [cmd |-> "W", reg |-> r, val |-> v]
Vel(v) == [cmd |-> "V", reg |-> "V", val |-> v]

(* readController(): position, speed, amps, status, in this order.        *)
ReadSeq == <<Read("00"), Read("14"), Read("29"), Read("16")>>

(* Mutation: stopMoving() without its pwm-limit write.                   *)
StopSeqNoPwm == <<Write("03", FnStopped), Write("01", 0)>>

(* stopMoving(): function STOPPED, velocity limit 0, pwm limit 0; each    *)
(* of them alone leaves the controller unable to move.                    *)
StopSeq == <<Write("03", FnStopped), Write("01", 0), Write("25", 0)>>

(* moveSetup(pct): amps limit, pwm limit 1023, function MOVING, velocity  *)
(* limit; then moveAtSpeed(pct): V01.                                     *)
MoveSeq == <<Write("28", Amps), Write("25", 1023), Write("03", FnMoving),
             Write("01", Spd), Vel(Spd)>>

(* The controller: it can move when the PID is on, both limits are        *)
(* non-zero and it holds a non-zero velocity command.                     *)
CanMove(g) == g.fn = FnMoving /\ g.vel > 0 /\ g.pwm > 0 /\ g.v # 0

RegVal(g, r) == CASE r = "00" -> g.pos
                  [] r = "14" -> IF CanMove(g) THEN g.v ELSE 0
                  [] r = "29" -> Amps
                  [] OTHER -> Status

Apply(g, q) == CASE q.reg = "00" -> [g EXCEPT !.pos = q.val]
                 [] q.reg = "01" -> [g EXCEPT !.vel = q.val]
                 [] q.reg = "03" -> [g EXCEPT !.fn = q.val]
                 [] q.reg = "25" -> [g EXCEPT !.pwm = q.val]
                 [] q.reg = "V" -> [g EXCEPT !.v = q.val]
                 [] OTHER -> g

----------------------------------------------------------------------------
(* init() has left the controller stopped and the cache filled.           *)
Init ==
    /\ regs = [pos |-> 0, fn |-> FnStopped, vel |-> 1023, pwm |-> 0, v |-> 0]
    /\ tx = <<>> /\ rx = <<>>
    /\ op = "idle" /\ out = Read("00") /\ prog = <<>>
    /\ currPos = 0 /\ currStatus = Status
    /\ badRead = FALSE /\ stopped = TRUE
    /\ lost = 0 /\ ops = 0
    /\ posSrc = "init" /\ statusSrc = "init"

(* A driver call begins by sending its first request.                     *)
Begin(o, s) ==
    /\ op = "idle" /\ ops < MaxOps
    /\ op' = o
    /\ out' = Head(s)
    /\ prog' = Tail(s)
    /\ tx' = Append(tx, Head(s))
    /\ ops' = ops + 1
    /\ UNCHANGED <<regs, rx, currPos, currStatus, badRead, stopped, lost,
                   posSrc, statusSrc>>

Call == \/ Begin("read", ReadSeq)
        \/ Begin("stop", StopSeq)
        \/ Begin("move", MoveSeq)

(* What readBytesUntil() leaves in rcvBuf when it times out: nothing, so   *)
(* strchr() finds no '=' and atol() reads the zero register.              *)
NoLine == [src |-> "timeout", val |-> 0]

(* Mutation: badRead never set, a timed-out read looks like a good one.   *)
ReadResultNoBad(line) == [val |-> line.val, bad |-> FALSE]

(* readRegister()'s result for the line read (NoLine when it timed out):  *)
(* the number after '=', or 0 when there is none (an "OK" or an empty     *)
(* buffer: atol(NULL + 1) reads the ATmega's zero register), and badRead  *)
(* exactly when no byte came.                                            *)
ReadResult(line) == [val |-> line.val, bad |-> line = NoLine]

(* The driver gets the line (or the timeout) for out, acts on it as the   *)
(* code after the call does, and sends its next request or returns.       *)
(* readController(): a position beyond the virtual limit is not adopted,  *)
(* setPos(m_currPos) writes the cached one back and badRead is set; a     *)
(* position or status is adopted when badRead is clear.  stopMoving()     *)
(* sets m_stopped after its writes, moveSetup() clears it after its own.  *)
Complete(line) ==
    LET r == ReadResult(line)
        fault == out = Read("00") /\ AbsVal(r.val) > VPLim
        nprog == IF fault THEN <<Write("00", currPos)>> \o prog ELSE prog
    IN /\ badRead' = CASE out.cmd # "R" -> badRead
                       [] fault -> TRUE
                       [] OTHER -> r.bad
       /\ IF out = Read("00") /\ ~fault /\ ~r.bad
          THEN currPos' = r.val /\ posSrc' = line.src
          ELSE UNCHANGED <<currPos, posSrc>>
       /\ IF out = Read("16") /\ ~r.bad
          THEN currStatus' = r.val /\ statusSrc' = line.src
          ELSE UNCHANGED <<currStatus, statusSrc>>
       /\ stopped' = CASE op = "stop" /\ nprog = <<>> -> TRUE
                       [] op = "move" /\ out = Write("01", Spd) -> FALSE
                       [] OTHER -> stopped
       /\ IF nprog = <<>>
          THEN op' = "idle" /\ UNCHANGED <<out, prog, tx>>
          ELSE /\ out' = Head(nprog) /\ prog' = Tail(nprog)
               /\ tx' = Append(tx, Head(nprog))
               /\ UNCHANGED op

(* readBytesUntil() returns the first line in the input buffer.           *)
Receive ==
    /\ op # "idle" /\ rx # <<>>
    /\ Complete(Head(rx))
    /\ rx' = Tail(rx)
    /\ UNCHANGED <<regs, lost, ops>>

(* readBytesUntil() times out with nothing received.  Without late        *)
(* replies this happens only when the request or its reply was lost.       *)
Timeout ==
    /\ op # "idle" /\ rx = <<>>
    /\ LateReplies \/ tx = <<>>
    /\ Complete(NoLine)
    /\ UNCHANGED <<regs, rx, lost, ops>>

----------------------------------------------------------------------------
(* The controller serves the oldest request.                              *)
Serve ==
    /\ tx # <<>>
    /\ LET q == Head(tx)
       IN /\ regs' = IF q.cmd = "R" THEN regs ELSE Apply(regs, q)
          /\ rx' = Append(rx, IF q.cmd = "R"
                              THEN [src |-> q.reg, val |-> RegVal(regs, q.reg)]
                              ELSE [src |-> "OK", val |-> 0])
    /\ tx' = Tail(tx)
    /\ UNCHANGED <<op, out, prog, currPos, currStatus, badRead, stopped, lost,
                   ops, posSrc, statusSrc>>

(* The motor turns while the controller can move.                         *)
Turn ==
    /\ CanMove(regs) /\ regs.pos < PosMax
    /\ regs' = [regs EXCEPT !.pos = @ + 1]
    /\ UNCHANGED <<tx, rx, op, out, prog, currPos, currStatus, badRead,
                   stopped, lost, ops, posSrc, statusSrc>>

(* Noise on the line loses a request or a reply.                          *)
LoseRequest ==
    /\ lost < MaxLost /\ tx # <<>>
    /\ tx' = Tail(tx) /\ lost' = lost + 1
    /\ UNCHANGED <<regs, rx, op, out, prog, currPos, currStatus, badRead,
                   stopped, ops, posSrc, statusSrc>>

LoseReply ==
    /\ lost < MaxLost /\ rx # <<>>
    /\ rx' = Tail(rx) /\ lost' = lost + 1
    /\ UNCHANGED <<regs, tx, op, out, prog, currPos, currStatus, badRead,
                   stopped, ops, posSrc, statusSrc>>

Next ==
    \/ Call \/ Receive \/ Timeout
    \/ Serve \/ Turn \/ LoseRequest \/ LoseReply

Spec == Init /\ [][Next]_vars

----------------------------------------------------------------------------
(* Every position and status in the driver's cache is the answer of the   *)
(* controller to the read of that very register: readController() never   *)
(* adopts the reply to another read, a write's "OK" or the empty buffer   *)
(* of a timed-out read as the winch's position or limit-switch status.    *)
CacheFromOwnRegister ==
    posSrc \in {"init", "00"} /\ statusSrc \in {"init", "16"}

(* When no driver call is in progress and m_stopped is set, the           *)
(* controller cannot move, even when some of stopMoving()'s writes were   *)
(* lost: the commands that rely on m_stopped to know the winch is at rest  *)
(* are right.                                                             *)
StoppedMeansHalted == op = "idle" /\ stopped => ~CanMove(regs)
================================================================================
