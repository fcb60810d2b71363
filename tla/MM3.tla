--------------------------------- MODULE MM3 ---------------------------------
(***************************************************************************)
(* The Motion Mind 3 motor controller and its driver MM3Class.            *)
(*                                                                         *)
(* The driver keeps a cache of the controller (m_currPos, m_currStatus),  *)
(* the virtual limits it wrote, and m_stopped.  The controller is the      *)
(* record hw of the registers the driver writes (position 00, velocity     *)
(* limit 01, function 03, virtual limits 23/24, pwm limit 25), the last   *)
(* motion command (P, M or V) and the NO_RAISE / NO_LOWER / BRAKE inputs, *)
(* which the environment drives.                                          *)
(*                                                                         *)
(* Positions are encoder counts: m_currPos (revolutions) is kept as       *)
(* m_currPos * CPR.  Each driver method that writes registers is an       *)
(* operator from the register record to the new one, so a command handler *)
(* is the composition of the calls it makes.  Writes reach the controller; *)
(* a read may time out.                                                   *)
(***************************************************************************)
EXTENDS PositionFeedback

CONSTANTS
    StepCounts,   \* counts the controller moves per HwStep
    InitPos,      \* SAVED_POSITION restored by init(), in counts
    SwitchInputs  \* the inputs the environment may change

Inputs == {"NoRaise", "NoLower", "Brake"}   \* status bits 0x01, 0x02, 0x04

ASSUME StepCounts > 0 /\ SwitchInputs \subseteq Inputs

VARIABLES
    currPos,      \* m_currPos * CPR
    currStatus,   \* m_currStatus, as the set of its input bits
    vnlim,        \* m_vnlim
    vplim,        \* m_vplim
    stopped,      \* m_stopped
    mSpeedPct,    \* mSpeedPct
    hw            \* the controller

mm3Vars == <<currPos, currStatus, vnlim, vplim, stopped, mSpeedPct, hw>>

AbsVal(x) == IF x < 0 THEN -x ELSE x
Sign(x) == IF x > 0 THEN 1 ELSE IF x < 0 THEN -1 ELSE 0

(* C integer division of long values (truncates toward zero), b > 0.      *)
CDiv(a, b) == IF a >= 0 THEN a \div b ELSE -((-a) \div b)

(* Arduino map() on long values.                                          *)
ArduinoMap(x, inMin, inMax, outMin, outMax) ==
    CDiv((x - inMin) * (outMax - outMin), inMax - inMin) + outMin

(* SPEED_RANGE: int(CPR * RPM / 12000.0 + 0.5), counts per 5 ms.          *)
SPEED_RANGE == (CPR * RPM + 6000) \div 12000

SpeedRegister(pct) == ArduinoMap(pct, 0, 100, 0, SPEED_RANGE)

(* long(x + 0.5) for an integer count x: truncation toward zero rounds a  *)
(* negative x up by one count (-3999.5 becomes -3999).                    *)
RoundedCounts(x) == IF x >= 0 THEN x ELSE x + 1

(* The virtual limits the max_revolutions command and start-up derive from *)
(* a maximum number of revolutions: long(mr*cpr) +/- long(0.25*cpr).      *)
VirtualPositiveLimit(mr) == mr * CPR + CPR \div 4
VirtualNegativeLimit(mr) == -(mr * CPR) - CPR \div 4

----------------------------------------------------------------------------
(* Register writes of the driver methods.                                 *)

(* Mutation: the velocity-limit and pwm-limit writes swapped.          *)
MoveSetupRegsSwapped(h, pct) ==
    [h EXCEPT !.pwm = SpeedRegister(pct), !.fn = "MOVING", !.vel = 1023]

(* moveSetup(): pwm limit 1023, function register MOVING, velocity limit. *)
MoveSetupRegs(h, pct) ==
    [h EXCEPT !.pwm = 1023, !.fn = "MOVING", !.vel = SpeedRegister(pct)]

(* moveAtSpeed(pct): V01 map(pct).                                        *)
MoveAtSpeedRegs(h, pct) ==
    [h EXCEPT !.mode = "vel", !.arg = SpeedRegister(pct)]

(* moveToPos(revs): P01 long(revs*CPR + 0.5), an absolute goal.           *)
MoveToPosRegs(h, counts) ==
    [h EXCEPT !.mode = "pos", !.arg = RoundedCounts(counts)]

(* moveRelative(revs): M01 long(revs*CPR + 0.5), relative to the          *)
(* controller's position.                                                 *)
MoveRelativeRegs(h, counts) ==
    [h EXCEPT !.mode = "pos", !.arg = h.pos + RoundedCounts(counts)]

(* stopMoving(): function register STOPPED, velocity limit 0, pwm limit 0. *)
(* The motion command itself stays in the controller.                     *)
StopMovingRegs(h) == [h EXCEPT !.fn = "STOPPED", !.vel = 0, !.pwm = 0]

(* setPos(pos): W01 00 long(pos*CPR).                                     *)
SetPosRegs(h, counts) == [h EXCEPT !.pos = counts]

(* setVirtualNegativeLimit / setVirtualPositiveLimit: W01 23, W01 24.     *)
SetVirtualLimitRegs(h, vn, vp) == [h EXCEPT !.vn = vn, !.vp = vp]

----------------------------------------------------------------------------
HwType ==
    [pos : Int, fn : {"STOPPED", "MOVING"}, vel : Int, pwm : {0, 1023},
     mode : {"none", "pos", "vel"}, arg : Int, vn : Int, vp : Int,
     inputs : SUBSET Inputs]

(* init(): position restored and written, velocity limit 1023, function  *)
(* STOPPED, pwm limit 0, then readController() fills the cache.  The      *)
(* virtual limits are written at start-up from the saved maximum          *)
(* revolutions.                                                           *)
MM3Init ==
    /\ hw \in {[pos |-> InitPos, fn |-> "STOPPED", vel |-> 1023, pwm |-> 0,
                mode |-> "none", arg |-> 0,
                vn |-> VirtualNegativeLimit(InitMaxRevolutions),
                vp |-> VirtualPositiveLimit(InitMaxRevolutions),
                inputs |-> in] : in \in SUBSET SwitchInputs}
    /\ currPos = InitPos
    /\ currStatus = hw.inputs
    /\ vnlim = VirtualNegativeLimit(InitMaxRevolutions)
    /\ vplim = VirtualPositiveLimit(InitMaxRevolutions)
    /\ stopped = TRUE
    /\ mSpeedPct = 0

(* isNoRaise(), isNoLower(), isBrake(): predicates on the cached status.  *)
isNoRaise == "NoRaise" \in currStatus
isNoLower == "NoLower" \in currStatus
isBrake == "Brake" \in currStatus

----------------------------------------------------------------------------
(* readController() with the outcome of the position and status reads.   *)
(* A read that times out returns atol(strchr(rcvBuf,'=')+1) on an empty   *)
(* buffer: strchr gives NULL and atol reads data address 1, which on the   *)
(* ATmega is register r1, kept at zero, so l = 0 and badRead is set.      *)
(* A position outside the virtual limits is not adopted and the cached    *)
(* position is written back to the controller.  Speed and amps are read   *)
(* too; the model does not keep them.                                     *)
(* Mutation: the sanity check left out.                                 *)
PositionFaultIgnored(posOk) == FALSE

PosRead(posOk) == IF posOk THEN hw.pos ELSE 0
PositionFault(posOk) == AbsVal(PosRead(posOk)) > vplim

ReadController(posOk, statusOk) ==
    /\ hw' = IF PositionFault(posOk) THEN SetPosRegs(hw, currPos) ELSE hw
    /\ currPos' = IF posOk /\ ~PositionFault(posOk) THEN hw.pos ELSE currPos
    /\ currStatus' = IF statusOk THEN hw.inputs ELSE currStatus
    /\ UNCHANGED <<vnlim, vplim, stopped, mSpeedPct>>

----------------------------------------------------------------------------
(* The controller executing its motion command: with the PID enabled, a   *)
(* non-zero velocity and pwm limit and no BRAKE input it moves StepCounts *)
(* toward the goal, never past a virtual limit nor in a direction its      *)
(* NO_RAISE (up, negative) or NO_LOWER (down, positive) input forbids.    *)
Direction(h) ==
    CASE h.mode = "vel" -> Sign(h.arg)
      [] h.mode = "pos" -> Sign(h.arg - h.pos)
      [] OTHER -> 0

CanMove(h) ==
    /\ h.fn = "MOVING" /\ h.vel > 0 /\ h.pwm > 0
    /\ "Brake" \notin h.inputs
    /\ ~(Direction(h) < 0 /\ "NoRaise" \in h.inputs)
    /\ ~(Direction(h) > 0 /\ "NoLower" \in h.inputs)

NextHwPos(h) ==
    IF Direction(h) > 0
    THEN LET bound == IF h.mode = "pos" /\ h.arg < h.vp THEN h.arg ELSE h.vp
         IN IF h.pos >= bound THEN h.pos
            ELSE IF h.pos + StepCounts < bound THEN h.pos + StepCounts ELSE bound
    ELSE LET bound == IF h.mode = "pos" /\ h.arg > h.vn THEN h.arg ELSE h.vn
         IN IF h.pos <= bound THEN h.pos
            ELSE IF h.pos - StepCounts > bound THEN h.pos - StepCounts ELSE bound

HwStep ==
    /\ CanMove(hw)
    /\ NextHwPos(hw) # hw.pos
    /\ hw' = [hw EXCEPT !.pos = NextHwPos(hw)]
    /\ UNCHANGED <<currPos, currStatus, vnlim, vplim, stopped, mSpeedPct>>

(* A limit switch or the brake input changes.                             *)
InputChange(b) ==
    /\ hw' = [hw EXCEPT !.inputs = IF b \in @ THEN @ \ {b} ELSE @ \cup {b}]
    /\ UNCHANGED <<currPos, currStatus, vnlim, vplim, stopped, mSpeedPct>>
================================================================================
