-------------------------------- MODULE Winch --------------------------------
(***************************************************************************)
(* The intelligent winch: the command interpreter (cmdProcessorClass)     *)
(* driving the MM3 driver and the position feedback monitor, the main     *)
(* loop's calls to readPos() and readController(), the controller moving   *)
(* the motor, the limit-switch inputs and the passage of time.            *)
(*                                                                         *)
(* Each command action is one branch of readCommand() that changes state,  *)
(* with its parameter checks and interlocks as the guard and the calls it  *)
(* makes composed in order.  Rejected commands (bad numbers, a blocked     *)
(* direction) change nothing and are stuttering steps, except the refusal *)
(* for missing feedback, whose haveRecentPositionFeedback() call clears    *)
(* m_recentPosFeedback.                                                    *)
(***************************************************************************)
EXTENDS MM3

CONSTANTS
    Speeds,        \* speed percentages operators send
    Revs,          \* revolutions of up_revolutions / down_revolutions (> 0)
    RevTargets,    \* targets of move_to_revolution, whole revolutions
    Distances,     \* distances of up_distance / down_distance (> 0)
    PosTargets,    \* targets of move_to_position
    FbPositions,   \* positions the sensor reports
    MaxRevInputs,  \* values of the max_revolutions command (> 0)
    TickMs,        \* granularity of millis() in the model
    MaxTime,       \* bound on millis()
    MaxCmds        \* bound on the number of commands

VARIABLES
    now,           \* millis()
    cmds,          \* commands processed so far
    runStart,      \* ghost: when the current run began (m_stopped went false)
    creditMs,      \* ghost: length of the runs completed since the last reset
    stallSince,    \* ghost: since when the samples of this move are constant
    stallGapsOK    \* ghost: no sample gap since then exceeded FbPeriodMs

ghostVars == <<runStart, creditMs, stallSince, stallGapsOK>>
vars == <<fbVars, motorVars, mm3Vars, now, cmds, ghostVars>>

----------------------------------------------------------------------------
(* Mutation: stopMoving() without its if(!m_stopped) guard.              *)
StopMovingUnguarded(t) ==
    /\ hw' = StopMovingRegs(hw)
    /\ IncrMotorTime(t)
    /\ idleTime' = t
    /\ stopped' = TRUE
    /\ ClearFeedbackFlags
    /\ creditMs' = IF ~stopped THEN creditMs + (t - runStart) ELSE creditMs
    /\ UNCHANGED <<motorRunTime, maxRevolutions>>

(* Mutation: moveSetup() without Motor.setMotorRunTime(millis()).        *)
MoveSetupNoStamp(t) ==
    /\ stopped' = FALSE
    /\ idleTime' = 0
    /\ UNCHANGED motorRunTime
    /\ runStart' = IF stopped THEN t ELSE runStart
    /\ UNCHANGED <<motorTime, maxRevolutions, creditMs>>

(* MM3Class::stopMoving() at millis() = t: the three register writes, the *)
(* run time accumulated once (only when not already stopped), the idle    *)
(* stamp, m_stopped and both feedback flags.                              *)
StopMoving(t) ==
    /\ hw' = StopMovingRegs(hw)
    /\ IF ~stopped THEN IncrMotorTime(t) ELSE UNCHANGED motorTime
    /\ idleTime' = t
    /\ stopped' = TRUE
    /\ ClearFeedbackFlags
    /\ creditMs' = IF ~stopped THEN creditMs + (t - runStart) ELSE creditMs
    /\ UNCHANGED <<motorRunTime, maxRevolutions>>

(* The driver and motor part of MM3Class::moveSetup() at t (its register  *)
(* writes are MoveSetupRegs, mSpeedPct is set by the caller).             *)
MoveSetup(t) ==
    /\ stopped' = FALSE
    /\ idleTime' = 0
    /\ motorRunTime' = t
    /\ runStart' = IF stopped THEN t ELSE runStart
    /\ UNCHANGED <<motorTime, maxRevolutions, creditMs>>

(* Arming a feedback-gated move restarts the stall ghost.                 *)
ArmFeedbackMove == stallSince' = now /\ stallGapsOK' = TRUE

Command == cmds < MaxCmds /\ cmds' = cmds + 1

----------------------------------------------------------------------------
(* stop                                                                   *)
CmdStop ==
    /\ Command
    /\ StopMoving(now)
    /\ UNCHANGED <<fbPos, posFbTime, recentPosFeedback, oldPosFb, oldPosFbTime,
                   moveTarget, fbDelta, currPos, currStatus, vnlim, vplim,
                   mSpeedPct, now, runStart, stallSince, stallGapsOK>>

(* up_revolutions n pct / down_revolutions n pct: moveSetup(pct) then     *)
(* moveRelative(-n) or moveRelative(n).                                   *)
CmdRevolutions(pct, n, up) ==
    /\ Command
    /\ pct \in 2..100
    /\ IF up THEN ~isNoRaise /\ ~isBrake ELSE ~isNoLower /\ ~isBrake
    /\ hw' = MoveRelativeRegs(MoveSetupRegs(hw, pct),
                              IF up THEN -(n * CPR) ELSE n * CPR)
    /\ mSpeedPct' = pct
    /\ MoveSetup(now)
    /\ UNCHANGED <<fbVars, currPos, currStatus, vnlim, vplim, now,
                   stallSince, stallGapsOK>>

(* up_distance d pct / down_distance d pct with recent feedback:          *)
(* moveSetup, setFeedbackDelta, the absolute target, moveAtSpeed(-/+pct), *)
(* then the direction's flag.  The other flag is left as it is.           *)
CmdDistance(pct, d, up) ==
    /\ Command
    /\ pct \in 2..FeedbackMaxSpeed
    /\ IF up THEN ~isNoRaise /\ ~isBrake ELSE ~isNoLower /\ ~isBrake
    /\ HaveRecentPositionFeedback(now)
    /\ hw' = MoveAtSpeedRegs(MoveSetupRegs(hw, pct), IF up THEN -pct ELSE pct)
    /\ mSpeedPct' = IF up THEN -pct ELSE pct
    /\ MoveSetup(now)
    /\ fbDelta' = FeedbackDelta(pct)
    /\ moveTarget' = IF up THEN fbPos - d ELSE fbPos + d
    /\ movingUpWithFeedback' = (up \/ movingUpWithFeedback)
    /\ movingDownWithFeedback' = (~up \/ movingDownWithFeedback)
    /\ ArmFeedbackMove
    /\ UNCHANGED <<fbPos, posFbTime, recentPosFeedback, oldPosFb, oldPosFbTime,
                   currPos, currStatus, vnlim, vplim, now>>

(* move_to_revolution r pct: the direction is judged from the cached      *)
(* m_currPos; moveSetup then moveToPos(r).                                *)
CmdMoveToRevolution(pct, r) ==
    /\ Command
    /\ pct \in 2..100
    /\ ~(currPos < r * CPR /\ (isNoLower \/ isBrake))
    /\ ~(currPos > r * CPR /\ (isNoRaise \/ isBrake))
    /\ hw' = MoveToPosRegs(MoveSetupRegs(hw, pct), r * CPR)
    /\ mSpeedPct' = pct
    /\ MoveSetup(now)
    /\ UNCHANGED <<fbVars, currPos, currStatus, vnlim, vplim, now,
                   stallSince, stallGapsOK>>

(* move_to_position p pct with recent feedback: moveSetup,                *)
(* setFeedbackDelta, the target, and a velocity move with its flag only   *)
(* when the feedback position differs from p.                             *)
CmdMoveToPosition(pct, p) ==
    /\ Command
    /\ pct \in 2..FeedbackMaxSpeed
    /\ ~(fbPos < p /\ (isNoLower \/ isBrake))
    /\ ~(fbPos > p /\ (isNoRaise \/ isBrake))
    /\ HaveRecentPositionFeedback(now)
    /\ hw' = CASE fbPos < p -> MoveAtSpeedRegs(MoveSetupRegs(hw, pct), pct)
               [] fbPos > p -> MoveAtSpeedRegs(MoveSetupRegs(hw, pct), -pct)
               [] OTHER -> MoveSetupRegs(hw, pct)
    /\ mSpeedPct' = IF fbPos > p THEN -pct ELSE pct
    /\ MoveSetup(now)
    /\ fbDelta' = FeedbackDelta(pct)
    /\ moveTarget' = p
    /\ movingDownWithFeedback' = (fbPos < p \/ movingDownWithFeedback)
    /\ movingUpWithFeedback' = (fbPos > p \/ movingUpWithFeedback)
    /\ ArmFeedbackMove
    /\ UNCHANGED <<fbPos, posFbTime, recentPosFeedback, oldPosFb, oldPosFbTime,
                   currPos, currStatus, vnlim, vplim, now>>

(* up_distance, down_distance or move_to_position refused because the    *)
(* last sample is 2.5 periods old: the check clears m_recentPosFeedback.  *)
CmdFeedbackRefused ==
    /\ Command
    /\ \E pct \in Speeds : pct \in 2..FeedbackMaxSpeed
    /\ \/ ~isNoRaise /\ ~isBrake                          \* up_distance
       \/ ~isNoLower /\ ~isBrake                          \* down_distance
       \/ \E p \in PosTargets :                            \* move_to_position
             /\ ~(fbPos < p /\ (isNoLower \/ isBrake))
             /\ ~(fbPos > p /\ (isNoRaise \/ isBrake))
    /\ ~HaveRecentPositionFeedback(now)
    /\ recentPosFeedback' = RecentAfterCheck(now)
    /\ UNCHANGED <<fbPos, posFbTime, oldPosFb, oldPosFbTime,
                   movingUpWithFeedback, movingDownWithFeedback, moveTarget,
                   fbDelta, motorVars, mm3Vars, now, ghostVars>>

(* set_zero: setPos(0).                                                   *)
CmdSetZero ==
    /\ Command
    /\ currPos' = 0
    /\ hw' = SetPosRegs(hw, 0)
    /\ UNCHANGED <<fbVars, motorVars, currStatus, vnlim, vplim, stopped,
                   mSpeedPct, now, ghostVars>>

(* max_revolutions mr: refused below the cached position; otherwise       *)
(* setMaxRevolutions and both virtual limits written.                     *)
CmdMaxRevolutions(mr) ==
    /\ Command
    /\ ~(mr * CPR < AbsVal(currPos))
    /\ maxRevolutions' = mr
    /\ vnlim' = VirtualNegativeLimit(mr)
    /\ vplim' = VirtualPositiveLimit(mr)
    /\ hw' = SetVirtualLimitRegs(hw, VirtualNegativeLimit(mr),
                                     VirtualPositiveLimit(mr))
    /\ UNCHANGED <<fbVars, motorTime, motorRunTime, idleTime, currPos,
                   currStatus, stopped, mSpeedPct, now, ghostVars>>

(* reset_motor_time: setMotorTimeDays(0).                                 *)
CmdResetMotorTime ==
    /\ Command
    /\ ResetMotorTime
    /\ creditMs' = 0
    /\ UNCHANGED <<fbVars, motorRunTime, idleTime, maxRevolutions, mm3Vars,
                   now, runStart, stallSince, stallGapsOK>>

----------------------------------------------------------------------------
(* readPos() receiving a valid line with position v: the sample is       *)
(* adopted and the target and progress checks may call stopMoving().      *)
(* At most one line is processed per millis() value.                     *)
ReadPos(v) ==
    /\ now > posFbTime
    /\ AdoptSample(v, now)
    /\ IF FeedbackStop(v, now)
       THEN StopMoving(now) /\ UNCHANGED <<runStart>>
       ELSE UNCHANGED <<hw, stopped, motorVars, movingUpWithFeedback,
                        movingDownWithFeedback, runStart, creditMs>>
    /\ stallSince' = IF v # fbPos THEN now ELSE stallSince
    /\ stallGapsOK' = IF v # fbPos THEN TRUE
                      ELSE stallGapsOK /\
                           now - (IF posFbTime > stallSince
                                  THEN posFbTime ELSE stallSince) <= FbPeriodMs
    /\ UNCHANGED <<currPos, currStatus, vnlim, vplim, mSpeedPct, now, cmds>>

(* The loop's readController() with each read answered or timed out.     *)
Refresh(posOk, statusOk) ==
    /\ ReadController(posOk, statusOk)
    /\ UNCHANGED <<fbVars, motorVars, now, cmds, ghostVars>>

(* The controller moving the motor one step.                              *)
MotorStep ==
    /\ HwStep
    /\ UNCHANGED <<fbVars, motorVars, now, cmds, ghostVars>>

(* A limit switch or the emergency stop input changing.                   *)
SwitchInput(b) ==
    /\ InputChange(b)
    /\ UNCHANGED <<fbVars, motorVars, now, cmds, ghostVars>>

(* millis() advancing.                                                    *)
Tick ==
    /\ now + TickMs <= MaxTime
    /\ now' = now + TickMs
    /\ UNCHANGED <<fbVars, motorVars, mm3Vars, cmds, ghostVars>>

----------------------------------------------------------------------------
Init ==
    /\ MotorInit
    /\ FbInit
    /\ MM3Init
    /\ now = 0
    /\ cmds = 0
    /\ runStart = 0
    /\ creditMs = 0
    /\ stallSince = 0
    /\ stallGapsOK = TRUE

Next ==
    \/ CmdStop
    \/ \E pct \in Speeds, n \in Revs, up \in BOOLEAN : CmdRevolutions(pct, n, up)
    \/ \E pct \in Speeds, d \in Distances, up \in BOOLEAN : CmdDistance(pct, d, up)
    \/ \E pct \in Speeds, r \in RevTargets : CmdMoveToRevolution(pct, r)
    \/ \E pct \in Speeds, p \in PosTargets : CmdMoveToPosition(pct, p)
    \/ CmdFeedbackRefused
    \/ CmdSetZero
    \/ \E mr \in MaxRevInputs : CmdMaxRevolutions(mr)
    \/ CmdResetMotorTime
    \/ \E v \in FbPositions : ReadPos(v)
    \/ \E posOk, statusOk \in BOOLEAN : Refresh(posOk, statusOk)
    \/ MotorStep
    \/ \E b \in SwitchInputs : SwitchInput(b)
    \/ Tick

Spec == Init /\ [][Next]_vars

----------------------------------------------------------------------------
TypeOK ==
    /\ fbPos \in FbPositions \cup {0}
    /\ posFbTime \in 0..MaxTime /\ oldPosFbTime \in 0..MaxTime
    /\ recentPosFeedback \in BOOLEAN
    /\ movingUpWithFeedback \in BOOLEAN /\ movingDownWithFeedback \in BOOLEAN
    /\ moveTarget \in Int /\ fbDelta \in -(2^(IntBits-1))..(2^(IntBits-1) - 1)
    /\ motorTime \in Nat /\ motorRunTime \in 0..MaxTime
    /\ idleTime \in 0..MaxTime
    /\ maxRevolutions \in MaxRevInputs \cup {InitMaxRevolutions}
    /\ currPos \in Int /\ currStatus \subseteq Inputs
    /\ stopped \in BOOLEAN /\ hw \in HwType
    /\ now \in 0..MaxTime /\ cmds \in 0..MaxCmds

(* stopMoving() adds the run time of a run only once: however stops,     *)
(* feedback stops and repeated stops interleave, the motor time never     *)
(* exceeds the time the driver has actually been running.                 *)
MotorTimeNeverOvercounts == motorTime * 1000 <= creditMs

(* The driver's cached position always lies within the virtual limits:   *)
(* readController() rejects an out-of-range reading and max_revolutions    *)
(* refuses limits below the cached position.                              *)
CachedPositionWithinLimits == AbsVal(currPos) <= vplim

(* The progress check stops a feedback-gated move whose samples stay     *)
(* constant (the payload has stopped) within two comparison intervals     *)
(* and two sampling periods, provided the sensor reports at least once a  *)
(* period.  The interval is the one the move's speed calls for.           *)
IntendedDelta == (6000 * FbDistMilli) \div (AbsVal(mSpeedPct) * RPM)
StallDetected ==
    (movingUpWithFeedback \/ movingDownWithFeedback) /\ stallGapsOK
        => posFbTime - stallSince <= 2 * IntendedDelta + 2 * FbPeriodMs

----------------------------------------------------------------------------
(* Statements of the specification the code does not meet; each is       *)
(* checked by a run that expects a violation.                             *)

(* The progress check compares samples at least the interval apart that  *)
(* the move's speed calls for, to avoid false stalls: no feedback move is *)
(* stopped for lack of progress before that interval has passed since it *)
(* started (motorRunTime is the start stamp moveSetup() records).         *)
EarlyProgressStop ==
    \E v \in FbPositions :
        /\ now > posFbTime /\ fbPos' = v /\ posFbTime' = now
        /\ ProgressStop(v, now)
        /\ now - motorRunTime <= IntendedDelta
NoEarlyProgressStop == [][~EarlyProgressStop]_vars

(* Before issuing a raising or lowering motion the interpreter consults   *)
(* the NO_RAISE / NO_LOWER / BRAKE predicates and refuses if blocked: no  *)
(* command leaves the controller armed to move in a direction the         *)
(* interlocks it consulted forbid.                                        *)
InterlockRespected ==
    [][ cmds' = cmds + 1 /\ ~stopped' =>
          /\ ~(Direction(hw') > 0 /\ (isNoLower \/ isBrake))
          /\ ~(Direction(hw') < 0 /\ (isNoRaise \/ isBrake)) ]_vars
================================================================================
