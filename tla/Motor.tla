-------------------------------- MODULE Motor --------------------------------
(***************************************************************************)
(* MotorClass: the motor's constants and its run-time bookkeeping.        *)
(* m_motor_time is the total run time in seconds; m_motor_run_time the    *)
(* millis() stamp of the start of the current run; m_idle_time the stamp  *)
(* of the last stop (zero while running).  CPR and RPM are EEPROM          *)
(* settings, constant here.                                               *)
(***************************************************************************)
EXTENDS Integers

CONSTANTS
    CPR,                  \* m_motor_cpr, encoder counts per revolution
    RPM,                  \* m_motor_rpm, revolutions per minute (whole)
    InitMaxRevolutions    \* m_maxRevolutions as read from EEPROM (whole)

ASSUME CPR > 0 /\ RPM > 0 /\ InitMaxRevolutions > 0

VARIABLES
    motorTime,       \* m_motor_time, seconds
    motorRunTime,    \* m_motor_run_time, millis()
    idleTime,        \* m_idle_time, millis()
    maxRevolutions   \* m_maxRevolutions

motorVars == <<motorTime, motorRunTime, idleTime, maxRevolutions>>

MotorInit ==
    /\ motorTime = 0
    /\ motorRunTime = 0
    /\ idleTime = 0
    /\ maxRevolutions = InitMaxRevolutions

(* Mutation: the subtraction's operands swapped.                         *)
IncrMotorTimeSwapped(t) ==
    motorTime' = motorTime + (motorRunTime - t) \div 1000

(* incrMotorTime() at millis() = t: whole seconds since the run started.  *)
IncrMotorTime(t) == motorTime' = motorTime + (t - motorRunTime) \div 1000

(* setMotorTimeDays(0), the reset_motor_time command.                     *)
ResetMotorTime == motorTime' = 0
================================================================================
