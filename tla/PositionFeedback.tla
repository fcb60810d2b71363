--------------------------- MODULE PositionFeedback ---------------------------
(***************************************************************************)
(* The position feedback monitor of the winch: PositionFeedbackClass.     *)
(* An external sensor streams the payload position (a float, in the       *)
(* sensor's own units, larger is deeper) over a TCP connection; readPos()  *)
(* adopts each valid sample, stops a feedback-gated move that reached its  *)
(* target, and compares samples at least m_fb_delta ms apart to stop a     *)
(* move that is not making progress.                                      *)
(*                                                                         *)
(* Positions are integers from a small set; times are millis() stamps in  *)
(* ms.  The module declares the monitor's state and the operators that    *)
(* decide what readPos() does with a sample; Winch composes them with the  *)
(* motor controller driver, whose stopMoving() clears the two flags.      *)
(***************************************************************************)
EXTENDS Motor

CONSTANTS
    FbPeriodMs,  \* m_fb_period, the sensor's reporting period in ms
    FbDistMilli, \* FB_DIST (0.25 revolution) in thousandths of a revolution
    IntBits      \* width of an Arduino int: 16 on the ATmega2560

ASSUME FbPeriodMs > 0 /\ FbDistMilli > 0 /\ IntBits > 1

VARIABLES
    fbPos,                  \* m_fbPos, last adopted sample
    posFbTime,              \* m_posFbTime, millis() when it was adopted
    recentPosFeedback,      \* m_recentPosFeedback
    oldPosFb,               \* m_oldPosFb, the progress check's reference sample
    oldPosFbTime,           \* m_oldPosFbTime, and its time
    movingUpWithFeedback,   \* m_movingUpWithFeedback
    movingDownWithFeedback, \* m_movingDownWithFeedback
    moveTarget,             \* m_moveTarget
    fbDelta                 \* m_fb_delta, an int

fbVars == <<fbPos, posFbTime, recentPosFeedback, oldPosFb, oldPosFbTime,
            movingUpWithFeedback, movingDownWithFeedback, moveTarget, fbDelta>>

(* Storing an integer into a signed int of IntBits bits: the avr build    *)
(* keeps the low bits (two's complement wrap).                            *)
IntWrap(x) ==
    LET m == 2^IntBits
        h == 2^(IntBits - 1)
    IN ((x + h) % m) - h

(* A signed int converted to unsigned long and compared with an unsigned  *)
(* elapsed time: a negative int becomes a value no elapsed time reaches.  *)
ULongExceeds(elapsed, x) == IF x < 0 THEN FALSE ELSE elapsed > x

(* setFeedbackMaxSpeed(): 100*(60000/((1/FB_DIST)*period))/RPM into an     *)
(* int, capped at 100 percent.                                            *)
FeedbackMaxSpeed ==
    LET v == IntWrap((6000 * FbDistMilli) \div (FbPeriodMs * RPM))
    IN IF v > 100 THEN 100 ELSE v

(* setFeedbackDelta(pct): the ms the motor needs for FB_DIST revolutions  *)
(* at pct percent of RPM, stored into the int m_fb_delta.                 *)
FeedbackDelta(pct) == IntWrap((6000 * FbDistMilli) \div (pct * RPM))

FbInit ==
    /\ fbPos = 0
    /\ posFbTime = 0
    /\ recentPosFeedback = FALSE
    /\ oldPosFb = 0
    /\ oldPosFbTime = 0
    /\ movingUpWithFeedback = FALSE    \* never set by the constructor; a
    /\ movingDownWithFeedback = FALSE  \* global, so zero-initialised
    /\ moveTarget = 0
    /\ fbDelta = 0

(* haveRecentPositionFeedback() at time t: the answer, and the flag it     *)
(* leaves behind (the call clears m_recentPosFeedback when the last sample *)
(* is 2.5 periods old).                                                   *)
FeedbackExpired(t) == t - posFbTime >= (5 * FbPeriodMs) \div 2
HaveRecentPositionFeedback(t) == recentPosFeedback /\ ~FeedbackExpired(t)
RecentAfterCheck(t) == IF FeedbackExpired(t) THEN FALSE ELSE recentPosFeedback

(* The progress check of readPos() for a sample adopted at time t: the   *)
(* reference is replaced when it is more than 2*m_fb_delta old (the       *)
(* product is an int), and compared with when it is more than m_fb_delta  *)
(* old.                                                                   *)
ResetsReference(t) == ULongExceeds(t - oldPosFbTime, IntWrap(2 * fbDelta))
ComparesReference(t) ==
    ~ResetsReference(t) /\ ULongExceeds(t - oldPosFbTime, fbDelta)

(* The up block stops the move when the sample reached the target or, at  *)
(* a comparison, did not decrease.                                        *)
UpStop(v, t) ==
    /\ movingUpWithFeedback
    /\ \/ v <= moveTarget
       \/ ComparesReference(t) /\ v >= oldPosFb

(* The down block runs only when its flag survived the up block; after an *)
(* up block that moved the reference the elapsed time is zero, so it can  *)
(* compare only when the up flag was clear.                               *)
DownStop(v, t) ==
    /\ movingDownWithFeedback
    /\ ~UpStop(v, t)
    /\ \/ v >= moveTarget
       \/ ~movingUpWithFeedback /\ ComparesReference(t) /\ v <= oldPosFb

ProgressStop(v, t) ==
    \/ movingUpWithFeedback /\ ComparesReference(t) /\ v >= oldPosFb
    \/ ~movingUpWithFeedback /\ movingDownWithFeedback
       /\ ComparesReference(t) /\ v <= oldPosFb

FeedbackStop(v, t) == UpStop(v, t) \/ DownStop(v, t)

(* Mutation: the reference updated on every sample of a move.           *)
ReferenceMovesEverySample(t) ==
    movingUpWithFeedback \/ movingDownWithFeedback

(* Both blocks move the reference to the new sample when it was reset or *)
(* compared.                                                              *)
ReferenceMoves(t) ==
    /\ movingUpWithFeedback \/ movingDownWithFeedback
    /\ ResetsReference(t) \/ ComparesReference(t)

(* readPos() adopting a valid sample v at time t: every assignment except *)
(* the stopMoving() calls, which the caller adds when FeedbackStop holds.  *)
AdoptSample(v, t) ==
    /\ fbPos' = v
    /\ recentPosFeedback' = TRUE
    /\ posFbTime' = t
    /\ oldPosFb' = IF ReferenceMoves(t) THEN v ELSE oldPosFb
    /\ oldPosFbTime' = IF ReferenceMoves(t) THEN t ELSE oldPosFbTime
    /\ UNCHANGED <<moveTarget, fbDelta>>

(* The part of MM3Class::stopMoving() that resets the monitor.            *)
ClearFeedbackFlags ==
    /\ movingUpWithFeedback' = FALSE
    /\ movingDownWithFeedback' = FALSE
================================================================================
