-------------------------------- MODULE Broker --------------------------------
(***************************************************************************)
(* The energy monitor's data objects (broker_data.cpp, E_Mon.cpp) and the  *)
(* subscription check (broker_util.cpp).                                  *)
(*                                                                         *)
(* Four DynamicData objects: voltage "V" and current "I" read from the     *)
(* ADC, power "P" = V * I, and energy "E", which totalizes P over the     *)
(* time since its last sample.  Each object keeps _data_value,            *)
(* _data_changed and its subscription (rate, max, time, on-change).        *)
(* Time is millis(), an unsigned counter of ClockBits bits that rolls     *)
(* over; every interval is the unsigned difference of two readings.       *)
(*                                                                         *)
(* The sketch that calls these methods is not in the repository, so every *)
(* method is a step the environment may take at any time, with one        *)
(* assumption: energy is sampled at least once per rollover period.        *)
(* Values are kept in units that make the code's doubles exact (energy in  *)
(* W*ms, MS_PER_HR times the code's Wh); NaN is a model value.  The        *)
(* sample-time strings and the min/max tracking feed only the reports and *)
(* are left out.                                                          *)
(***************************************************************************)
EXTENDS Integers

CONSTANTS
    NaN,        \* the double NAN
    ClockBits,  \* width of millis() (32 in the code)
    MaxTime,    \* bound on the real time, in ms
    Readings,   \* the values a voltage or current sample can give
    Rates,      \* the sub_min_rate_ms a subscribe message may carry
    Maxes,      \* the sub_max_rate_ms a subscribe message may carry
    SubObjs     \* the objects the model subscribes to

Objs == {"V", "I", "P", "E"}

ASSUME /\ ClockBits \in Nat \ {0} /\ MaxTime \in Nat
       /\ NaN \notin Int /\ Readings \subseteq Int
       /\ Rates \subseteq Nat \ {0} /\ Maxes \subseteq Nat /\ SubObjs \subseteq Objs

VARIABLES
    now,        \* real time in ms since start-up; millis() is it modulo Wrap
    val,        \* _data_value of each object
    changed,    \* _data_changed of each object
    sub,        \* each object's _subscription_rate_ms/_max_ms/_time, _sub_on_change
    eLast,      \* the energy object's _last_sample_time
    eRef,       \* ghost: energy totalized over real time
    eLastReal,  \* ghost: real time of the energy object's last sample
    subReal     \* ghost: real time that each _subscription_time stands for

vars == <<now, val, changed, sub, eLast, eRef, eLastReal, subReal>>

Wrap == 2 ^ ClockBits

Millis == now % Wrap

(* Mutation: the interval as a signed difference, wrong after a rollover. *)
ElapsedSigned(t) == Millis - t

(* The uint32_t difference millis() - t, right across one rollover.       *)
Elapsed(t) == (Millis - t) % Wrap

Times(a, b) == IF a = NaN \/ b = NaN THEN NaN ELSE a * b
Plus(a, b) == IF a = NaN \/ b = NaN THEN NaN ELSE a + b

(* _setDataValue(v): NaN compares unequal to everything, itself included. *)
SameValue(a, b) == a # NaN /\ b # NaN /\ a = b

SetDataValue(o, v) ==
    IF SameValue(v, val[o])
    THEN UNCHANGED <<val, changed>>
    ELSE /\ val' = [val EXCEPT ![o] = v]
         /\ changed' = [changed EXCEPT ![o] = TRUE]

----------------------------------------------------------------------------
(* The global objects after their constructors: no value yet but energy's *)
(* 0, not subscribed, on-change; _data_changed is never initialized, so it *)
(* holds whatever the memory held.                                        *)
Init ==
    /\ now = 0
    /\ val = [o \in Objs |-> IF o = "E" THEN 0 ELSE NaN]
    /\ changed \in [Objs -> BOOLEAN]
    /\ sub = [o \in Objs |-> [rate |-> 0, max |-> 0, time |-> 0, onChange |-> TRUE]]
    /\ eLast = 0 /\ eRef = 0 /\ eLastReal = 0
    /\ subReal = [o \in Objs |-> 0]

(* VoltageData::getData() and CurrentData::getData(): an ADC reading      *)
(* converted to volts or amps and stored with _setDataValue().            *)
SampleADC(o) ==
    /\ \E r \in Readings : SetDataValue(o, r)
    /\ UNCHANGED <<now, sub, eLast, eRef, eLastReal, subReal>>

(* PowerData::getData(): the latest voltage times the latest current.      *)
SamplePower ==
    /\ SetDataValue("P", Times(val["V"], val["I"]))
    /\ UNCHANGED <<now, sub, eLast, eRef, eLastReal, subReal>>

(* PowerData::setData(0), i.e. resetData(): the value set to 0 directly,   *)
(* without _setDataValue(); any other value is refused.                   *)
ResetPower ==
    /\ val' = [val EXCEPT !["P"] = 0]
    /\ UNCHANGED <<now, changed, sub, eLast, eRef, eLastReal, subReal>>

(* EnergyData::getData(): power times the time since the last sample      *)
(* (_getTimeDelta(), which also records this sample's time), added to the *)
(* total with _setDataValue().                                            *)
SampleEnergy ==
    /\ SetDataValue("E", Plus(val["E"], Times(val["P"], Elapsed(eLast))))
    /\ eLast' = Millis
    /\ eRef' = IF val["P"] = NaN THEN eRef ELSE eRef + val["P"] * (now - eLastReal)
    /\ eLastReal' = now
    /\ UNCHANGED <<now, sub, subReal>>

(* EnergyData::setData(0), i.e. resetData(), the restore after a reboot   *)
(* with a total of 0: _setDataValue(), then _getTimeDelta().              *)
ResetEnergy ==
    /\ SetDataValue("E", 0)
    /\ eLast' = Millis
    /\ eRef' = 0 /\ eLastReal' = now
    /\ UNCHANGED <<now, sub, subReal>>

(* DynamicData::subscribe(min, max): the time reset to 0, which stands for *)
(* the last moment millis() read 0.                                        *)
Subscribe(o, mn, mx) ==
    /\ sub' = [sub EXCEPT ![o] = [@ EXCEPT !.rate = mn, !.max = mx, !.time = 0]]
    /\ subReal' = [subReal EXCEPT ![o] = now - Millis]
    /\ UNCHANGED <<now, val, changed, eLast, eRef, eLastReal>>

Unsubscribe(o) ==
    /\ sub' = [sub EXCEPT ![o] = [@ EXCEPT !.rate = 0, !.time = 0]]
    /\ subReal' = [subReal EXCEPT ![o] = now - Millis]
    /\ UNCHANGED <<now, val, changed, eLast, eRef, eLastReal>>

SetSubOnChange(o, b) ==
    /\ sub' = [sub EXCEPT ![o].onChange = b]
    /\ UNCHANGED <<now, val, changed, eLast, eRef, eLastReal, subReal>>

(* setSubscriptionTime(), called when a subscription message is sent.      *)
SetSubscriptionTime(o) ==
    /\ sub' = [sub EXCEPT ![o].time = Millis]
    /\ subReal' = [subReal EXCEPT ![o] = now]
    /\ UNCHANGED <<now, val, changed, eLast, eRef, eLastReal>>

(* Mutation: "millis() > time + rate", whose sum wraps near a rollover.   *)
DueWrappedSum(o) ==
    LET s == sub[o]
    IN /\ s.rate # 0
       /\ IF s.onChange THEN (changed[o] /\ Millis > (s.time + s.rate) % Wrap)
                             \/ Millis > (s.time + s.max) % Wrap
                        ELSE Millis > (s.time + s.rate) % Wrap

(* subscriptionDue()'s decision: not subscribed, never; on-change, when   *)
(* the value changed and the rate has passed, or when the max has passed; *)
(* otherwise when the rate has passed.                                    *)
Due(o) ==
    LET s == sub[o]
        el == Elapsed(s.time)
    IN /\ s.rate # 0
       /\ IF s.onChange THEN (changed[o] /\ el > s.rate) \/ el > s.max
                        ELSE el > s.rate

(* checkSubscriptions(): subscriptionDue() of every object; each that is  *)
(* due has its _data_changed cleared.                                     *)
CheckSubscriptions ==
    /\ changed' = [o \in Objs |-> IF Due(o) THEN FALSE ELSE changed[o]]
    /\ UNCHANGED <<now, val, sub, eLast, eRef, eLastReal, subReal>>

(* A millisecond passes; the sketch samples energy once per rollover.      *)
Tick ==
    /\ now < MaxTime /\ now + 1 - eLastReal < Wrap
    /\ now' = now + 1
    /\ UNCHANGED <<val, changed, sub, eLast, eRef, eLastReal, subReal>>

Next ==
    \/ \E o \in {"V", "I"} : SampleADC(o)
    \/ SamplePower \/ ResetPower \/ SampleEnergy \/ ResetEnergy
    \/ \E o \in SubObjs, mn \in Rates, mx \in Maxes : Subscribe(o, mn, mx)
    \/ \E o \in SubObjs : Unsubscribe(o) \/ SetSubscriptionTime(o)
    \/ \E o \in SubObjs, b \in BOOLEAN : SetSubOnChange(o, b)
    \/ CheckSubscriptions
    \/ Tick

Spec == Init /\ [][Next]_vars

----------------------------------------------------------------------------
(* Once a number, the energy total is the power of each energy sample      *)
(* times the real time since the previous one, summed: _getTimeDelta()'s   *)
(* unsigned difference of millis() readings measures the interval right,   *)
(* also across a rollover of millis().                                     *)
EnergyTotalized == val["E"] # NaN => val["E"] = eRef

(* checkSubscriptions() reports an object no sooner than its rate after   *)
(* its last subscription message (or after the moment its subscribe()      *)
(* stamp stands for), in real time, also across a rollover of millis(),    *)
(* as long as the max it was subscribed with is not below the rate.        *)
SubscriptionNotEarly ==
    \A o \in Objs : Due(o) /\ sub[o].max >= sub[o].rate => now - subReal[o] > sub[o].rate
================================================================================
