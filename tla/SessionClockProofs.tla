------------------------- MODULE SessionClockProofs -------------------------
(***************************************************************************)
(* The bounds on the life of a session, for every length of a second,      *)
(* every refresh interval and all ttls.                                    *)
(***************************************************************************)
EXTENDS SessionClock, TLAPS

(* More seconds are at least as many ticks. *)
LEMMA SecondsGrow ==
    ASSUME NEW a \in Int, NEW b \in Int, a <= b
    PROVE  a * Hz <= b * Hz
<1>1. Hz \in Nat /\ Hz > 0
  BY ClockAssumption
<1>2. (b - a) * Hz >= 0
  BY <1>1
<1>3. (b - a) * Hz = b * Hz - a * Hz
  BY <1>1
<1> QED
  BY <1>1, <1>2, <1>3

(* One second is Hz ticks. *)
LEMMA SecondsAdd ==
    ASSUME NEW a \in Int, NEW b \in Int
    PROVE  /\ (a + b) * Hz = a * Hz + b * Hz
           /\ (a - b) * Hz = a * Hz - b * Hz
           /\ a * Hz \in Int
           /\ (a + 1) * Hz = a * Hz + Hz
BY ClockAssumption

(* The first reading of the clock and the tables without sessions satisfy the invariant. *)
LEMMA InitClock == Init => ClockInvariant
<1> SUFFICES ASSUME Init PROVE ClockInvariant
  OBVIOUS
<1>1. now \in Nat /\ now = Start * Hz /\ (Start + 1) * Hz = Start * Hz + Hz
  BY ClockAssumption, SecondsAdd DEF Init
<1>2. TypeOK
  BY <1>1, ClockAssumption DEF Init, TypeOK
<1>3. ClockRight
  BY <1>1, ClockAssumption DEF Init, ClockRight
<1>4. StepsRight /\ NotEarly
  BY DEF Init, StepsRight, NotEarly
<1> QED
  BY <1>2, <1>3, <1>4 DEF ClockInvariant

(* The hardware clock moves on; the refresh comes due within the invariant's bound. *)
LEMMA TickClock == ClockInvariant /\ tick => ClockInvariant'
<1> SUFFICES ASSUME ClockInvariant, tick PROVE ClockInvariant'
  OBVIOUS
<1> USE DEF ClockInvariant
<1>0. Hz \in Nat /\ Hz > 0 /\ Period \in Nat
  BY ClockAssumption
<1>1. TypeOK'
  BY <1>0 DEF TypeOK, tick, Step
<1>2. ClockRight'
  <2>1. tv_sec \in Int /\ tv_sec + 1 \in Int
    BY DEF TypeOK
  <2>2. /\ tv_sec * Hz \in Int
        /\ (tv_sec + 1) * Hz = tv_sec * Hz + Hz
        /\ (tv_sec + 1 + 1) * Hz = (tv_sec + 1) * Hz + Hz
    BY <2>1, SecondsAdd
  <2>3. CASE now + 1 = (tv_sec + 1) * Hz
    BY <1>0, <2>2, <2>3 DEF ClockRight, TypeOK, tick
  <2>4. CASE now + 1 # (tv_sec + 1) * Hz
    BY <1>0, <2>2, <2>4 DEF ClockRight, TypeOK, tick
  <2> QED
    BY <2>3, <2>4
<1>3. StepsRight'
  <2>1. \A i \in DOMAIN step : step[i].since \in Int
    BY DEF TypeOK, Step
  <2>2. now' = now + 1 /\ now \in Nat /\ step' = step /\ last_time' = last_time
    BY DEF tick, TypeOK
  <2> QED
    BY <2>1, <2>2 DEF StepsRight, Counted
<1>4. NotEarly'
  BY DEF NotEarly, tick
<1> QED
  BY <1>1, <1>2, <1>3, <1>4

(* A session that enters a step gets a full ttl, whatever the age of the last refresh. *)
LEMMA StepClock ==
    ASSUME ClockInvariant, NEW i \in Ids, NEW ttl \in Ttls, session_step(i, ttl)
    PROVE  ClockInvariant'
<1> USE DEF ClockInvariant
<1>0. Hz \in Nat /\ Hz > 0 /\ Period \in Nat /\ ttl \in Int
  BY ClockAssumption
<1>1. TypeOK'
  BY <1>0 DEF TypeOK, session_step, Step
<1>2. ClockRight'
  BY DEF ClockRight, session_step
<1>3. StepsRight'
  <2> SUFFICES ASSUME NEW j \in DOMAIN step'
               PROVE  /\ last_time' # 0
                      /\ Counted(j)' \in 0 .. last_time'
                      /\ step'[j].left > 0 \/ Counted(j)' = 0
                      /\ step'[j].since <= now'
                      /\ (last_time' - Counted(j)') * Hz <= step'[j].since
                      /\ step'[j].since < (last_time' - Counted(j)' + 1) * Hz + Period
    BY DEF StepsRight
  <2>1. CASE j = i
    <3>1. step'[j] = [ttl |-> ttl, left |-> ttl, since |-> now]
      BY <2>1 DEF session_step
    <3>2. Counted(j)' = 0
      BY <3>1, <1>0 DEF Counted
    <3>3. last_time' = last_time /\ now' = now /\ last_time # 0
      BY DEF session_step
    <3>4. last_time * Hz <= now /\ now < (last_time + 1) * Hz + Period
      <4>1. /\ last_time * Hz \in Int /\ (last_time + 1) * Hz = last_time * Hz + Hz
        BY SecondsAdd DEF TypeOK
      <4> QED
        BY <1>0, <3>3, <4>1 DEF ClockRight, TypeOK
    <3>5. last_time - 0 = last_time /\ last_time \in Nat
      BY DEF TypeOK
    <3> QED
      BY <3>1, <3>2, <3>3, <3>4, <3>5 DEF TypeOK
  <2>2. CASE j # i
    <3>1. j \in DOMAIN step /\ step'[j] = step[j] /\ last_time' = last_time /\ now' = now
      BY <2>2 DEF session_step
    <3> QED
      BY <3>1 DEF StepsRight, Counted
  <2> QED
    BY <2>1, <2>2
<1>4. NotEarly'
  BY DEF NotEarly, session_step
<1> QED
  BY <1>1, <1>2, <1>3, <1>4

(* Ending a session leaves the others as they are. *)
LEMMA StopClock ==
    ASSUME ClockInvariant, NEW i \in Ids, session_step_stop(i)
    PROVE  ClockInvariant'
<1> USE DEF ClockInvariant
<1>1. TypeOK'
  BY DEF TypeOK, session_step_stop
<1>2. ClockRight'
  BY DEF ClockRight, session_step_stop
<1>3. StepsRight'
  BY DEF StepsRight, Counted, session_step_stop
<1>4. NotEarly'
  BY DEF NotEarly, session_step_stop
<1> QED
  BY <1>1, <1>2, <1>3, <1>4

(* The refresh takes the whole seconds since the last one off every session and drops the expired. *)
LEMMA RefreshClock ==
    ASSUME ClockInvariant, sanji_refresh_session
    PROVE  ClockInvariant'
<1> USE DEF ClockInvariant
<1>0. Hz \in Nat /\ Hz > 0 /\ Period \in Nat /\ Ttls \subseteq Int
  BY ClockAssumption
<1> DEFINE diff == IF last_time = 0 THEN 0 ELSE tv_sec - last_time
           aged == Aged(diff)
           gone == {i \in DOMAIN step : diff # 0 /\ session_expired(aged[i])}
<1>a. /\ step' = [i \in DOMAIN step \ gone |-> aged[i]]
      /\ dropped' = {[ttl |-> step[i].ttl, age |-> now - step[i].since] : i \in gone}
      /\ last_time' = tv_sec /\ stamp' = now /\ now' = now /\ tv_sec' = tv_sec
  BY DEF sanji_refresh_session, refresh_time
<1>b. \A i \in DOMAIN step :
         /\ step[i].ttl \in Ttls /\ step[i].left \in Int /\ step[i].since \in Int
         /\ aged[i].ttl = step[i].ttl /\ aged[i].since = step[i].since
         /\ aged[i].left = step[i].left - diff
         /\ aged[i] \in Step
  BY <1>0 DEF TypeOK, Step, Aged
<1>c. diff \in Nat
  BY DEF TypeOK, ClockRight
<1>1. TypeOK'
  BY <1>a, <1>b DEF TypeOK
<1>2. ClockRight'
  BY <1>0, <1>a DEF ClockRight, TypeOK
<1>3. StepsRight'
  <2> SUFFICES ASSUME NEW j \in DOMAIN step'
               PROVE  /\ last_time' # 0
                      /\ Counted(j)' \in 0 .. last_time'
                      /\ step'[j].left > 0 \/ Counted(j)' = 0
                      /\ step'[j].since <= now'
                      /\ (last_time' - Counted(j)') * Hz <= step'[j].since
                      /\ step'[j].since < (last_time' - Counted(j)' + 1) * Hz + Period
    BY DEF StepsRight
  <2>1. j \in DOMAIN step /\ j \notin gone /\ step'[j] = aged[j]
    BY <1>a
  <2>2. /\ last_time # 0 /\ diff = tv_sec - last_time
        /\ Counted(j) \in 0 .. last_time
        /\ step[j].left > 0 \/ Counted(j) = 0
        /\ step[j].since <= now
        /\ (last_time - Counted(j)) * Hz <= step[j].since
        /\ step[j].since < (last_time - Counted(j) + 1) * Hz + Period
    BY <2>1 DEF StepsRight
  <2>3. Counted(j) = step[j].ttl - step[j].left
    BY DEF Counted
  <2>4. Counted(j)' = step[j].ttl - (step[j].left - diff)
    BY <2>1, <1>b DEF Counted
  <2>5. Counted(j)' = Counted(j) + diff
    <3> HIDE DEF diff, aged
    <3>1. step[j].ttl \in Ttls /\ step[j].left \in Int
      BY <1>b, <2>1
    <3>2. step[j].ttl \in Int /\ diff \in Int
      BY <1>0, <1>c, <3>1
    <3> QED
      BY <2>3, <2>4, <3>1, <3>2
  <2>6. tv_sec \in Nat /\ last_time \in Nat /\ last_time <= tv_sec /\ tv_sec # 0
    BY DEF TypeOK, ClockRight
  <2>7. tv_sec - Counted(j)' = last_time - Counted(j)
    BY <2>2, <2>5, <2>6
  <2>8. Counted(j)' \in 0 .. tv_sec
    BY <2>2, <2>5, <2>6
  <2>9. step'[j].left > 0 \/ Counted(j)' = 0
    <3>1. diff # 0 => step[j].left - diff > 0
      BY <1>b, <1>c, <2>1 DEF session_expired
    <3>2. step'[j].left = step[j].left - diff
      BY <1>b, <2>1
    <3> QED
      BY <1>b, <1>c, <2>1, <2>2, <2>5, <3>1, <3>2
  <2> QED
    BY <1>a, <1>b, <2>1, <2>2, <2>6, <2>7, <2>8, <2>9
<1>4. NotEarly'
  <2> SUFFICES ASSUME NEW i \in gone
               PROVE  (now - step[i].since) + Period > (step[i].ttl - 1) * Hz
    BY <1>a DEF NotEarly
  <2>1. /\ i \in DOMAIN step /\ diff # 0 /\ step[i].left - diff <= 0
    BY <1>b DEF session_expired
  <2>2. /\ last_time # 0 /\ diff = tv_sec - last_time
        /\ step[i].since < (last_time - Counted(i) + 1) * Hz + Period
    BY <2>1 DEF StepsRight
  <2>3. /\ tv_sec \in Int /\ last_time \in Int /\ now \in Int
        /\ tv_sec * Hz <= now
        /\ step[i].ttl \in Int /\ step[i].left \in Int /\ step[i].since \in Int
        /\ Counted(i) = step[i].ttl - step[i].left
    BY <1>0, <1>b, <2>1 DEF TypeOK, ClockRight, Counted
  <2> DEFINE before == last_time - Counted(i) + 1
  <2>4. before \in Int /\ step[i].ttl - 1 <= tv_sec - before
    BY <2>1, <2>2, <2>3
  <2>5. (step[i].ttl - 1) * Hz <= (tv_sec - before) * Hz
    BY <2>3, <2>4, SecondsGrow
  <2>6. (tv_sec - before) * Hz = tv_sec * Hz - before * Hz /\ before * Hz \in Int
        /\ tv_sec * Hz \in Int /\ (step[i].ttl - 1) * Hz \in Int
    <3> HIDE DEF before
    <3>1. step[i].ttl - 1 \in Int
      BY <2>3
    <3> QED
      BY <2>3, <2>4, <3>1, SecondsAdd
  <2>7. step[i].since < before * Hz + Period
    BY <2>2
  <2> HIDE DEF before
  <2> QED
    BY <1>0, <2>3, <2>5, <2>6, <2>7
<1> QED
  BY <1>1, <1>2, <1>3, <1>4

(* The clock of sanji_refresh_session: what was taken off every session    *)
(* are the whole seconds since the refresh before it started.              *)
THEOREM ClockHolds == Spec => []ClockInvariant
<1>1. ClockInvariant /\ [Next]_vars => ClockInvariant'
  <2> SUFFICES ASSUME ClockInvariant, [Next]_vars PROVE ClockInvariant'
    OBVIOUS
  <2>1. CASE UNCHANGED vars
    BY <2>1 DEF vars, ClockInvariant, TypeOK, ClockRight, StepsRight, Counted, NotEarly
  <2>2. CASE tick
    BY <2>2, TickClock
  <2>3. CASE \E i \in Ids, ttl \in Ttls : session_step(i, ttl)
    BY <2>3, StepClock
  <2>4. CASE \E i \in Ids : session_step_stop(i)
    BY <2>4, StopClock
  <2>5. CASE sanji_refresh_session
    BY <2>5, RefreshClock
  <2> QED
    BY <2>1, <2>2, <2>3, <2>4, <2>5 DEF Next
<1> QED
  BY InitClock, <1>1, PTL DEF Spec

(* sanji_refresh_session drops no step early by more than the time between *)
(* two refreshes and one second.                                           *)
THEOREM NeverTooEarly == Spec => []NotEarly
<1>1. ClockInvariant => NotEarly
  BY DEF ClockInvariant
<1> QED
  BY ClockHolds, <1>1, PTL

(* No step outlives its ttl by more than the time between two refreshes.   *)
THEOREM NeverTooLate == Spec => []NotLate
<1>1. ClockInvariant => NotLate
  <2> SUFFICES ASSUME ClockInvariant, NEW i \in DOMAIN step
               PROVE  now - step[i].since < Lifetime(step[i].ttl) * Hz + Period
    BY DEF NotLate
  <2> USE DEF ClockInvariant
  <2>0. Hz \in Nat /\ Hz > 0 /\ Period \in Nat /\ Ttls \subseteq Int
    BY ClockAssumption
  <2>1. /\ step[i].ttl \in Int /\ step[i].left \in Int /\ step[i].since \in Int
        /\ now \in Int /\ stamp \in Int /\ last_time \in Int
        /\ Counted(i) = step[i].ttl - step[i].left
    BY <2>0 DEF TypeOK, Step, Counted
  <2>2. /\ Counted(i) \in Int /\ Counted(i) >= 0
        /\ step[i].left > 0 \/ Counted(i) = 0
        /\ (last_time - Counted(i)) * Hz <= step[i].since
        /\ now <= stamp + Period
        /\ stamp < (last_time + 1) * Hz
    BY <2>1 DEF StepsRight, ClockRight
  <2> DEFINE life == Lifetime(step[i].ttl)
             c == Counted(i)
  <2>3. life \in Int /\ c + 1 <= life
    BY <2>1, <2>2 DEF Lifetime
  <2> HIDE DEF life, c
  <2>4. c \in Int /\ c + 1 \in Int /\ (last_time - c) * Hz <= step[i].since
    BY <2>2 DEF c
  <2>5. (c + 1) * Hz <= life * Hz
    BY <2>3, <2>4, SecondsGrow
  <2>6. /\ (c + 1) * Hz = c * Hz + Hz /\ c * Hz \in Int
        /\ (last_time - c) * Hz = last_time * Hz - c * Hz
        /\ (last_time + 1) * Hz = last_time * Hz + Hz
        /\ last_time * Hz \in Int
    BY <2>1, <2>4, SecondsAdd
  <2>7. life * Hz \in Int
    BY <2>3, SecondsAdd
  <2>8. now - step[i].since < life * Hz + Period
    BY <2>0, <2>1, <2>2, <2>4, <2>5, <2>6, <2>7
  <2> QED
    BY <2>8 DEF life
<1> QED
  BY ClockHolds, <1>1, PTL
=============================================================================
