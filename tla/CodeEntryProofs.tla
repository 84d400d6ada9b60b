-------------------------- MODULE CodeEntryProofs --------------------------
(***************************************************************************)
(* For any number of fields, any countdown and any number of refreshes     *)
(* pending: the verification screen settles.  The properties of CodeEntry  *)
(* are inductive together once "settled" is read as in Covered: while      *)
(* Submit is out of date, the refresh that will correct it is pending.     *)
(***************************************************************************)
EXTENDS CodeEntry, TLAPS

Covered == submit # AllFilled(filled) => \E i \in Fields : delayed[i] # 0

IInv == TypeOK /\ CompleteCodeCanBeSubmitted /\ Covered /\ BordersSettle /\ OneCountdown

\* The screen as viewDidLoad leaves it.
LEMMA InitIInv == Init => IInv
<1> SUFFICES ASSUME Init PROVE IInv
  OBVIOUS
<1>1. 1 \in Fields
  BY ConstantsAssumption DEF Fields
<1>2. AllFilled(filled) = FALSE
  BY <1>1 DEF Init, AllFilled
<1>3. TypeOK
  <2>1. filled \in [Fields -> BOOLEAN] /\ border \in [Fields -> BOOLEAN]
    BY DEF Init
  <2>2. submit \in BOOLEAN /\ resend \in BOOLEAN
    BY DEF Init
  <2>3. /\ delayed \in [Fields -> 0..MaxDelayed] /\ focus \in 0..N
        /\ timers \in Nat /\ seconds \in 0..Countdown
    BY ConstantsAssumption DEF Init
  <2> QED
    BY <2>1, <2>2, <2>3 DEF TypeOK
<1>4. CompleteCodeCanBeSubmitted /\ Covered
  BY <1>2 DEF Init, CompleteCodeCanBeSubmitted, Covered
<1>5. BordersSettle /\ OneCountdown
  BY DEF Init, BordersSettle, OneCountdown
<1> QED
  BY <1>3, <1>4, <1>5 DEF IInv

\* Scheduling a refresh of field i, and only that, is what Delay does.
LEMMA DelayEffect ==
  ASSUME TypeOK, NEW i \in Fields, Delay(i)
  PROVE  /\ delayed' \in [Fields -> 0..MaxDelayed]
         /\ delayed'[i] # 0
         /\ \A j \in Fields : j # i => delayed'[j] = delayed[j]
BY ConstantsAssumption DEF Delay, TypeOK

\* editingChanged, sent or not, touches the border of field i only.
LEMMA EditingChangedEffect ==
  ASSUME TypeOK, NEW i \in Fields, EditingChanged(i), filled' \in [Fields -> BOOLEAN]
  PROVE  /\ border' \in [Fields -> BOOLEAN]
         /\ \A j \in Fields : j # i => border'[j] = border[j]
<1>1. filled'[i] \in BOOLEAN
  OBVIOUS
<1> QED
  BY <1>1 DEF EditingChanged, TypeOK

\* An edit of field i that schedules a refresh of that field keeps what is
\* said of every field, and keeps Submit covered whatever it is.
LEMMA EditKeepsSettling ==
  ASSUME IInv, NEW i \in Fields, Delay(i),
         filled' \in [Fields -> BOOLEAN],
         \A j \in Fields : j # i => filled'[j] = filled[j],
         \A j \in Fields : j # i => border'[j] = border[j]
  PROVE  Covered' /\ BordersSettle'
<1>1. /\ delayed'[i] # 0
      /\ \A j \in Fields : j # i => delayed'[j] = delayed[j]
  BY DelayEffect DEF IInv
<1>2. Covered'
  BY <1>1 DEF Covered
<1>3. BordersSettle'
  BY <1>1 DEF IInv, BordersSettle
<1> QED
  BY <1>2, <1>3

\* The handlers of the text fields leave the countdown alone, and the other
\* way round.
LEMMA TypingKeepsClock ==
  ASSUME IInv, UNCHANGED clock
  PROVE  OneCountdown' /\ resend' \in BOOLEAN /\ timers' \in Nat /\ seconds' \in 0..Countdown
BY DEF IInv, TypeOK, OneCountdown, clock

\* Every handler of a text field keeps the invariant.
LEMMA TypingIInv ==
  ASSUME IInv, NEW i \in Fields, Typing(i)
  PROVE  IInv'
<1> USE DEF IInv
<1>0. OneCountdown' /\ resend' \in BOOLEAN /\ timers' \in Nat /\ seconds' \in 0..Countdown
  <2>1. UNCHANGED clock
    BY DEF Typing, TypeRefused, TypeDigit, DeleteDigit, DeleteBackward,
           BecomeFirstResponder, clock
  <2> QED
    BY <2>1, TypingKeepsClock
<1>1. CASE TypeRefused(i)
  <2>1. AllFilled(filled)' = AllFilled(filled) /\ AllFilled(filled) \in BOOLEAN
    BY <1>1 DEF TypeRefused, AllFilled
  <2>2. submit' = AllFilled(filled)'
    BY <1>1, <2>1 DEF TypeRefused
  <2>3. TypeOK'
    BY <1>0, <1>1, <2>1 DEF TypeRefused, TypeOK
  <2>4. BordersSettle'
    BY <1>1 DEF TypeRefused, BordersSettle
  <2> QED
    BY <1>0, <2>2, <2>3, <2>4 DEF Covered, CompleteCodeCanBeSubmitted
<1>2. CASE TypeDigit(i)
  <2>1. filled' \in [Fields -> BOOLEAN] /\ \A j \in Fields : j # i => filled'[j] = filled[j]
    BY <1>2 DEF TypeDigit, TypeOK
  <2>2. border' \in [Fields -> BOOLEAN] /\ \A j \in Fields : j # i => border'[j] = border[j]
    BY <1>2, <2>1, EditingChangedEffect DEF TypeDigit
  <2>3. delayed' \in [Fields -> 0..MaxDelayed]
    BY <1>2, DelayEffect DEF TypeDigit
  <2>4. focus' \in 0..N
    BY <1>2, ConstantsAssumption DEF TypeDigit, TypeOK, Fields
  <2>5. submit' = AllFilled(filled') /\ submit' \in BOOLEAN
    BY <1>2 DEF TypeDigit, AllFilled
  <2>6. CompleteCodeCanBeSubmitted'
    BY <2>5 DEF CompleteCodeCanBeSubmitted
  <2>7. Covered' /\ BordersSettle'
    BY <1>2, <2>1, <2>2, EditKeepsSettling DEF TypeDigit
  <2> QED
    BY <1>0, <2>1, <2>2, <2>3, <2>4, <2>5, <2>6, <2>7 DEF TypeOK
<1>3. CASE DeleteDigit(i)
  <2>1. /\ filled' \in [Fields -> BOOLEAN] /\ \A j \in Fields : j # i => filled'[j] = filled[j]
        /\ filled'[i] = FALSE
    BY <1>3 DEF DeleteDigit, TypeOK
  <2>2. border' \in [Fields -> BOOLEAN] /\ \A j \in Fields : j # i => border'[j] = border[j]
    BY <1>3, <2>1, EditingChangedEffect DEF DeleteDigit
  <2>3. delayed' \in [Fields -> 0..MaxDelayed]
    BY <1>3, DelayEffect DEF DeleteDigit
  <2>4. focus' \in 0..N /\ submit' \in BOOLEAN
    BY <1>3 DEF DeleteDigit, TypeOK, AllFilled
  <2>5. CompleteCodeCanBeSubmitted'
    BY <2>1 DEF CompleteCodeCanBeSubmitted, AllFilled
  <2>6. Covered' /\ BordersSettle'
    BY <1>3, <2>1, <2>2, EditKeepsSettling DEF DeleteDigit
  <2> QED
    BY <1>0, <2>1, <2>2, <2>3, <2>4, <2>5, <2>6 DEF TypeOK
<1>4. CASE DeleteBackward(i)
  <2>1. i - 1 \in Fields
    BY <1>4, ConstantsAssumption DEF DeleteBackward, Fields
  <2>2. /\ filled' \in [Fields -> BOOLEAN]
        /\ \A j \in Fields : j # i - 1 => filled'[j] = filled[j]
        /\ filled'[i - 1] = FALSE
    BY <1>4, <2>1 DEF DeleteBackward, TypeOK
  <2>3. border' = border /\ submit' = submit
    BY <1>4 DEF DeleteBackward
  <2>4. Delay(i - 1) /\ delayed' \in [Fields -> 0..MaxDelayed]
    BY <1>4, <2>1, DelayEffect DEF DeleteBackward
  <2>5. focus' \in 0..N
    BY <1>4, <2>1, ConstantsAssumption DEF DeleteBackward, Fields
  <2>6. CompleteCodeCanBeSubmitted'
    BY <2>1, <2>2 DEF CompleteCodeCanBeSubmitted, AllFilled
  <2>7. Covered' /\ BordersSettle'
    BY <2>1, <2>2, <2>3, <2>4, EditKeepsSettling
  <2> QED
    BY <1>0, <2>2, <2>3, <2>4, <2>5, <2>6, <2>7 DEF TypeOK
<1>5. CASE BecomeFirstResponder(i)
  <2>1. UNCHANGED <<filled, border, submit, delayed>> /\ focus' = i
    BY <1>5 DEF BecomeFirstResponder
  <2>2. focus' \in 0..N
    BY <2>1, ConstantsAssumption DEF Fields
  <2>3. TypeOK'
    BY <1>0, <2>1, <2>2 DEF TypeOK
  <2> QED
    BY <1>0, <2>1, <2>3 DEF CompleteCodeCanBeSubmitted, Covered, BordersSettle, AllFilled
<1> QED
  BY <1>1, <1>2, <1>3, <1>4, <1>5 DEF Typing

\* A delayed refresh makes Submit and its field right, so it may be the last.
LEMMA RefreshIInv ==
  ASSUME IInv, NEW i \in Fields, Refresh(i)
  PROVE  IInv'
<1> USE DEF IInv
<1>1. OneCountdown' /\ resend' \in BOOLEAN /\ timers' \in Nat /\ seconds' \in 0..Countdown
  BY TypingKeepsClock DEF Refresh
<1>2. filled' = filled /\ focus' = focus
  BY DEF Refresh
<1>3. submit' = AllFilled(filled) /\ submit' \in BOOLEAN
  BY DEF Refresh, AllFilled
<1>4. border' \in [Fields -> BOOLEAN] /\ border'[i] = filled[i]
      /\ \A j \in Fields : j # i => border'[j] = border[j]
  <2>1. filled[i] \in BOOLEAN
    BY DEF TypeOK
  <2> QED
    BY <2>1 DEF Refresh, TypeOK
<1>5. delayed' \in [Fields -> 0..MaxDelayed]
      /\ \A j \in Fields : j # i => delayed'[j] = delayed[j]
  BY ConstantsAssumption DEF Refresh, TypeOK
<1>6. TypeOK'
  BY <1>1, <1>2, <1>3, <1>4, <1>5 DEF TypeOK
<1>7. CompleteCodeCanBeSubmitted' /\ Covered'
  BY <1>2, <1>3 DEF CompleteCodeCanBeSubmitted, Covered
<1>8. BordersSettle'
  BY <1>2, <1>4, <1>5 DEF BordersSettle
<1> QED
  BY <1>1, <1>6, <1>7, <1>8

\* Both handlers of the countdown.
LEMMA ClockIInv ==
  ASSUME IInv, ResendTapped \/ UpdateTimer
  PROVE  IInv'
<1> USE DEF IInv
<1>1. UNCHANGED <<filled, border, focus, submit, delayed>>
  BY DEF ResendTapped, UpdateTimer, entry
<1>2. CompleteCodeCanBeSubmitted' /\ Covered' /\ BordersSettle'
  BY <1>1 DEF CompleteCodeCanBeSubmitted, Covered, BordersSettle, AllFilled
<1>3. CASE ResendTapped
  <2>1. resend = TRUE /\ resend' = FALSE /\ timers = 0 /\ timers' = 1 /\ seconds' = seconds
    BY <1>3 DEF ResendTapped, OneCountdown, TypeOK
  <2>2. TypeOK'
    BY <1>1, <2>1 DEF TypeOK
  <2>3. OneCountdown'
    BY <2>1 DEF OneCountdown
  <2> QED
    BY <1>2, <2>2, <2>3
<1>4. CASE UpdateTimer
  <2>1. resend = FALSE /\ timers = 1
    BY <1>4 DEF UpdateTimer, OneCountdown, TypeOK
  <2>2. CASE seconds < 1
    <3>1. timers' = 0 /\ seconds' = Countdown /\ resend' = TRUE
      BY <1>4, <2>1, <2>2 DEF UpdateTimer
    <3>2. TypeOK'
      BY <1>1, <3>1, ConstantsAssumption DEF TypeOK
    <3> QED
      BY <1>2, <3>1, <3>2 DEF OneCountdown
  <2>3. CASE ~(seconds < 1)
    <3>1. seconds' = seconds - 1 /\ resend' = resend /\ timers' = timers
      BY <1>4, <2>3 DEF UpdateTimer
    <3>2. TypeOK'
      BY <1>1, <2>3, <3>1, ConstantsAssumption DEF TypeOK
    <3> QED
      BY <1>2, <2>1, <3>1, <3>2 DEF OneCountdown
  <2> QED
    BY <2>2, <2>3
<1> QED
  BY <1>3, <1>4

----------------------------------------------------------------------------

\* The invariant holds in every state of the verification screen.
THEOREM Invariance == Spec => []IInv
<1>1. Init => IInv
  BY InitIInv
<1>2. IInv /\ [Next]_vars => IInv'
  <2> SUFFICES ASSUME IInv, [Next]_vars PROVE IInv'
    OBVIOUS
  <2>1. CASE \E i \in Fields : Typing(i)
    BY <2>1, TypingIInv
  <2>2. CASE Refreshes
    BY <2>2, RefreshIInv DEF Refreshes
  <2>3. CASE ResendTapped \/ UpdateTimer
    BY <2>3, ClockIInv
  <2>4. CASE UNCHANGED vars
    BY <2>4 DEF vars, IInv, TypeOK, CompleteCodeCanBeSubmitted, Covered,
       BordersSettle, OneCountdown, AllFilled
  <2> QED
    BY <2>1, <2>2, <2>3, <2>4 DEF Next
<1> QED
  BY <1>1, <1>2, PTL DEF Spec

\* A complete code can be submitted at once, however it was typed.
THEOREM CompleteCodes == Spec => []CompleteCodeCanBeSubmitted
<1>1. IInv => CompleteCodeCanBeSubmitted
  BY DEF IInv
<1> QED
  BY <1>1, Invariance, PTL

\* With no refresh pending, Submit is enabled exactly for a complete code.
THEOREM SubmitIsRight == Spec => []SubmitSettles
<1>1. IInv => SubmitSettles
  BY DEF IInv, Covered, SubmitSettles
<1> QED
  BY <1>1, Invariance, PTL

\* With no refresh pending for a field, its border is that of its content.
THEOREM BordersAreRight == Spec => []BordersSettle
<1>1. IInv => BordersSettle
  BY DEF IInv
<1> QED
  BY <1>1, Invariance, PTL

\* There is one timer, exactly while the resend button is disabled.
THEOREM SingleCountdown == Spec => []OneCountdown
<1>1. IInv => OneCountdown
  BY DEF IInv
<1> QED
  BY <1>1, Invariance, PTL

\* The fields, the focus and the countdown stay in range for any number of
\* fields, although taps and refreshes move them in any order.
THEOREM TypeCorrect == Spec => []TypeOK
<1>1. IInv => TypeOK
  BY DEF IInv
<1> QED
  BY <1>1, Invariance, PTL

----------------------------------------------------------------------------
(* What is behind the property ResendComesBack: fairness only has to fire  *)
(* the timer, which exists and counts down from at most Countdown.          *)

\* The times the timer still has to fire before "resend" is enabled.
TicksLeft == IF resend THEN 0 ELSE seconds + 1

\* A disabled resend button has a timer, its ticks left are bounded, every tick
\* takes one off, and nothing the user types, deletes or taps adds one.
THEOREM CountdownEnds ==
  Spec => /\ [](~resend => timers = 1 /\ TicksLeft \in 1 .. Countdown + 1)
          /\ [][~resend => /\ UpdateTimer => TicksLeft' = TicksLeft - 1
                           /\ ~UpdateTimer => TicksLeft' = TicksLeft]_vars
<1>1. IInv => (~resend => timers = 1 /\ TicksLeft \in 1 .. Countdown + 1)
  BY ConstantsAssumption DEF IInv, TypeOK, OneCountdown, TicksLeft
<1>2. ASSUME IInv, Next, ~resend
      PROVE  /\ UpdateTimer => TicksLeft' = TicksLeft - 1
             /\ ~UpdateTimer => TicksLeft' = TicksLeft
  <2>1. CASE UpdateTimer
    <3>1. CASE seconds < 1
      <4>1. resend' = TRUE /\ seconds = 0
        BY <1>2, <2>1, <3>1, ConstantsAssumption DEF UpdateTimer, IInv, TypeOK
      <4> QED
        BY <1>2, <2>1, <4>1 DEF TicksLeft
    <3>2. CASE ~(seconds < 1)
      <4>1. resend' = resend /\ seconds' = seconds - 1 /\ seconds \in Nat
        BY <1>2, <2>1, <3>2, ConstantsAssumption DEF UpdateTimer, IInv, TypeOK
      <4> QED
        BY <1>2, <2>1, <4>1 DEF TicksLeft
    <3> QED
      BY <3>1, <3>2
  <2>2. CASE ~UpdateTimer
    <3>1. UNCHANGED clock
      BY <1>2, <2>2 DEF Next, Typing, Refreshes, Refresh, ResendTapped, TypeRefused,
         TypeDigit, DeleteDigit, DeleteBackward, BecomeFirstResponder
    <3> QED
      BY <2>2, <3>1 DEF clock, TicksLeft
  <2> QED
    BY <2>1, <2>2
<1> QED
  BY <1>1, <1>2, Invariance, PTL DEF Spec

=============================================================================
