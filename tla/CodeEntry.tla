----------------------------- MODULE CodeEntry -----------------------------
(***************************************************************************)
(* The verification screen (VerificationCodeViewController and its         *)
(* VerificationViewContainer): one text field per digit, the Submit button *)
(* and the resend button with its countdown.                               *)
(*                                                                         *)
(*   filled   whether a field holds a digit                                *)
(*   border   whether a field has the green border                         *)
(*   focus    the first responder, 0 when none                             *)
(*   submit   navigationItem.rightBarButtonItem.isEnabled                  *)
(*   delayed  per field, the refreshes DispatchQueue.main.asyncAfter has   *)
(*            not run yet                                                  *)
(*   resend   resend.isEnabled                                             *)
(*   timers   timers scheduled and not invalidated                         *)
(*   seconds  the countdown                                                *)
(*                                                                         *)
(* External: after shouldChangeCharactersIn returns true UIKit edits the   *)
(* field and sends editingChanged, which colours the border at once; it    *)
(* need not when the handler has moved the focus away.                     *)
(***************************************************************************)
EXTENDS Integers

CONSTANTS N,            \* fields (6)
          Countdown,    \* seconds before the SMS may be sent again (15)
          MaxDelayed    \* bound on the refreshes pending for a field

ASSUME ConstantsAssumption ==
  N \in Nat \ {0} /\ Countdown \in Nat /\ MaxDelayed \in Nat

VARIABLES filled, border, focus, submit, delayed, resend, timers, seconds

entry == <<filled, border, focus, submit, delayed>>
clock == <<resend, timers, seconds>>
vars  == <<filled, border, focus, submit, delayed, resend, timers, seconds>>

Fields == 1..N

AllFilled(f) == \A i \in Fields : f[i]

Init == /\ filled = [i \in Fields |-> FALSE]
        /\ border = [i \in Fields |-> FALSE]
        /\ focus = 1 /\ submit = FALSE
        /\ delayed = [i \in Fields |-> 0]
        /\ resend = TRUE /\ timers = 0 /\ seconds = Countdown

----------------------------------------------------------------------------
(* textField(_:shouldChangeCharactersIn:replacementString:) *)

\* asyncAfter(deadline: .now() + 0.1)
Delay(i) == /\ delayed[i] < MaxDelayed
            /\ delayed' = [delayed EXCEPT ![i] = @ + 1]

\* editingChanged, if UIKit sends it, colours the border of the edited field.
EditingChanged(i) == \/ border' = [border EXCEPT ![i] = filled'[i]]
                     \/ UNCHANGED border

\* A second character is refused.
TypeRefused(i) ==
  /\ focus = i /\ filled[i]
  /\ submit' = AllFilled(filled)
  /\ UNCHANGED <<filled, border, focus, delayed, clock>>

\* Mutant: the button is only refreshed before the text is set.
TypeDigitStale(i) ==
  /\ focus = i
  /\ filled' = [filled EXCEPT ![i] = TRUE]
  /\ focus' = IF i = N THEN 0 ELSE i + 1
  /\ submit' = AllFilled(filled)
  /\ Delay(i)
  /\ EditingChanged(i)
  /\ UNCHANGED clock

\* A digit into an empty field, or over a selected one: the text is set, the
\* focus moves on, and both refreshes are made.
TypeDigit(i) ==
  /\ focus = i
  /\ filled' = [filled EXCEPT ![i] = TRUE]
  /\ focus' = IF i = N THEN 0 ELSE i + 1
  /\ submit' = AllFilled(filled')
  /\ Delay(i)
  /\ EditingChanged(i)
  /\ UNCHANGED clock

\* Mutant: no refresh once UIKit has deleted the digit.
DeleteDigitUndelayed(i) ==
  /\ focus = i /\ filled[i]
  /\ filled' = [filled EXCEPT ![i] = FALSE]
  /\ submit' = AllFilled(filled)
  /\ EditingChanged(i)
  /\ UNCHANGED <<focus, delayed, clock>>

\* Backspace in a filled field: the button is refreshed before UIKit deletes
\* the digit, and again 0.1 s later.
DeleteDigit(i) ==
  /\ focus = i /\ filled[i]
  /\ filled' = [filled EXCEPT ![i] = FALSE]
  /\ submit' = AllFilled(filled)
  /\ Delay(i)
  /\ EditingChanged(i)
  /\ UNCHANGED <<focus, clock>>

\* textFieldDidDeleteBackward: backspace in an empty field clears the previous
\* one and moves there; the first field has none.
DeleteBackward(i) ==
  /\ focus = i /\ ~filled[i] /\ i > 1
  /\ filled' = [filled EXCEPT ![i - 1] = FALSE]
  /\ focus' = i - 1
  /\ Delay(i - 1)
  /\ UNCHANGED <<border, submit, clock>>

\* The user taps a field.
BecomeFirstResponder(i) ==
  /\ focus # i
  /\ focus' = i
  /\ UNCHANGED <<filled, border, submit, delayed, clock>>

\* A delayed block: updateBorderColor and updateRightBarButtonStatus.
Refresh(i) ==
  /\ delayed[i] > 0
  /\ delayed' = [delayed EXCEPT ![i] = @ - 1]
  /\ border' = [border EXCEPT ![i] = filled[i]]
  /\ submit' = AllFilled(filled)
  /\ UNCHANGED <<filled, focus, clock>>

----------------------------------------------------------------------------
(* The resend button *)

\* Mutant: the button is not disabled.
ResendTappedEnabled ==
  /\ resend
  /\ timers' = timers + 1
  /\ UNCHANGED <<entry, resend, seconds>>

\* sendSMSConfirmation with a connection: runTimer().
ResendTapped ==
  /\ resend
  /\ resend' = FALSE
  /\ timers' = timers + 1
  /\ UNCHANGED <<entry, seconds>>

\* Mutant: the timer goes on without the button being enabled.
UpdateTimerEnds ==
  /\ timers > 0
  /\ IF seconds < 1
     THEN timers' = timers - 1 /\ seconds' = Countdown /\ UNCHANGED resend
     ELSE seconds' = seconds - 1 /\ UNCHANGED <<resend, timers>>
  /\ UNCHANGED entry

\* updateTimer, once a second; resetTimer() when the countdown has ended.
UpdateTimer ==
  /\ timers > 0
  /\ IF seconds < 1
     THEN timers' = timers - 1 /\ seconds' = Countdown /\ resend' = TRUE
     ELSE seconds' = seconds - 1 /\ UNCHANGED <<resend, timers>>
  /\ UNCHANGED entry

----------------------------------------------------------------------------

Refreshes == \E i \in Fields : Refresh(i)

Typing(i) == \/ TypeRefused(i) \/ TypeDigit(i) \/ DeleteDigit(i)
             \/ DeleteBackward(i) \/ BecomeFirstResponder(i)

Next == \/ \E i \in Fields : Typing(i)
        \/ Refreshes \/ ResendTapped \/ UpdateTimer

Spec == Init /\ [][Next]_vars

\* The main queue runs its blocks and the run loop fires its timers.
FairSpec == Spec /\ (\A i \in Fields : WF_vars(Refresh(i))) /\ WF_vars(UpdateTimer)

----------------------------------------------------------------------------
(* Properties *)

\* Every variable has its type.
TypeOK == /\ filled \in [Fields -> BOOLEAN] /\ border \in [Fields -> BOOLEAN]
          /\ focus \in 0..N /\ submit \in BOOLEAN
          /\ delayed \in [Fields -> 0..MaxDelayed]
          /\ resend \in BOOLEAN /\ timers \in Nat /\ seconds \in 0..Countdown

\* A complete code can always be submitted at once, in whatever order the
\* fields were filled, cleared and refilled.
CompleteCodeCanBeSubmitted == AllFilled(filled) => submit

\* When no refresh is pending, Submit is enabled only for a complete code: the
\* window in which a deleted digit leaves it enabled ends by itself.
SubmitSettles == (\A i \in Fields : delayed[i] = 0) => submit = AllFilled(filled)

\* A field with no refresh pending has the border of its content, although a
\* backspace clears a field that is not the one being edited.
BordersSettle == \A i \in Fields : delayed[i] = 0 => border[i] = filled[i]

\* The countdown has a single timer, runs exactly while the button is disabled
\* and starts from the full time.
OneCountdown == /\ timers = IF resend THEN 0 ELSE 1
                /\ resend => seconds = Countdown

\* The SMS can be sent again after a while.
ResendComesBack == ~resend ~> resend

=============================================================================
