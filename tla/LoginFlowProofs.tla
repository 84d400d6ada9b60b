-------------------------- MODULE LoginFlowProofs ---------------------------
(***************************************************************************)
(* For any number of calls in flight and of screens pushed: the main       *)
(* screen needs a signed-in user, onboarding is shown once, and no         *)
(* MainViewController is presented next to AppDelegate's own.              *)
(*                                                                         *)
(* None of the three is inductive.  A queued block presents a main screen  *)
(* long after the answer that queued it, so Signed adds that such a block  *)
(* means a signed-in user; it presents over its own screen, so NavOnly     *)
(* adds that screens exist only under the navigation controller made at    *)
(* launch, which is never the root again once a main screen has loaded.    *)
(*                                                                         *)
(* SignInsAreShown says when a sign-in is left without a main screen, and  *)
(* CodesAreAccepted when the id kept is that of the last SMS (LastSms).    *)
(***************************************************************************)
EXTENDS LoginFlow, TLAPS

----------------------------------------------------------------------------
(* Types *)

\* A screen that can be tapped is one of the stack.
LEMMA TopIsScreen ==
  ASSUME TypeOK, stack # <<>>
  PROVE  Top \in Screen /\ Len(stack) \in DOMAIN stack
BY DEF TypeOK, Top

\* What a change of the pending calls must keep.
PendingOK(ps, last) == ps \in SUBSET Call /\ \A c \in ps : c.sms <= last

LEMMA StartType ==
  ASSUME TypeOK, NEW op \in Ops, NEW owner \in 0..MaxScreens, NEW ok \in BOOLEAN,
         Start(op, owner, ok)
  PROVE  calls' \in 0..MaxCalls /\ PendingOK(pending', sms)
<1> DEFINE new == [op |-> op, owner |-> owner, ok |-> ok, n |-> calls + 1, sms |-> 0]
<1>1. calls + 1 \in 1..MaxCalls
  BY BoundsAssumption DEF Start, TypeOK
<1>2. new \in Call /\ new.sms <= sms
  BY <1>1 DEF Call, TypeOK
<1>3. pending' = pending \cup {new}
  BY DEF Start
<1> QED
  BY <1>1, <1>2, <1>3 DEF Start, TypeOK, PendingOK

LEMMA ThenType ==
  ASSUME TypeOK, NEW c \in pending, NEW op \in Ops, Then(c, op)
  PROVE  PendingOK(pending', sms)
<1>1. [c EXCEPT !.op = op] \in Call /\ [c EXCEPT !.op = op].sms <= sms
  BY DEF TypeOK, Call
<1> QED
  BY <1>1 DEF TypeOK, Then, PendingOK

LEMMA DoneType ==
  ASSUME TypeOK, NEW c \in pending, Done(c)
  PROVE  PendingOK(pending', sms)
BY DEF TypeOK, Done, PendingOK

LEMMA PushType ==
  ASSUME TypeOK, NEW kind \in Kinds, Push(kind)
  PROVE  screens' \in 0..MaxScreens /\ stack' \in Seq(Screen)
<1>1. screens + 1 \in 1..MaxScreens
  BY BoundsAssumption DEF Push, TypeOK
<1>2. [kind |-> kind, id |-> screens + 1] \in Screen
  BY <1>1 DEF Screen
<1> QED
  BY <1>1, <1>2 DEF Push, TypeOK

LEMMA SetRootType ==
  ASSUME TypeOK, NEW r \in Roots, SetRoot(r)
  PROVE  /\ root' \in Roots /\ stack' \in Seq(Screen)
         /\ modal' \in BOOLEAN /\ alert' \in BOOLEAN /\ mainLoaded' \in BOOLEAN
         /\ waiting' \in SUBSET (1..MaxScreens)
<1>1. /\ modal' \in BOOLEAN /\ alert' \in BOOLEAN /\ mainLoaded' \in BOOLEAN
      /\ root' \in Roots
  BY DEF SetRoot
<1>2. stack' \in Seq(Screen) /\ waiting' \in SUBSET (1..MaxScreens)
  BY DEF SetRoot
<1> QED
  BY <1>1, <1>2

LEMMA InitType == Init => TypeOK
<1> SUFFICES ASSUME Init PROVE TypeOK
  OBVIOUS
<1>1. /\ currentUser \in BOOLEAN /\ hasOnboarded \in BOOLEAN /\ modal \in BOOLEAN
      /\ alert \in BOOLEAN /\ sheet \in BOOLEAN /\ mainLoaded \in BOOLEAN
  BY DEF Init
<1>2. /\ root \in Roots /\ stack \in Seq(Screen)
      /\ sms \in Nat /\ verificationId \in 0..sms
      /\ waiting \in SUBSET (1..MaxScreens) /\ PendingOK(pending, sms)
      /\ calls \in 0..MaxCalls /\ screens \in 0..MaxScreens
  BY BoundsAssumption DEF Init, Roots, PendingOK
<1> QED
  BY <1>1, <1>2 DEF TypeOK, PendingOK

\* AppDelegate's handlers and the end of the process.
LEMMA AppDelegateType ==
  ASSUME TypeOK, \/ DidFinishLaunching \/ DidFinishOnboarding \/ DidLogout \/ Kill
  PROVE  TypeOK'
<1>1. CASE DidFinishLaunching
  <2>1. PICK r \in Roots : SetRoot(r)
    BY <1>1 DEF DidFinishLaunching, Roots
  <2> QED
    BY <1>1, <2>1, SetRootType DEF DidFinishLaunching, TypeOK
<1>2. CASE DidFinishOnboarding
  <2>1. SetRoot("main") /\ "main" \in Roots /\ hasOnboarded' \in BOOLEAN
    BY <1>2 DEF DidFinishOnboarding, Roots
  <2> QED
    BY <1>2, <2>1, SetRootType DEF DidFinishOnboarding, TypeOK
<1>3. CASE DidLogout
  <2>1. SetRoot("login") /\ "login" \in Roots
    BY <1>3 DEF DidLogout, Roots
  <2> QED
    BY <1>3, <2>1, SetRootType DEF DidLogout, TypeOK
<1>4. CASE Kill
  <2>1. /\ currentUser' \in BOOLEAN /\ hasOnboarded' \in BOOLEAN /\ modal' \in BOOLEAN
        /\ alert' \in BOOLEAN /\ sheet' \in BOOLEAN /\ mainLoaded' \in BOOLEAN
    BY <1>4, Zenon DEF Kill, account, TypeOK
  <2>2. /\ root' \in Roots /\ stack' \in Seq(Screen)
        /\ sms' \in Nat /\ verificationId' \in 0..sms'
        /\ waiting' \in SUBSET (1..MaxScreens) /\ PendingOK(pending', sms')
        /\ calls' \in 0..MaxCalls /\ screens' \in 0..MaxScreens
    BY <1>4, BoundsAssumption DEF Kill, Roots, PendingOK
  <2> QED
    BY <2>1, <2>2 DEF TypeOK, PendingOK
<1> QED
  BY <1>1, <1>2, <1>3, <1>4

\* LoginViewController's Google sign-in.
LEMMA GoogleType ==
  ASSUME TypeOK,
         \/ GoogleSignInButtonTapped \/ GoogleSheetEnds
         \/ \E c \in pending : GoogleAnswered(c)
  PROVE  TypeOK'
<1> USE DEF PendingOK
<1>1. CASE GoogleSignInButtonTapped
  <2>1. sheet' \in BOOLEAN
    BY <1>1 DEF GoogleSignInButtonTapped
  <2> QED
    BY <1>1, <2>1 DEF GoogleSignInButtonTapped, TypeOK, account, window, auth
<1>2. CASE GoogleSheetEnds
  <2>1. sheet' \in BOOLEAN
    BY <1>2 DEF GoogleSheetEnds
  <2>2. calls' \in 0..MaxCalls /\ PendingOK(pending', sms)
    <3>1. "google" \in Ops /\ 0 \in 0..MaxScreens
      BY BoundsAssumption DEF Ops
    <3> QED
      BY <1>2, <3>1, StartType DEF GoogleSheetEnds, TypeOK
  <2> QED
    BY <1>2, <2>1, <2>2 DEF GoogleSheetEnds, TypeOK, account, window, auth
<1>3. ASSUME NEW c \in pending, GoogleAnswered(c)
      PROVE  TypeOK'
  <2>1. PendingOK(pending', sms)
    BY <1>3, DoneType DEF GoogleAnswered
  <2>2. CASE currentUser' = TRUE /\ DidLogin
    <3>1. PICK r \in Roots : SetRoot(r)
      BY <2>2 DEF DidLogin, Roots
    <3>2. currentUser' \in BOOLEAN
      BY <2>2
    <3> QED
      BY <1>3, <2>1, <3>1, <3>2, SetRootType DEF GoogleAnswered, TypeOK, auth
  <2>3. CASE UNCHANGED <<currentUser, window, stack, alert, waiting>>
    BY <1>3, <2>1, <2>3 DEF GoogleAnswered, TypeOK, auth, window
  <2> QED
    BY <1>3, <2>2, <2>3 DEF GoogleAnswered
<1> QED
  BY <1>1, <1>2, <1>3

\* The phone-number and verification screens.
LEMMA ScreenType ==
  ASSUME TypeOK,
         \/ PhoneButtonTapped \/ OpenCountryCodesList \/ Back \/ NextTapped
         \/ AlertDismissed \/ ResendTapped \/ ResendTimerEnds
         \/ \E code \in 0..sms : SubmitTapped(code)
  PROVE  TypeOK'
<1> USE DEF account, window, auth, PendingOK
<1>1. CASE PhoneButtonTapped
  BY <1>1, PushType DEF PhoneButtonTapped, TypeOK, Kinds
<1>2. CASE OpenCountryCodesList
  BY <1>2, PushType DEF OpenCountryCodesList, TypeOK, Kinds
<1>3. CASE Back
  <2>1. stack' \in Seq(Screen)
    BY <1>3 DEF Back, TypeOK
  <2> QED
    BY <1>3, <2>1 DEF Back, TypeOK
<1>4. CASE NextTapped
  <2>1. screens' \in 0..MaxScreens /\ stack' \in Seq(Screen)
    BY <1>4, PushType DEF NextTapped, Kinds
  <2>2. Top.id \in 0..MaxScreens
    BY <1>4, TopIsScreen DEF NextTapped, OnTop, Screen
  <2>3. CASE Start("startAuth", Top.id, TRUE) /\ UNCHANGED alert
    <3>1. calls' \in 0..MaxCalls /\ PendingOK(pending', sms)
      BY <2>2, <2>3, StartType DEF Ops
    <3> QED
      BY <1>4, <2>1, <2>3, <3>1 DEF NextTapped, TypeOK
  <2>4. CASE alert' = TRUE /\ UNCHANGED <<pending, calls>>
    BY <1>4, <2>1, <2>4 DEF NextTapped, TypeOK
  <2> QED
    BY <1>4, <2>3, <2>4 DEF NextTapped
<1>5. CASE AlertDismissed
  BY <1>5 DEF AlertDismissed, TypeOK
<1>6. CASE ResendTapped
  <2>1. Top.id \in 1..MaxScreens
    BY <1>6, TopIsScreen DEF ResendTapped, OnTop, Screen
  <2>2. CASE /\ Start("resend", 0, TRUE)
             /\ waiting' = waiting \cup {Top.id}
             /\ UNCHANGED alert
    <3>1. calls' \in 0..MaxCalls /\ PendingOK(pending', sms)
      <4>1. "resend" \in Ops /\ 0 \in 0..MaxScreens
        BY BoundsAssumption DEF Ops
      <4> QED
        BY <2>2, <4>1, StartType
    <3> QED
      BY <1>6, <2>1, <2>2, <3>1 DEF ResendTapped, TypeOK
  <2>3. CASE alert' = TRUE /\ UNCHANGED <<waiting, pending, calls>>
    BY <1>6, <2>3 DEF ResendTapped, TypeOK
  <2> QED
    BY <1>6, <2>2, <2>3 DEF ResendTapped
<1>7. CASE ResendTimerEnds
  BY <1>7 DEF ResendTimerEnds, TypeOK
<1>8. ASSUME NEW code \in 0..sms, SubmitTapped(code)
      PROVE  TypeOK'
  <2>1. Top.id \in 0..MaxScreens
    BY <1>8, TopIsScreen DEF SubmitTapped, OnTop, Screen
  <2>2. CASE Start("verify", Top.id, code = verificationId) /\ UNCHANGED alert
    <3>1. calls' \in 0..MaxCalls /\ PendingOK(pending', sms)
      <4>1. (code = verificationId) \in BOOLEAN /\ "verify" \in Ops
        BY DEF Ops
      <4> QED
        BY <2>1, <2>2, <4>1, StartType, Zenon
    <3> QED
      BY <1>8, <2>2, <3>1 DEF SubmitTapped, TypeOK
  <2>3. CASE alert' = TRUE /\ UNCHANGED <<pending, calls>>
    BY <1>8, <2>3 DEF SubmitTapped, TypeOK
  <2> QED
    BY <1>8, <2>2, <2>3 DEF SubmitTapped
<1> QED
  BY <1>1, <1>2, <1>3, <1>4, <1>5, <1>6, <1>7, <1>8

\* Firebase's answers to the phone sign-in, and the blocks they queue.
LEMMA AnswerType ==
  ASSUME TypeOK, NEW c \in pending,
         \/ StartAuthAnswered(c) \/ VerifyAnswered(c) \/ ResendAnswered(c)
         \/ PushVerification(c) \/ PresentMain(c) \/ SmsSent(c)
  PROVE  TypeOK'
<1> USE DEF account, window, auth, PendingOK
<1>1. CASE StartAuthAnswered(c)
  <2>1. PendingOK(pending', sms)
    BY <1>1, DoneType, ThenType DEF StartAuthAnswered, Ops
  <2>2. verificationId' \in 0..sms
    BY <1>1 DEF StartAuthAnswered, TypeOK, Call
  <2> QED
    BY <1>1, <2>1, <2>2 DEF StartAuthAnswered, TypeOK
<1>2. CASE VerifyAnswered(c)
  <2>1. PendingOK(pending', sms)
    BY <1>2, DoneType, ThenType DEF VerifyAnswered, Ops
  <2>2. currentUser' \in BOOLEAN
    BY <1>2 DEF VerifyAnswered, TypeOK
  <2> QED
    BY <1>2, <2>1, <2>2 DEF VerifyAnswered, TypeOK
<1>3. CASE ResendAnswered(c)
  <2>1. PendingOK(pending', sms)
    BY <1>3, DoneType DEF ResendAnswered
  <2> QED
    BY <1>3, <2>1 DEF ResendAnswered, TypeOK
<1>4. CASE PushVerification(c)
  <2>1. PendingOK(pending', sms)
    BY <1>4, DoneType DEF PushVerification
  <2>2. screens' \in 0..MaxScreens /\ stack' \in Seq(Screen)
    BY <1>4, PushType DEF PushVerification, Kinds, TypeOK
  <2> QED
    BY <1>4, <2>1, <2>2 DEF PushVerification, TypeOK
<1>5. CASE PresentMain(c)
  <2>1. PendingOK(pending', sms)
    BY <1>5, DoneType DEF PresentMain
  <2>2. modal' \in BOOLEAN
    BY <1>5 DEF PresentMain, TypeOK
  <2> QED
    BY <1>5, <2>1, <2>2 DEF PresentMain, TypeOK
<1>6. CASE SmsSent(c)
  <2>1. [c EXCEPT !.sms = sms + 1] \in Call /\ [c EXCEPT !.sms = sms + 1].sms <= sms'
    BY <1>6 DEF SmsSent, TypeOK, Call
  <2>2. sms' \in Nat /\ sms <= sms' /\ verificationId' \in 0..sms'
    BY <1>6 DEF SmsSent, TypeOK
  <2>3. PendingOK(pending', sms')
    BY <1>6, <2>1, <2>2 DEF SmsSent, TypeOK, Call
  <2> QED
    BY <1>6, <2>2, <2>3 DEF SmsSent, TypeOK
<1> QED
  BY <1>1, <1>2, <1>3, <1>4, <1>5, <1>6

\* Every variable of the sign-in keeps its type, and verifyCode only ever uses
\* the id of an SMS that was sent.
THEOREM TypeCorrect == Spec => []TypeOK
<1>1. TypeOK /\ [Next]_vars => TypeOK'
  <2> SUFFICES ASSUME TypeOK, [Next]_vars
               PROVE  TypeOK'
    OBVIOUS
  <2>1. CASE UNCHANGED vars
    BY <2>1 DEF vars, TypeOK
  <2>2. CASE DidFinishLaunching \/ Kill \/ DidFinishOnboarding \/ DidLogout
    BY <2>2, AppDelegateType
  <2>3. CASE GoogleSignInButtonTapped \/ GoogleSheetEnds
    BY <2>3, GoogleType
  <2>4. CASE \/ PhoneButtonTapped \/ OpenCountryCodesList \/ Back \/ NextTapped
             \/ AlertDismissed \/ ResendTapped \/ ResendTimerEnds
             \/ \E code \in 0..sms : SubmitTapped(code)
    BY <2>4, ScreenType
  <2>5. CASE \E c \in pending : Answered(c) \/ MainQueue(c)
    BY <2>5, GoogleType, AnswerType DEF Answered, MainQueue
  <2> QED
    BY <2>1, <2>2, <2>3, <2>4, <2>5, Zenon DEF Next, UserStep
<1> QED
  BY InitType, <1>1, PTL DEF Spec

----------------------------------------------------------------------------
(* Screens *)

Signed == /\ root \in {"main", "onboarding"} \/ modal => currentUser
          /\ \A c \in pending : c.op = "present" => currentUser

NavOnly == /\ stack # <<>> => root = "nav"
           /\ modal => root = "nav"
           /\ root \in {"none", "nav"} => ~mainLoaded

SInv == TypeOK /\ Signed /\ NavOnly /\ OnboardingOnce

\* What the invariant says, once TypeOK is left aside.
Shown == Signed /\ NavOnly /\ OnboardingOnce

LEMMA StartSigned ==
  ASSUME Signed, NEW op, NEW owner, NEW ok, op # "present", Start(op, owner, ok),
         UNCHANGED currentUser
  PROVE  \A c \in pending' : c.op = "present" => currentUser'
BY DEF Start, Signed

LEMMA DoneSigned ==
  ASSUME Signed, NEW d, Done(d), currentUser => currentUser'
  PROVE  \A c \in pending' : c.op = "present" => currentUser'
BY DEF Done, Signed

LEMMA AppDelegateShown ==
  ASSUME SInv, \/ DidFinishLaunching \/ DidFinishOnboarding \/ DidLogout \/ Kill
  PROVE  Shown'
<1> USE DEF SInv, Shown, Signed, NavOnly, OnboardingOnce, account
<1>1. CASE DidFinishLaunching
  BY <1>1 DEF DidFinishLaunching, SetRoot
<1>2. CASE DidFinishOnboarding
  BY <1>2 DEF DidFinishOnboarding, SetRoot
<1>3. CASE DidLogout
  BY <1>3 DEF DidLogout, SetRoot, MainVisible
<1>4. CASE Kill
  BY <1>4 DEF Kill
<1> QED
  BY <1>1, <1>2, <1>3, <1>4

LEMMA GoogleShown ==
  ASSUME SInv,
         \/ GoogleSignInButtonTapped \/ GoogleSheetEnds
         \/ \E c \in pending : GoogleAnswered(c)
  PROVE  Shown'
<1> USE DEF SInv, Shown, NavOnly, OnboardingOnce, account, window, auth
<1>1. CASE GoogleSignInButtonTapped
  BY <1>1 DEF GoogleSignInButtonTapped, Signed
<1>2. CASE GoogleSheetEnds
  <2>1. \A c \in pending' : c.op = "present" => currentUser'
    BY <1>2, StartSigned DEF GoogleSheetEnds, Signed
  <2> QED
    BY <1>2, <2>1 DEF GoogleSheetEnds, Signed
<1>3. ASSUME NEW c \in pending, GoogleAnswered(c)
      PROVE  Shown'
  <2>1. \A d \in pending' : d.op = "present" => currentUser'
    BY <1>3, DoneSigned DEF GoogleAnswered
  <2>2. CASE currentUser' = TRUE /\ DidLogin
    BY <1>3, <2>1, <2>2 DEF GoogleAnswered, DidLogin, SetRoot, Signed
  <2>3. CASE UNCHANGED <<currentUser, window, stack, alert, waiting>>
    BY <1>3, <2>1, <2>3 DEF GoogleAnswered, Signed
  <2> QED
    BY <1>3, <2>2, <2>3 DEF GoogleAnswered
<1> QED
  BY <1>1, <1>2, <1>3

\* A step of a screen under "nav" leaves root, user and main screens alone.
LEMMA ScreenShown ==
  ASSUME SInv,
         \/ PhoneButtonTapped \/ OpenCountryCodesList \/ Back \/ NextTapped
         \/ AlertDismissed \/ ResendTapped \/ ResendTimerEnds
         \/ \E code \in 0..sms : SubmitTapped(code)
  PROVE  Shown'
<1>1. UNCHANGED <<account, window>>
  BY DEF PhoneButtonTapped, OpenCountryCodesList, Back, NextTapped, AlertDismissed,
         ResendTapped, ResendTimerEnds, SubmitTapped
<1>2. \A c \in pending' : c.op = "present" => currentUser'
  <2>1. UNCHANGED currentUser
    BY <1>1 DEF account
  <2>2. \/ UNCHANGED pending
        \/ \E op \in Ops \ {"present"}, owner \in 0..MaxScreens, ok \in BOOLEAN :
             Start(op, owner, ok)
    <3>1. OnTop("verify") \/ OnTop("phone") => Top.id \in 0..MaxScreens
      BY TopIsScreen DEF OnTop, Screen, SInv
    <3>2. 0 \in 0..MaxScreens
      BY BoundsAssumption
    <3>3. CASE NextTapped
      BY <3>1, <3>3 DEF NextTapped, Ops
    <3>4. CASE ResendTapped
      BY <3>2, <3>4 DEF ResendTapped, Ops
    <3>5. ASSUME NEW code \in 0..sms, SubmitTapped(code)
          PROVE  \/ UNCHANGED pending
                 \/ \E op \in Ops \ {"present"}, owner \in 0..MaxScreens, ok \in BOOLEAN :
                      Start(op, owner, ok)
      <4>1. "verify" \in Ops \ {"present"} /\ (code = verificationId) \in BOOLEAN
        BY DEF Ops
      <4> QED
        BY <3>1, <3>5, <4>1, Zenon DEF SubmitTapped
    <3> QED
      BY <3>3, <3>4, <3>5 DEF PhoneButtonTapped, OpenCountryCodesList, Back,
         AlertDismissed, ResendTimerEnds
  <2> QED
    BY <2>1, <2>2, StartSigned DEF SInv, Signed
<1>3. stack' # <<>> => root' = "nav"
  BY <1>1 DEF PhoneButtonTapped, OpenCountryCodesList, Back, NextTapped,
     AlertDismissed, ResendTapped, ResendTimerEnds, SubmitTapped, OnTop, window,
     SInv, NavOnly
<1> QED
  BY <1>1, <1>2, <1>3 DEF SInv, Shown, Signed, NavOnly, OnboardingOnce, account, window

\* The answers to the phone sign-in arrive on whatever is shown by then.
LEMMA AnswerShown ==
  ASSUME SInv, NEW c \in pending,
         \/ StartAuthAnswered(c) \/ VerifyAnswered(c) \/ ResendAnswered(c)
         \/ PushVerification(c) \/ PresentMain(c) \/ SmsSent(c)
  PROVE  Shown'
<1> USE DEF SInv, Shown, NavOnly, OnboardingOnce, account, window, auth
<1>1. CASE StartAuthAnswered(c)
  <2>1. \A d \in pending' : d.op = "present" => currentUser'
    BY <1>1, DoneSigned DEF StartAuthAnswered, Then, Signed, TypeOK, Call
  <2> QED
    BY <1>1, <2>1 DEF StartAuthAnswered, Signed
<1>2. CASE VerifyAnswered(c)
  <2>1. \A d \in pending' : d.op = "present" => currentUser'
    BY <1>2, DoneSigned DEF VerifyAnswered
  <2> QED
    BY <1>2, <2>1 DEF VerifyAnswered, Signed
<1>3. CASE ResendAnswered(c)
  <2>1. \A d \in pending' : d.op = "present" => currentUser'
    BY <1>3, DoneSigned DEF ResendAnswered
  <2> QED
    BY <1>3, <2>1 DEF ResendAnswered, Signed
<1>4. CASE PushVerification(c)
  <2>1. \A d \in pending' : d.op = "present" => currentUser'
    BY <1>4, DoneSigned DEF PushVerification
  <2>2. stack' # <<>> => root = "nav"
    BY <1>4 DEF PushVerification, Ids
  <2> QED
    BY <1>4, <2>1, <2>2 DEF PushVerification, Signed
<1>5. CASE PresentMain(c)
  <2>1. \A d \in pending' : d.op = "present" => currentUser'
    BY <1>5, DoneSigned DEF PresentMain
  <2>2. CanPresent(c) => root = "nav"
    BY DEF CanPresent, Ids
  <2>3. currentUser
    BY <1>5 DEF PresentMain, Signed
  <2> QED
    BY <1>5, <2>1, <2>2, <2>3 DEF PresentMain, Signed
<1>6. CASE SmsSent(c)
  <2>1. \A d \in pending' : d.op = "present" => currentUser'
    BY <1>6 DEF SmsSent, Signed, TypeOK, Call
  <2> QED
    BY <1>6, <2>1 DEF SmsSent, Signed
<1> QED
  BY <1>1, <1>2, <1>3, <1>4, <1>5, <1>6

\* The invariant holds whatever screens the answers of sign-ins find.
THEOREM Invariance == Spec => []SInv
<1>1. Init => SInv
  BY InitType DEF Init, SInv, Signed, NavOnly, OnboardingOnce
<1>2. SInv /\ TypeOK' /\ [Next]_vars => SInv'
  <2> SUFFICES ASSUME SInv, TypeOK', [Next]_vars
               PROVE  SInv'
    OBVIOUS
  <2>1. CASE UNCHANGED vars
    BY <2>1 DEF vars, SInv, Signed, NavOnly, OnboardingOnce
  <2>2. CASE DidFinishLaunching \/ Kill \/ DidFinishOnboarding \/ DidLogout
    BY <2>2, AppDelegateShown DEF SInv, Shown
  <2>3. CASE GoogleSignInButtonTapped \/ GoogleSheetEnds
    BY <2>3, GoogleShown DEF SInv, Shown
  <2>4. CASE \/ PhoneButtonTapped \/ OpenCountryCodesList \/ Back \/ NextTapped
             \/ AlertDismissed \/ ResendTapped \/ ResendTimerEnds
             \/ \E code \in 0..sms : SubmitTapped(code)
    BY <2>4, ScreenShown DEF SInv, Shown
  <2>5. CASE \E c \in pending : Answered(c) \/ MainQueue(c)
    BY <2>5, GoogleShown, AnswerShown DEF Answered, MainQueue, SInv, Shown
  <2> QED
    BY <2>1, <2>2, <2>3, <2>4, <2>5, Zenon DEF Next, UserStep
<1> QED
  BY <1>1, <1>2, TypeCorrect, PTL DEF Spec

\* However many sign-ins are in flight, and whatever is on screen when they are
\* answered, no main screen and no onboarding is shown without a user.
THEOREM MainIsSignedIn == Spec => []MainNeedsUser
<1>1. SInv => MainNeedsUser
  BY DEF SInv, Signed, MainNeedsUser, MainVisible
<1> QED
  BY <1>1, Invariance, PTL

\* Once closed, onboarding is not shown again, by a late Google answer neither.
THEOREM OnboardingIsShownOnce == Spec => []OnboardingOnce
<1>1. SInv => OnboardingOnce
  BY DEF SInv
<1> QED
  BY <1>1, Invariance, PTL

\* A verification screen presents its MainViewController only while
\* AppDelegate's own has not been loaded.
THEOREM OneMainScreen == Spec => []PresentedBeforeRootMain
<1>1. SInv => PresentedBeforeRootMain
  BY DEF SInv, NavOnly, PresentedBeforeRootMain
<1> QED
  BY <1>1, Invariance, PTL

----------------------------------------------------------------------------
(* A sign-in that has succeeded: the block it queues is never lost, and    *)
(* never refused while its screen is the one in front.                     *)

\* A block queued by the verification screen id is to present the main screen.
Presenting(id) == \E c \in pending : c.op = "present" /\ c.owner = id

\* A queued block stays queued until it runs, unless the app is killed.
LEMMA QueueKeeps ==
  ASSUME TypeOK, Next, ~Kill, NEW c \in pending, c.op = "present", ~PresentMain(c)
  PROVE  c \in pending'
<1>1. ASSUME NEW d, d # c, Done(d) \/ (\E op : Then(d, op)) \/ SmsSent(d)
      PROVE  c \in pending'
  BY <1>1 DEF Done, Then, SmsSent
<1>2. ASSUME UNCHANGED pending \/ \E op, owner, ok : Start(op, owner, ok)
      PROVE  c \in pending'
  BY <1>2 DEF Start
<1>3. CASE DidFinishLaunching \/ DidFinishOnboarding \/ DidLogout
  BY <1>2, <1>3 DEF DidFinishLaunching, DidFinishOnboarding, DidLogout
<1>4. CASE \/ GoogleSignInButtonTapped \/ GoogleSheetEnds
           \/ PhoneButtonTapped \/ OpenCountryCodesList \/ Back \/ NextTapped
           \/ AlertDismissed \/ ResendTapped \/ ResendTimerEnds
  BY <1>2, <1>4 DEF GoogleSignInButtonTapped, GoogleSheetEnds, PhoneButtonTapped,
     OpenCountryCodesList, Back, NextTapped, AlertDismissed, ResendTapped,
     ResendTimerEnds
<1>5. ASSUME NEW code \in 0..sms, SubmitTapped(code)
      PROVE  c \in pending'
  BY <1>2, <1>5 DEF SubmitTapped
<1>6. ASSUME NEW d \in pending, Answered(d) \/ MainQueue(d)
      PROVE  c \in pending'
  <2>1. d # c
    BY <1>6 DEF Answered, MainQueue, GoogleAnswered, StartAuthAnswered, VerifyAnswered,
       ResendAnswered, PushVerification, SmsSent
  <2>2. Done(d) \/ (\E op : Then(d, op)) \/ SmsSent(d)
    BY <1>6 DEF Answered, MainQueue, GoogleAnswered, StartAuthAnswered, VerifyAnswered,
       ResendAnswered, PushVerification, PresentMain
  <2> QED
    BY <1>1, <2>1, <2>2
<1> QED
  BY <1>3, <1>4, <1>5, <1>6, Zenon DEF Next, UserStep

\* After a successful phone sign-in, with its screen in front, every step leaves
\* the block that will present the main screen queued, shows the main screen, or
\* takes the screen away: no sign-in ends on the verification screen.
THEOREM SignInIsNotLost ==
  Spec => [][\A id \in 1..MaxScreens :
               Presenting(id) /\ InFront(id) =>
                 Presenting(id)' \/ MainVisible' \/ ~InFront(id)']_vars
<1> DEFINE Lossless(id) == Presenting(id) /\ InFront(id) =>
                             Presenting(id)' \/ MainVisible' \/ ~InFront(id)'
<1>1. ASSUME TypeOK, Next, NEW id \in 1..MaxScreens
      PROVE  Lossless(id)
  <2> SUFFICES ASSUME Presenting(id), InFront(id)
               PROVE  Presenting(id)' \/ MainVisible' \/ ~InFront(id)'
    OBVIOUS
  <2>1. PICK c \in pending : c.op = "present" /\ c.owner = id
    BY DEF Presenting
  <2>2. CASE Kill
    BY <2>2 DEF Kill, InFront, OnTop
  <2>3. CASE PresentMain(c)
    <3>1. CanPresent(c)
      BY <1>1, <2>1, TopIsScreen DEF InFront, OnTop, Free, CanPresent, Ids, Top
    <3> QED
      BY <2>1, <2>3, <3>1 DEF PresentMain, MainVisible, InFront
  <2>4. CASE ~Kill /\ ~PresentMain(c)
    BY <1>1, <2>1, <2>4, QueueKeeps DEF Presenting
  <2> QED
    BY <2>2, <2>3, <2>4
<1>2. TypeOK /\ [Next]_vars => [\A id \in 1..MaxScreens : Lossless(id)]_vars
  BY <1>1
<1> QED
  BY <1>2, TypeCorrect, PTL DEF Spec

\* A signed-in user is left on the screens of the login only by a block that
\* finds its verification screen popped, covered or under an alert: no launch,
\* logout, kill or answer of another sign-in does it.
THEOREM SignInsAreShown == Spec => StrandedOnlyByCover
<1> DEFINE Covered == \E c \in pending \ pending' : c.op = "present" /\ ~InFront(c.owner)
           Strands == ~Stranded /\ Stranded'
<1>1. ASSUME TypeOK, Next
      PROVE  Strands => Covered
  <2>1. CASE DidFinishLaunching \/ Kill \/ DidFinishOnboarding \/ DidLogout
    BY <2>1 DEF DidFinishLaunching, Kill, DidFinishOnboarding, DidLogout, SetRoot,
       Stranded
  <2>2. ASSUME UNCHANGED <<account, window>>,
               \A c \in pending : c.op = "present" => c \in pending'
        PROVE  ~Strands
    BY <2>2 DEF Stranded, account, window
  <2>3. CASE \/ GoogleSignInButtonTapped \/ GoogleSheetEnds
             \/ PhoneButtonTapped \/ OpenCountryCodesList \/ Back \/ NextTapped
             \/ AlertDismissed \/ ResendTapped \/ ResendTimerEnds
             \/ \E code \in 0..sms : SubmitTapped(code)
    BY <2>2, <2>3 DEF GoogleSignInButtonTapped, GoogleSheetEnds, PhoneButtonTapped,
       OpenCountryCodesList, Back, NextTapped, AlertDismissed, ResendTapped,
       ResendTimerEnds, SubmitTapped, Start
  <2>4. ASSUME NEW c \in pending, Answered(c) \/ PushVerification(c)
        PROVE  ~Strands
    <3>1. CASE GoogleAnswered(c)
      <4>1. CASE currentUser' = TRUE /\ DidLogin
        BY <4>1 DEF DidLogin, SetRoot, Stranded
      <4>2. CASE UNCHANGED <<currentUser, window, stack, alert, waiting>>
        BY <2>2, <3>1, <4>2 DEF GoogleAnswered, Done, account
      <4> QED
        BY <3>1, <4>1, <4>2 DEF GoogleAnswered
    <3>2. CASE VerifyAnswered(c)
      <4>1. CASE Then(c, "present")
        <5>1. [c EXCEPT !.op = "present"] \in pending'
          BY <4>1 DEF Then
        <5>2. [c EXCEPT !.op = "present"].op = "present"
          BY <1>1 DEF TypeOK, Call
        <5> QED
          BY <5>1, <5>2 DEF Stranded
      <4>2. CASE Done(c) /\ UNCHANGED currentUser
        BY <2>2, <3>2, <4>2 DEF VerifyAnswered, Done, account
      <4> QED
        BY <3>2, <4>1, <4>2 DEF VerifyAnswered
    <3>3. CASE StartAuthAnswered(c)
      BY <2>2, <3>3 DEF StartAuthAnswered, Done, Then
    <3>4. CASE ResendAnswered(c)
      BY <2>2, <3>4 DEF ResendAnswered, Done
    <3>5. CASE PushVerification(c)
      BY <2>2, <3>5 DEF PushVerification, Done
    <3>6. CASE SmsSent(c)
      BY <2>2, <3>6 DEF SmsSent
    <3> QED
      BY <2>4, <3>1, <3>2, <3>3, <3>4, <3>5, <3>6 DEF Answered
  <2>5. ASSUME NEW c \in pending, PresentMain(c)
        PROVE  Strands => Covered
    <3>1. CASE InFront(c.owner)
      <4>1. CanPresent(c) /\ c.owner = Top.id
        BY <1>1, <3>1, TopIsScreen DEF InFront, OnTop, Free, CanPresent, Ids, Top
      <4> QED
        BY <2>5, <4>1 DEF PresentMain, Stranded
    <3>2. CASE ~InFront(c.owner)
      BY <2>5, <3>2 DEF PresentMain, Done
    <3> QED
      BY <3>1, <3>2
  <2> QED
    BY <1>1, <2>1, <2>3, <2>4, <2>5, Zenon DEF Next, UserStep, MainQueue
<1>2. TypeOK /\ [Next]_vars => [Strands => Covered]_vars
  BY <1>1
<1> QED
  BY <1>2, TypeCorrect, PTL DEF Spec, StrandedOnlyByCover

----------------------------------------------------------------------------
(* Which id AuthManager keeps. *)

\* The SMS asked for by "Next" and not yet answered is the last one sent, if it
\* has been sent at all; without one the id kept is that of the last SMS.
LastSms == /\ \A c \in pending : c.op = "startAuth" /\ c.sms # 0 => c.sms = sms
           /\ \/ verificationId = sms
              \/ \E c \in pending : c.op = "startAuth" /\ c.sms # 0

\* If nothing is resent and "Next" is not tapped again before its answer,
\* AuthManager ends up with the id of the last SMS, however many are sent.
THEOREM CodesAreAccepted == Spec => CodesInTurn
<1>1. Init => LastSms
  BY DEF Init, LastSms
<1>2. TypeOK /\ InTurn /\ LastSms /\ [Next]_vars => LastSms'
  <2> SUFFICES ASSUME TypeOK, InTurn, LastSms, [Next]_vars
               PROVE  LastSms'
    OBVIOUS
  <2>1. ASSUME UNCHANGED auth,
               \A c \in pending' : c.op = "startAuth" => c \in pending \/ c.sms = 0,
               \A c \in pending : c.op = "startAuth" => c \in pending'
        PROVE  LastSms'
    BY <2>1 DEF LastSms, auth
  <2>2. CASE UNCHANGED vars
    BY <2>1, <2>2 DEF vars, auth
  <2>3. CASE Kill
    BY <2>3 DEF Kill, LastSms
  <2>4. CASE DidFinishLaunching \/ DidFinishOnboarding \/ DidLogout
    BY <2>1, <2>4 DEF DidFinishLaunching, DidFinishOnboarding, DidLogout, auth
  <2>5. CASE UNCHANGED auth /\ UNCHANGED pending
    BY <2>1, <2>5
  <2>6. ASSUME NEW op, NEW owner, NEW ok, Start(op, owner, ok), UNCHANGED auth
        PROVE  LastSms'
    BY <2>1, <2>6 DEF Start
  <2>7. CASE \/ GoogleSignInButtonTapped \/ GoogleSheetEnds
             \/ PhoneButtonTapped \/ OpenCountryCodesList \/ Back \/ NextTapped
             \/ AlertDismissed \/ ResendTapped \/ ResendTimerEnds
             \/ \E code \in 0..sms : SubmitTapped(code)
    BY <2>5, <2>6, <2>7 DEF GoogleSignInButtonTapped, GoogleSheetEnds,
       PhoneButtonTapped, OpenCountryCodesList, Back, NextTapped, AlertDismissed,
       ResendTapped, ResendTimerEnds, SubmitTapped
  <2>8. ASSUME NEW c \in pending, Answered(c) \/ MainQueue(c)
        PROVE  LastSms'
    <3> c \in Call
      BY DEF TypeOK
    <3>1. CASE c.op # "startAuth" /\ ~SmsSent(c)
      <4>1. UNCHANGED auth
        BY <2>8, <3>1 DEF Answered, MainQueue, GoogleAnswered, StartAuthAnswered,
           VerifyAnswered, ResendAnswered, PushVerification, PresentMain, auth
      <4>2. \/ Done(c) \/ Then(c, "present")
        BY <2>8, <3>1 DEF Answered, MainQueue, GoogleAnswered, StartAuthAnswered,
           VerifyAnswered, ResendAnswered, PushVerification, PresentMain
      <4>3. [c EXCEPT !.op = "present"].op = "present"
        BY DEF Call
      <4> QED
        BY <2>1, <3>1, <4>1, <4>2, <4>3 DEF Done, Then
    <3>2. CASE StartAuthAnswered(c)
      <4>1. \A d \in pending' : d.op # "startAuth"
        BY <3>2 DEF StartAuthAnswered, InTurn, Done, Then, Call
      <4>2. verificationId' = sms'
        BY <3>2 DEF StartAuthAnswered, LastSms, InTurn, auth
      <4> QED
        BY <4>1, <4>2 DEF LastSms
    <3>3. CASE SmsSent(c)
      <4> DEFINE new == [c EXCEPT !.sms = sms + 1]
      <4>1. c.op = "startAuth"
        BY <3>3 DEF SmsSent, InTurn
      <4>2. new.op = "startAuth" /\ new.sms = sms' /\ new.sms # 0 /\ new \in pending'
        BY <3>3, <4>1 DEF SmsSent, Call, TypeOK
      <4>3. \A d \in pending' : d.op = "startAuth" => d = new
        BY <3>3, <4>1 DEF SmsSent, InTurn
      <4> QED
        BY <4>2, <4>3 DEF LastSms
    <3> QED
      BY <2>8, <3>1, <3>2, <3>3 DEF Answered, MainQueue, GoogleAnswered,
         VerifyAnswered, ResendAnswered, PushVerification, PresentMain
  <2> QED
    BY <2>2, <2>3, <2>4, <2>7, <2>8, Zenon DEF Next, UserStep
<1>3. LastSms => LastCodeIsAccepted
  BY DEF LastSms, LastCodeIsAccepted
<1> QED
  BY <1>1, <1>2, <1>3, TypeCorrect, PTL DEF Spec, CodesInTurn

=============================================================================
