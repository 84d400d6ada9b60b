----------------------------- MODULE LoginFlow -----------------------------
(***************************************************************************)
(* From launch to the main screen and back: AppDelegate's choice of root   *)
(* view controller, Google sign-in, phone sign-in with its navigation      *)
(* stack (PhoneNumberController, CountryCodeViewController and             *)
(* VerificationController), AuthManager, onboarding and logout.            *)
(*                                                                         *)
(*   currentUser   Auth.auth().currentUser # nil; Firebase keeps it on the *)
(*                 device                                                  *)
(*   hasOnboarded  LocalState.hasOnboarded, in UserDefaults                *)
(*   root          window.rootViewController: "nav" is the navigation      *)
(*                 controller made at launch, "login" loginViewController  *)
(*                 on its own, "none" no process                           *)
(*   stack         what "nav" has pushed on top of loginViewController     *)
(*   modal         a MainViewController is presented over "nav"            *)
(*   alert         a "No internet connection" alert is presented           *)
(*   sheet         the Google sign-in sheet is up                          *)
(*   mainLoaded    AppDelegate's mainViewController has loaded its view    *)
(*   verificationId  AuthManager's, as the number of the SMS, 0 for nil    *)
(*   sms           how many SMS the phone has been sent, which numbers them *)
(*                 in the order they were sent                             *)
(*   waiting       the verification screens whose resend button waits for  *)
(*                 its timer                                               *)
(*   pending       calls Firebase has not answered and blocks queued on    *)
(*                 the main queue                                          *)
(*   calls, screens  how many calls and screens have been made             *)
(*                                                                         *)
(* External: Firebase sends an SMS some time after it is asked to, and the *)
(* answers come later still, each at most once and in any order; every SMS *)
(* has a verification id of its own whose code only it accepts, and a call *)
(* fails only when no SMS was sent.  UIKit drops "nav" and what it shows   *)
(* when another root is set, and refuses to present over something already *)
(* presented.                                                              *)
(***************************************************************************)
EXTENDS Integers, Sequences, FiniteSets

CONSTANTS MaxCalls, MaxScreens   \* bounds on calls and screens

ASSUME BoundsAssumption == MaxCalls \in Nat /\ MaxScreens \in Nat

VARIABLES currentUser, hasOnboarded, root, stack, modal, alert, sheet,
          mainLoaded, verificationId, sms, waiting, pending, calls, screens

vars == <<currentUser, hasOnboarded, root, stack, modal, alert, sheet,
          mainLoaded, verificationId, sms, waiting, pending, calls, screens>>

\* Groups of variables, for UNCHANGED.
account == <<currentUser, hasOnboarded>>
window  == <<root, modal, mainLoaded>>
auth    == <<verificationId, sms>>

Kinds == {"phone", "picker", "verify"}
Ops   == {"startAuth", "resend", "verify", "google", "push", "present"}

\* owner is the screen a closure holds weakly (0: none); ok is whether the
\* credential of a "verify" call is one Firebase accepts; sms is the SMS sent
\* for the call (0: none yet).
Call == [op : Ops, owner : 0..MaxScreens, ok : BOOLEAN, n : 1..MaxCalls, sms : Nat]

Init == /\ currentUser = FALSE /\ hasOnboarded = FALSE
        /\ root = "none" /\ stack = <<>>
        /\ modal = FALSE /\ alert = FALSE /\ sheet = FALSE /\ mainLoaded = FALSE
        /\ verificationId = 0 /\ sms = 0 /\ waiting = {}
        /\ pending = {} /\ calls = 0 /\ screens = 0

----------------------------------------------------------------------------
(* What is on screen, and so can be tapped. *)

MainVisible == root = "main" \/ modal

Free == ~modal /\ ~alert /\ ~sheet

LoginVisible == /\ Free
                /\ root = "login" \/ (root = "nav" /\ stack = <<>>)

Ids == {stack[i].id : i \in DOMAIN stack}

Top == stack[Len(stack)]

OnTop(kind) == Free /\ root = "nav" /\ stack # <<>> /\ Top.kind = kind

----------------------------------------------------------------------------
(* Calls and screens *)

Start(op, owner, ok) ==
  /\ calls < MaxCalls
  /\ calls' = calls + 1
  /\ pending' = pending \cup {[op |-> op, owner |-> owner, ok |-> ok,
                              n |-> calls + 1, sms |-> 0]}

\* The answer to c queues a block on the main queue.
Then(c, op) == pending' = (pending \ {c}) \cup {[c EXCEPT !.op = op]}

Done(c) == pending' = pending \ {c}

Push(kind) == /\ screens < MaxScreens
              /\ screens' = screens + 1
              /\ stack' = Append(stack, [kind |-> kind, id |-> screens + 1])

----------------------------------------------------------------------------
(* AppDelegate *)

\* setRootViewController: what the old root showed goes with it.
SetRoot(r) == /\ root' = r
              /\ stack' = <<>> /\ modal' = FALSE /\ alert' = FALSE /\ waiting' = {}
              /\ mainLoaded' = (mainLoaded \/ r = "main")

\* Mutant: the line "window?.rootViewController = navigationController", now
\* commented out, is back for a signed-in user.
DidFinishLaunchingToNav ==
  /\ root = "none"
  /\ SetRoot("nav")
  /\ UNCHANGED <<currentUser, hasOnboarded, sheet, verificationId, sms, pending,
                 calls, screens>>

\* application(_:didFinishLaunchingWithOptions:)
DidFinishLaunching ==
  /\ root = "none"
  /\ SetRoot(IF currentUser THEN "main" ELSE "nav")
  /\ UNCHANGED <<currentUser, hasOnboarded, sheet, verificationId, sms, pending,
                 calls, screens>>

\* Mutant: hasOnboarded is not asked.
DidLoginOnboards == SetRoot("onboarding")

DidLogin == SetRoot(IF hasOnboarded THEN "main" ELSE "onboarding")

\* OnboardingContainerViewController.closeTapped
DidFinishOnboarding ==
  /\ root = "onboarding" /\ Free
  /\ hasOnboarded' = TRUE
  /\ SetRoot("main")
  /\ UNCHANGED <<currentUser, sheet, verificationId, sms, pending, calls, screens>>

\* Mutant: the navigation controller becomes the root again.
DidLogoutToNav ==
  /\ MainVisible /\ ~alert /\ ~sheet
  /\ SetRoot("nav")
  /\ UNCHANGED <<currentUser, hasOnboarded, sheet, verificationId, sms, pending,
                 calls, screens>>

\* RecipeViewController.logoutTapped
DidLogout ==
  /\ MainVisible /\ ~alert /\ ~sheet
  /\ SetRoot("login")
  /\ UNCHANGED <<currentUser, hasOnboarded, sheet, verificationId, sms, pending,
                 calls, screens>>

\* The system ends the process: only what Firebase and UserDefaults keep stays.
Kill ==
  /\ root # "none"
  /\ root' = "none" /\ stack' = <<>>
  /\ modal' = FALSE /\ alert' = FALSE /\ sheet' = FALSE /\ mainLoaded' = FALSE
  /\ verificationId' = 0 /\ sms' = 0 /\ waiting' = {}
  /\ pending' = {} /\ calls' = 0 /\ screens' = 0
  /\ UNCHANGED account

----------------------------------------------------------------------------
(* LoginViewController: Google *)

GoogleSignInButtonTapped ==
  /\ LoginVisible
  /\ sheet' = TRUE
  /\ UNCHANGED <<account, window, stack, alert, auth, waiting, pending, calls,
                 screens>>

\* The sheet ends with a Google user, handed to Firebase, or with an error.
GoogleSheetEnds ==
  /\ sheet
  /\ sheet' = FALSE
  /\ \/ Start("google", 0, TRUE)
     \/ UNCHANGED <<pending, calls>>
  /\ UNCHANGED <<account, window, stack, alert, auth, waiting, screens>>

GoogleAnswered(c) ==
  /\ c.op = "google"
  /\ Done(c)
  /\ \/ /\ currentUser' = TRUE
        /\ DidLogin
     \/ UNCHANGED <<currentUser, window, stack, alert, waiting>>
  /\ UNCHANGED <<hasOnboarded, sheet, auth, calls, screens>>

----------------------------------------------------------------------------
(* PhoneNumberController *)

\* phoneButtonTapped: navigationController? is nil once "nav" is gone.
PhoneButtonTapped ==
  /\ LoginVisible /\ root = "nav"
  /\ Push("phone")
  /\ UNCHANGED <<account, window, alert, sheet, auth, waiting, pending, calls>>

OpenCountryCodesList ==
  /\ OnTop("phone")
  /\ Push("picker")
  /\ UNCHANGED <<account, window, alert, sheet, auth, waiting, pending, calls>>

\* The Back button, or a country chosen in the picker, which pops it.
Back ==
  /\ Free /\ root = "nav" /\ stack # <<>>
  /\ stack' = SubSeq(stack, 1, Len(stack) - 1)
  /\ waiting' = waiting \ {Top.id}
  /\ UNCHANGED <<account, window, alert, sheet, auth, pending, calls, screens>>

\* rightBarButtonDidTap ("Next"): sends an SMS when there is a connection, and
\* pushes a VerificationController in either case.
NextTapped ==
  /\ OnTop("phone")
  /\ \/ Start("startAuth", Top.id, TRUE) /\ UNCHANGED alert
     \/ alert' = TRUE /\ UNCHANGED <<pending, calls>>
  /\ Push("verify")
  /\ UNCHANGED <<account, window, sheet, auth, waiting>>

AlertDismissed ==
  /\ alert
  /\ alert' = FALSE
  /\ UNCHANGED <<account, window, stack, sheet, auth, waiting, pending, calls,
                 screens>>

\* Firebase sends the SMS of a call, some time before it answers the call.
SmsSent(c) ==
  /\ c.op \in {"startAuth", "resend"} /\ c.sms = 0
  /\ sms' = sms + 1
  /\ pending' = (pending \ {c}) \cup {[c EXCEPT !.sms = sms + 1]}
  /\ UNCHANGED <<account, window, stack, alert, sheet, verificationId, waiting,
                 calls, screens>>

\* Mutant: an id that is there already is kept.
StartAuthAnsweredFirst(c) ==
  /\ c.op = "startAuth"
  /\ \/ /\ c.sms # 0
        /\ verificationId' = (IF verificationId = 0 THEN c.sms ELSE verificationId)
        /\ Then(c, "push")
     \/ c.sms = 0 /\ Done(c) /\ UNCHANGED verificationId
  /\ UNCHANGED <<account, window, stack, alert, sheet, sms, waiting, calls, screens>>

\* AuthManager.startAuth's completion keeps the id of the SMS sent for this
\* call, whatever has been sent since, then queues a push.
StartAuthAnswered(c) ==
  /\ c.op = "startAuth"
  /\ \/ c.sms # 0 /\ verificationId' = c.sms /\ Then(c, "push")
     \/ c.sms = 0 /\ Done(c) /\ UNCHANGED verificationId
  /\ UNCHANGED <<account, window, stack, alert, sheet, sms, waiting, calls, screens>>

\* The queued block pushes a VerificationController if its screen is alive.
PushVerification(c) ==
  /\ c.op = "push"
  /\ Done(c)
  /\ IF c.owner \in Ids THEN Push("verify") ELSE UNCHANGED <<stack, screens>>
  /\ UNCHANGED <<account, window, alert, sheet, auth, waiting, calls>>

----------------------------------------------------------------------------
(* VerificationController *)

\* authenticate(): verifyCode with the code typed, that of an SMS or a wrong
\* one (0); nothing happens while AuthManager has no id.
SubmitTapped(code) ==
  /\ OnTop("verify")
  /\ \/ /\ verificationId # 0
        /\ Start("verify", Top.id, code = verificationId)
        /\ UNCHANGED alert
     \/ alert' = TRUE /\ UNCHANGED <<pending, calls>>
  /\ UNCHANGED <<account, window, stack, sheet, auth, waiting, screens>>

\* Mutant: "guard success" is missing.
VerifyAnsweredUnchecked(c) ==
  /\ c.op = "verify"
  /\ currentUser' \in {currentUser, c.ok}
  /\ Then(c, "present")
  /\ UNCHANGED <<hasOnboarded, window, stack, alert, sheet, auth, waiting, calls,
                 screens>>

VerifyAnswered(c) ==
  /\ c.op = "verify"
  /\ \/ c.ok /\ currentUser' = TRUE /\ Then(c, "present")
     \/ Done(c) /\ UNCHANGED currentUser
  /\ UNCHANGED <<hasOnboarded, window, stack, alert, sheet, auth, waiting, calls,
                 screens>>

CanPresent(c) == c.owner \in Ids /\ ~modal /\ ~alert

\* The queued block presents a MainViewController if its screen is alive and
\* nothing is presented; below another screen UIKit may refuse as well.
PresentMain(c) ==
  /\ c.op = "present"
  /\ Done(c)
  /\ \/ CanPresent(c) /\ modal' = TRUE
     \/ (CanPresent(c) => c.owner # Top.id) /\ UNCHANGED modal
  /\ UNCHANGED <<account, root, mainLoaded, stack, alert, sheet, auth, waiting,
                 calls, screens>>

\* sendSMSConfirmation ("resend"): starts the timer; the new id is dropped.
ResendTapped ==
  /\ OnTop("verify") /\ Top.id \notin waiting
  /\ \/ /\ Start("resend", 0, TRUE)
        /\ waiting' = waiting \cup {Top.id}
        /\ UNCHANGED alert
     \/ alert' = TRUE /\ UNCHANGED <<waiting, pending, calls>>
  /\ UNCHANGED <<account, window, stack, sheet, auth, screens>>

ResendAnswered(c) ==
  /\ c.op = "resend"
  /\ Done(c)
  /\ UNCHANGED <<account, window, stack, alert, sheet, auth, waiting, calls, screens>>

\* updateTimer counts down to zero and enables the button again.
ResendTimerEnds ==
  /\ \E id \in waiting : waiting' = waiting \ {id}
  /\ UNCHANGED <<account, window, stack, alert, sheet, auth, pending, calls, screens>>

----------------------------------------------------------------------------

Answered(c) == \/ SmsSent(c) \/ GoogleAnswered(c) \/ StartAuthAnswered(c)
               \/ VerifyAnswered(c) \/ ResendAnswered(c)

MainQueue(c) == PushVerification(c) \/ PresentMain(c)

UserStep == \/ GoogleSignInButtonTapped \/ GoogleSheetEnds
            \/ PhoneButtonTapped \/ OpenCountryCodesList \/ Back \/ NextTapped
            \/ AlertDismissed \/ ResendTapped
            \/ \E code \in 0..sms : SubmitTapped(code)
            \/ DidFinishOnboarding \/ DidLogout

Next == \/ DidFinishLaunching \/ Kill \/ UserStep \/ ResendTimerEnds
        \/ \E c \in pending : Answered(c) \/ MainQueue(c)

Spec == Init /\ [][Next]_vars

----------------------------------------------------------------------------
(* Properties *)

Roots == {"none", "nav", "login", "onboarding", "main"}

Screen == [kind : Kinds, id : 1..MaxScreens]

\* Every variable has its type, and AuthManager's id is that of an SMS sent in
\* this run.
TypeOK ==
  /\ currentUser \in BOOLEAN /\ hasOnboarded \in BOOLEAN
  /\ root \in Roots
  /\ stack \in Seq(Screen)
  /\ modal \in BOOLEAN /\ alert \in BOOLEAN /\ sheet \in BOOLEAN
  /\ mainLoaded \in BOOLEAN
  /\ sms \in Nat /\ verificationId \in 0..sms
  /\ waiting \in SUBSET (1..MaxScreens)
  /\ pending \in SUBSET Call /\ \A c \in pending : c.sms <= sms
  /\ calls \in 0..MaxCalls /\ screens \in 0..MaxScreens

\* The main screen is never shown without a signed-in user, whichever of the
\* sign-ins in flight is answered first and whatever screen it finds.
MainNeedsUser == MainVisible \/ root = "onboarding" => currentUser

\* Onboarding is never shown to a user who has finished it, even when a second
\* Google answer arrives during or after it.
OnboardingOnce == root = "onboarding" => ~hasOnboarded

\* A MainViewController is only ever presented before AppDelegate's own one is
\* loaded: the screen loaded last is the one shown, so no screen is ever shown
\* with sections another one has changed since.
PresentedBeforeRootMain == modal => (root = "nav" /\ ~mainLoaded)

\* The verification screen id is in front, with nothing over it.
InFront(id) == OnTop("verify") /\ Top.id = id

\* Signed in, but on the screens of the login, with no main screen to come.
Stranded == /\ currentUser /\ root = "nav" /\ ~modal
            /\ \A c \in pending : c.op # "present"

\* There is one way only for a signed-in user to be left on the screens of the
\* login: the block that presents the main screen runs when its verification
\* screen has been popped, is covered by a later one or shows an alert
\* (VerificationCodeViewController.swift:137-141).  No order of answers, logouts,
\* kills and launches does it otherwise.
StrandedOnlyByCover ==
  [][~Stranded /\ Stranded' =>
       \E c \in pending \ pending' : c.op = "present" /\ ~InFront(c.owner)]_vars

\* "For resending the SMS code": once every request is answered, the code of
\* the last SMS is the one that is accepted.
LastCodeIsAccepted ==
  (\A c \in pending : c.op \notin {"startAuth", "resend"}) => verificationId = sms

\* Nothing is being resent, and at most one SMS has been asked for by "Next"
\* and not been answered.
InTurn == /\ \A c \in pending : c.op # "resend"
          /\ \A c, d \in pending : c.op = "startAuth" /\ d.op = "startAuth" => c = d

\* If the user never resends and never taps "Next" again before the last tap is
\* answered, the code of the last SMS is accepted, through any number of SMS,
\* failures, screens and kills: of the ids AuthManager is given
\* (AuthManager.swift:24) it keeps the right one.
CodesInTurn == []InTurn => []LastCodeIsAccepted

=============================================================================
