----------------------------- MODULE PhoneAuth ------------------------------
(***************************************************************************)
(* verifyPhoneNumber of Firebase Auth, the call AuthManager.startAuth      *)
(* makes: prove that the app is genuine, then ask the server for an SMS.   *)
(* Every block below runs on FIRAuthGlobalWorkQueue, a serial queue, or on *)
(* the main queue; the app delegate's entry points run on the work queue   *)
(* through dispatch_sync.  A block is one action.  The two queues are sets *)
(* of blocks: any order, which includes the order the queues keep.         *)
(*                                                                         *)
(* A call tries once, and once more when the server rejects the app        *)
(* credential: an attempt is a call and 1 or 2.  A completion block stands *)
(* for its attempt, and held[p] is the set of those that place p retains:  *)
(*   "start"    the block verifyPhoneNumber dispatches to the work queue   *)
(*   "probe"    FIRAuthNotificationManager _pendingCallbacks               *)
(*   "token"    FIRAuthAPNSTokenManager _pendingCallbacks                  *)
(*   "client", "domain", "send"   the handlers of the verifyClient,        *)
(*              getProjectConfig and sendVerificationCode requests         *)
(*   "push"     FIRAuthAppCredentialManager _callbacksByReceipt, the       *)
(*              receipt of an attempt being named by the attempt           *)
(*   "page"     FIRAuthURLPresenter _completion                            *)
(*   "dismiss"  the presenter's finishBlock, behind the dismissal          *)
(*   "refused"  the main queue block with webContextAlreadyPresented       *)
(*   "answer"   the main queue block that runs the caller's completion     *)
(*                                                                         *)
(* The other variables                                                     *)
(*   checked, forwarded   _hasCheckedNotificationForwarding and            *)
(*              _isNotificationBeingForwarded                              *)
(*   prober, probeTimer   the fake notification and the 1 s timer are      *)
(*              queued                                                     *)
(*   token      FIRAuthAPNSTokenManager _token # nil                       *)
(*   batch      how many _pendingCallbacks arrays it has made; batch names *)
(*              the current one                                            *)
(*   tokenTimers    the arrays whose 5 s timer is still to fire            *)
(*   credential, pendingReceipts   FIRAuthAppCredentialManager's           *)
(*   receiptTimers  the receipts whose timer is still to fire              *)
(*   keychain   what saveData last wrote                                   *)
(*   synced     the last read or write of the keychain succeeded           *)
(*   presenting _isPresenting                                              *)
(*   safari     _safariViewController, as the attempt it was made for      *)
(*   doneBlocks the safariViewControllerDidFinish blocks queued            *)
(*   url        the URL the page came back with, held by finishBlock       *)
(*   started, answered, abandoned   the calls made, those whose completion *)
(*              ran, and those the process was killed with                 *)
(*   kills      how often it was                                           *)
(*   faults     kills, keychain errors, pushes without a secret and        *)
(*              credentials the server rejected                            *)
(*                                                                         *)
(* External: the server, APNs, the keychain, UIKit and the user.  The      *)
(* server gives every attempt its own receipt; a push may come late, twice *)
(* or never; the app lets Firebase proxy its delegate (the default).       *)
(***************************************************************************)
EXTENDS Integers, Sequences, FiniteSets

CONSTANTS Calls,       \* calls of verifyPhoneNumber
          MaxPending,  \* kMaximumNumberOfPendingReceipts
          PageUrls,    \* what the reCAPTCHA page may come back with
          MaxFaults,   \* bound on faults
          None

ASSUME CallsAssumption == IsFiniteSet(Calls)
ASSUME MaxPendingAssumption == MaxPending \in Nat \ {0}
ASSUME PageUrlsAssumption == PageUrls \subseteq {"token", "error", "bare"}
ASSUME MaxFaultsAssumption == MaxFaults \in Nat

Attempts == Calls \X {1, 2}
Places   == {"start", "probe", "token", "client", "push", "domain", "page",
             "dismiss", "refused", "send", "answer"}

\* FIRAuthAppCredential
Credential == [receipt : Attempts, secret : BOOLEAN]

ASSUME NoneAssumption == None \notin Attempts \cup Credential \cup PageUrls

VARIABLES held, checked, forwarded, prober, probeTimer, token, batch,
          tokenTimers, credential, pendingReceipts, receiptTimers, keychain,
          synced, presenting, safari, doneBlocks, url,
          started, answered, abandoned, kills, faults

probeVars == <<checked, forwarded, prober, probeTimer>>
tokenVars == <<token, batch, tokenTimers>>
store     == <<keychain, synced>>
credVars  == <<credential, pendingReceipts, receiptTimers>>
pageVars  == <<presenting, safari, doneBlocks, url>>
calls     == <<started, answered, abandoned, kills>>
vars      == <<held, probeVars, tokenVars, credVars, store, pageVars, calls, faults>>

Init ==
  /\ held = [p \in Places |-> {}]
  /\ checked = FALSE /\ forwarded = FALSE /\ prober = FALSE /\ probeTimer = FALSE
  /\ token = FALSE /\ batch = 0 /\ tokenTimers = {}
  /\ credential = None /\ pendingReceipts = <<>> /\ receiptTimers = {}
  /\ keychain = [credential |-> None, pending |-> <<>>] /\ synced = TRUE
  /\ presenting = FALSE /\ safari = None /\ doneBlocks = {} /\ url = None
  /\ started = {} /\ answered = {} /\ abandoned = {} /\ kills = 0 /\ faults = 0

-----------------------------------------------------------------------------
(* Passing completion blocks on                                            *)

Move(from, to, as) ==
  held' = [held EXCEPT ![from] = @ \ as, ![to] = @ \cup as]

\* Where verifyClientWithUIDelegate:completion: takes a block when the app
\* credential is cred: to the SMS request, to the verifyClient request, or to
\* getTokenWithCallback:'s list.
ClientPlace(cred) ==
  CASE cred # None -> "send"
    [] cred = None /\ token -> "client"
    [] OTHER -> "token"

\* getTokenWithCallback:, which starts a timer with each new list.
NewBatch(place) ==
  /\ IF place = "token" /\ held["token"] = {}
       THEN batch' = batch + 1 /\ tokenTimers' = tokenTimers \cup {batch + 1}
       ELSE UNCHANGED <<batch, tokenTimers>>
  /\ UNCHANGED token

VerifyClient(from, as) ==
  /\ Move(from, ClientPlace(credential), as)
  /\ NewBatch(ClientPlace(credential))

\* FIRAuthAppCredentialManager saveData, which ignores errors, in a step with n
\* other faults.
SaveData(cred, pending, n) ==
  /\ \/ /\ keychain' = [credential |-> cred, pending |-> pending]
        /\ synced' = TRUE
        /\ faults' = faults + n
     \/ /\ keychain' = keychain
        /\ synced' = FALSE
        /\ faults' = faults + n + 1
  /\ faults' <= MaxFaults

\* removeObject:, of a list that holds nothing twice
Without(s, r) ==
  IF \E i \in DOMAIN s : s[i] = r
    THEN LET i == CHOOSE i \in DOMAIN s : s[i] = r
         IN [j \in 1..(Len(s) - 1) |-> IF j < i THEN s[j] ELSE s[j + 1]]
    ELSE s

-----------------------------------------------------------------------------
(* FIRPhoneAuthProvider and FIRAuthNotificationManager                     *)

\* verifyPhoneNumber:UIDelegate:completion:
VerifyPhoneNumber(c) ==
  /\ c \notin started
  /\ started' = started \cup {c}
  /\ held' = [held EXCEPT !["start"] = @ \cup {<<c, 1>>}]
  /\ UNCHANGED <<probeVars, tokenVars, credVars, store, pageVars,
                 answered, abandoned, kills, faults>>

\* internalVerifyPhoneNumber: of an empty number
MissingPhoneNumber(a) ==
  /\ a \in held["start"]
  /\ Move("start", "answer", {a})
  /\ UNCHANGED <<probeVars, tokenVars, credVars, store, pageVars, calls, faults>>

\* internalVerifyPhoneNumber: and checkNotificationForwardingWithCallback:
CheckForwarding(a) ==
  /\ a \in held["start"]
  /\ \/ /\ held["probe"] # {}
        /\ Move("start", "probe", {a})
        /\ UNCHANGED <<probeVars, tokenVars>>
     \/ /\ held["probe"] = {} /\ checked /\ forwarded
        /\ VerifyClient("start", {a})
        /\ UNCHANGED probeVars
     \/ /\ held["probe"] = {} /\ checked /\ ~forwarded
        /\ Move("start", "answer", {a})
        /\ UNCHANGED <<probeVars, tokenVars>>
     \/ /\ held["probe"] = {} /\ ~checked
        /\ checked' = TRUE
        /\ Move("start", "probe", {a})
        /\ prober' = TRUE /\ probeTimer' = TRUE
        /\ UNCHANGED <<forwarded, tokenVars>>
  /\ UNCHANGED <<credVars, store, pageVars, calls, faults>>

\* callBack: every pending block learns the verdict.
CallBack(verdict) ==
  IF held["probe"] = {}
    THEN UNCHANGED <<held, tokenVars>>
    ELSE \/ verdict /\ VerifyClient("probe", held["probe"])
         \/ /\ ~verdict
            /\ Move("probe", "answer", held["probe"])
            /\ UNCHANGED tokenVars

\* Mutant: the test of _pendingCallbacks is missing.
ProberArrivesLate ==
  /\ prober
  /\ prober' = FALSE
  /\ forwarded' = TRUE
  /\ CallBack(TRUE)
  /\ UNCHANGED <<checked, probeTimer, credVars, store, pageVars, calls, faults>>

\* canHandleNotification: of the fake notification, proxied by Firebase
ProberArrives ==
  /\ prober
  /\ prober' = FALSE
  /\ forwarded' = (forwarded \/ held["probe"] # {})
  /\ CallBack(forwarded')
  /\ UNCHANGED <<checked, probeTimer, credVars, store, pageVars, calls, faults>>

ProbeTimeout ==
  /\ probeTimer
  /\ probeTimer' = FALSE
  /\ CallBack(forwarded)
  /\ UNCHANGED <<checked, forwarded, prober, credVars, store, pageVars, calls, faults>>

-----------------------------------------------------------------------------
(* FIRAuthAPNSTokenManager                                                 *)

\* Mutant: _pendingCallbacks is not reset to nil.
CallBackWithTokenKept(ok) ==
  LET place == IF ok THEN "client" ELSE "domain"
  IN held' = [held EXCEPT ![place] = @ \cup held["token"]]

\* callBackWithToken:error:, with a token or without
CallBackWithToken(ok) ==
  Move("token", IF ok THEN "client" ELSE "domain", held["token"])

\* The system answers registerForRemoteNotifications: setToken:
DidRegister ==
  /\ batch > 0 /\ ~token
  /\ token' = TRUE
  /\ CallBackWithToken(TRUE)
  /\ UNCHANGED <<probeVars, batch, tokenTimers, credVars, store, pageVars, calls, faults>>

\* or cancelWithError:
DidFailToRegister ==
  /\ batch > 0 /\ held["token"] # {}
  /\ CallBackWithToken(FALSE)
  /\ UNCHANGED <<probeVars, tokenVars, credVars, store, pageVars, calls, faults>>

\* The 5 s timer of an array, which only counts for the array it was set for.
TokenTimeout(b) ==
  /\ b \in tokenTimers
  /\ tokenTimers' = tokenTimers \ {b}
  /\ IF b = batch THEN CallBackWithToken(FALSE) ELSE UNCHANGED held
  /\ UNCHANGED <<probeVars, token, batch, credVars, store, pageVars, calls, faults>>

-----------------------------------------------------------------------------
(* The verifyClient request and FIRAuthAppCredentialManager                *)

ClientRejected(a) ==
  /\ a \in held["client"]
  /\ \/ Move("client", "answer", {a})
     \/ Move("client", "domain", {a})   \* MissingAppToken, InvalidAppCredential
  /\ UNCHANGED <<probeVars, tokenVars, credVars, store, pageVars, calls, faults>>

\* didStartVerificationWithReceipt:timeout:callback:
DidStartVerification(a) ==
  /\ a \in held["client"]
  /\ LET kept == Without(pendingReceipts, a)
         room == IF Len(kept) >= MaxPending THEN Tail(kept) ELSE kept
     IN pendingReceipts' = Append(room, a)
  /\ Move("client", "push", {a})
  /\ SaveData(credential, pendingReceipts', 0)
  /\ receiptTimers' = receiptTimers \cup {a}
  /\ UNCHANGED <<probeVars, tokenVars, credential, pageVars, calls>>

\* Mutant: the callback is not removed from _callbacksByReceipt.
CallBackWithReceiptKept(r, cred) ==
  LET place == IF cred # None /\ cred.secret THEN "send" ELSE "domain"
  IN IF r \in held["push"]
       THEN held' = [held EXCEPT ![place] = @ \cup {r}]
       ELSE UNCHANGED held

\* callBackWithReceipt: when the credential is cred; without a secret the
\* attempt falls back to reCAPTCHA.
CallBackWithReceipt(r, cred) ==
  IF r \in held["push"]
    THEN Move("push", IF cred # None /\ cred.secret THEN "send" ELSE "domain", {r})
    ELSE UNCHANGED held

\* canHandleNotification: of a push, with or without the secret it should
\* carry, and canFinishVerificationWithReceipt:secret:
ReceivePush(r, secret) ==
  /\ \E i \in DOMAIN pendingReceipts : pendingReceipts[i] = r
  /\ pendingReceipts' = Without(pendingReceipts, r)
  /\ credential' = [receipt |-> r, secret |-> secret]
  /\ SaveData(credential', pendingReceipts', IF secret THEN 0 ELSE 1)
  /\ CallBackWithReceipt(r, credential')
  /\ UNCHANGED <<probeVars, tokenVars, receiptTimers, pageVars, calls>>

\* Mutant: the timer does not call back without a credential.
ReceiptTimeoutSilent(r) ==
  /\ r \in receiptTimers /\ credential # None
  /\ receiptTimers' = receiptTimers \ {r}
  /\ CallBackWithReceipt(r, credential)
  /\ UNCHANGED <<probeVars, tokenVars, credential, pendingReceipts, store,
                 pageVars, calls, faults>>

ReceiptTimeout(r) ==
  /\ r \in receiptTimers
  /\ receiptTimers' = receiptTimers \ {r}
  /\ CallBackWithReceipt(r, credential)
  /\ UNCHANGED <<probeVars, tokenVars, credential, pendingReceipts, store,
                 pageVars, calls, faults>>

-----------------------------------------------------------------------------
(* The reCAPTCHA page: reCAPTCHAFlowWithUIDelegate: and FIRAuthURLPresenter *)

DomainFails(a) ==
  /\ a \in held["domain"]
  /\ Move("domain", "answer", {a})
  /\ UNCHANGED <<probeVars, tokenVars, credVars, store, pageVars, calls, faults>>

\* presentURL:UIDelegate:callbackMatcher:completion:
PresentURL(a) ==
  /\ a \in held["domain"]
  /\ IF presenting
       THEN Move("domain", "refused", {a}) /\ UNCHANGED presenting
       ELSE Move("domain", "page", {a}) /\ presenting' = TRUE
  /\ UNCHANGED <<probeVars, tokenVars, credVars, store, safari, doneBlocks, url,
                 calls, faults>>

AlreadyPresented(a) ==
  /\ a \in held["refused"]
  /\ Move("refused", "answer", {a})
  /\ UNCHANGED <<probeVars, tokenVars, credVars, store, pageVars, calls, faults>>

\* The main queue block of presentURL: puts the page on screen.
ShowPage(a) ==
  /\ a \in held["page"] /\ safari = None
  /\ safari' = a
  /\ UNCHANGED <<held, probeVars, tokenVars, credVars, store, presenting,
                 doneBlocks, url, calls, faults>>

\* canHandleURL: of the page's callback and finishPresentationWithURL:error:,
\* which dismisses the page before finishBlock may run
CanHandleURL(u) ==
  /\ safari # None
  /\ url' = u
  /\ safari' = None
  /\ Move("page", "dismiss", held["page"])
  /\ UNCHANGED <<probeVars, tokenVars, credVars, store, presenting, doneBlocks,
                 calls, faults>>

\* The user taps Done on the page, which may already be on its way out:
\* safariViewControllerDidFinish: dispatches a block.
TapDone(a) ==
  /\ safari = a \/ a \in held["dismiss"]
  /\ a \notin doneBlocks
  /\ doneBlocks' = doneBlocks \cup {a}
  /\ UNCHANGED <<held, probeVars, tokenVars, credVars, store, presenting, safari,
                 url, calls, faults>>

\* Mutant: only the finishBlock of a dismissal resets _isPresenting.
SafariDidFinishPresenting(a) ==
  /\ a \in doneBlocks
  /\ doneBlocks' = doneBlocks \ {a}
  /\ IF safari = a
       THEN safari' = None /\ Move("page", "answer", held["page"])
       ELSE UNCHANGED <<held, safari>>
  /\ UNCHANGED <<probeVars, tokenVars, credVars, store, presenting, url, calls, faults>>

\* That block: finishBlock at once if the page is still the current one.
SafariDidFinish(a) ==
  /\ a \in doneBlocks
  /\ doneBlocks' = doneBlocks \ {a}
  /\ IF safari = a
       THEN /\ safari' = None
            /\ presenting' = FALSE
            /\ Move("page", "answer", held["page"])
       ELSE UNCHANGED <<held, presenting, safari>>
  /\ UNCHANGED <<probeVars, tokenVars, credVars, store, url, calls, faults>>

\* finishBlock after the dismissal.  A URL with neither a token nor an error
\* leaves no request to send, and the completion block is dropped.
FinishBlock(a) ==
  /\ a \in held["dismiss"]
  /\ presenting' = FALSE
  /\ url' = None
  /\ IF url = "bare"
       THEN held' = [held EXCEPT !["dismiss"] = @ \ {a}]
       ELSE Move("dismiss", IF url = "token" THEN "send" ELSE "answer", {a})
  /\ UNCHANGED <<probeVars, tokenVars, credVars, store, safari, doneBlocks, calls, faults>>

-----------------------------------------------------------------------------
(* The sendVerificationCode request                                        *)

\* The verification id, or an error other than InvalidAppCredential
SendAnswered(a) ==
  /\ a \in held["send"]
  /\ Move("send", "answer", {a})
  /\ UNCHANGED <<probeVars, tokenVars, credVars, store, pageVars, calls, faults>>

\* Mutant: clearCredential does not save.
SendRejectedUnsaved(a) ==
  /\ a \in held["send"]
  /\ a[2] = 1
  /\ credential' = None
  /\ faults < MaxFaults /\ faults' = faults + 1
  /\ LET place == ClientPlace(None)
     IN /\ held' = [held EXCEPT !["send"] = @ \ {a},
                                ![place] = @ \cup {<<a[1], 2>>}]
        /\ NewBatch(place)
  /\ UNCHANGED <<probeVars, pendingReceipts, receiptTimers, store, pageVars, calls>>

\* InvalidAppCredential: the first attempt forgets the credential and tries
\* again, the second gives up.
SendRejected(a) ==
  /\ a \in held["send"]
  /\ \/ /\ a[2] = 1
        /\ credential' = None
        /\ SaveData(None, pendingReceipts, 1)
        /\ LET place == ClientPlace(None)
           IN /\ held' = [held EXCEPT !["send"] = @ \ {a},
                                      ![place] = @ \cup {<<a[1], 2>>}]
              /\ NewBatch(place)
     \/ /\ a[2] = 2
        /\ Move("send", "answer", {a})
        /\ UNCHANGED <<credential, store, tokenVars, faults>>
  /\ UNCHANGED <<probeVars, pendingReceipts, receiptTimers, pageVars, calls>>

\* callBackOnMainThread: the app's completion block runs.
Complete(a) ==
  /\ a \in held["answer"]
  /\ held' = [held EXCEPT !["answer"] = @ \ {a}]
  /\ answered' = answered \cup {a[1]}
  /\ UNCHANGED <<probeVars, tokenVars, credVars, store, pageVars, started,
                 abandoned, kills, faults>>

-----------------------------------------------------------------------------
(* The process is killed and launched again: initWithKeychain: reads what   *)
(* saveData wrote, unless the keychain cannot be read.                      *)

Waiting == started \ (answered \cup abandoned)

Kill ==
  /\ faults < MaxFaults
  /\ faults' = faults + 1 /\ kills' = kills + 1
  /\ abandoned' = abandoned \cup Waiting
  /\ held' = [p \in Places |-> {}]
  /\ checked' = FALSE /\ forwarded' = FALSE /\ prober' = FALSE /\ probeTimer' = FALSE
  /\ token' = FALSE /\ batch' = 0 /\ tokenTimers' = {}
  /\ receiptTimers' = {}
  /\ presenting' = FALSE /\ safari' = None /\ doneBlocks' = {} /\ url' = None
  /\ \/ /\ credential' = keychain.credential
        /\ pendingReceipts' = keychain.pending
        /\ synced' = TRUE
     \/ credential' = None /\ pendingReceipts' = <<>> /\ synced' = FALSE
  /\ UNCHANGED <<keychain, started, answered>>

Reply(a) ==
  \/ ClientRejected(a) \/ DidStartVerification(a)
  \/ DomainFails(a) \/ PresentURL(a)
  \/ SendAnswered(a) \/ SendRejected(a)

Block(a) ==
  \/ MissingPhoneNumber(a) \/ CheckForwarding(a)
  \/ AlreadyPresented(a) \/ ShowPage(a) \/ SafariDidFinish(a) \/ FinishBlock(a)
  \/ Complete(a)

Timer ==
  \/ ProbeTimeout
  \/ \E b \in tokenTimers : TokenTimeout(b)
  \/ \E r \in receiptTimers : ReceiptTimeout(r)

User == \/ \E u \in PageUrls : CanHandleURL(u)
        \/ \E a \in Attempts : TapDone(a)

Next ==
  \/ \E c \in Calls : VerifyPhoneNumber(c)
  \/ \E a \in Attempts : Block(a) \/ Reply(a)
  \/ \E r \in Attempts, secret \in BOOLEAN : ReceivePush(r, secret)
  \/ ProberArrives \/ DidRegister \/ DidFailToRegister
  \/ Timer \/ User \/ Kill

Spec == Init /\ [][Next]_vars

\* The queues run their blocks, timers fire, requests are answered (with a
\* time-out error at the latest) and the user does not leave the page open for
\* ever.  Nothing is assumed of pushes, of APNs or of the app being killed.
Fairness ==
  /\ WF_vars(\E a \in Attempts : CheckForwarding(a))
  /\ WF_vars(\E a \in Attempts : AlreadyPresented(a))
  /\ WF_vars(\E a \in Attempts : ShowPage(a))
  /\ WF_vars(\E a \in Attempts : SafariDidFinish(a))
  /\ WF_vars(\E a \in Attempts : FinishBlock(a))
  /\ WF_vars(\E a \in Attempts : Complete(a))
  /\ WF_vars(\E a \in Attempts : Reply(a))
  /\ WF_vars(ProberArrives) /\ WF_vars(Timer) /\ WF_vars(User)

FairSpec == Spec /\ Fairness

-----------------------------------------------------------------------------
(* Properties                                                              *)

\* Every variable of the managers has its type.
TypeOK ==
  /\ held \in [Places -> SUBSET Attempts]
  /\ {checked, forwarded, prober, probeTimer, token, synced, presenting} \subseteq BOOLEAN
  /\ batch \in Nat /\ tokenTimers \in SUBSET Nat
  /\ credential \in Credential \cup {None}
  /\ pendingReceipts \in Seq(Attempts) /\ receiptTimers \in SUBSET Attempts
  /\ keychain \in [credential : Credential \cup {None}, pending : Seq(Attempts)]
  /\ safari \in Attempts \cup {None} /\ doneBlocks \in SUBSET Attempts
  /\ url \in PageUrls \cup {None}
  /\ {started, answered, abandoned} \subseteq SUBSET Calls
  /\ kills \in Nat /\ faults \in Nat

\* The calls whose completion block some place holds
InFlight == {a[1] : a \in UNION {held[p] : p \in Places}}

\* A call that has been neither answered nor cut off by a kill is held by one
\* place, in one attempt, and no other call is held at all: no completion block
\* is dropped on the way through four managers, two queues and a retry, and
\* none is left where it could run twice.
HeldOnce ==
  /\ InFlight = Waiting
  /\ \A p, q \in Places : \A a \in held[p], b \in held[q] :
       a[1] = b[1] => p = q /\ a = b

\* _isPresenting is set only while a page's completion is held, by a page that
\* is on screen, about to be, or being dismissed.
PageIsHeld ==
  IF presenting
    THEN \E a \in Attempts :
           \/ held["page"] = {a} /\ held["dismiss"] = {} /\ safari \in {None, a}
           \/ held["page"] = {} /\ held["dismiss"] = {a} /\ safari = None /\ url # None
    ELSE held["page"] = {} /\ held["dismiss"] = {} /\ safari = None

\* Whoever waits without a request in flight will be woken: the probe, the
\* current list of token callbacks and every receipt have a timer that has not
\* fired, and no page is refused because of one that is gone.
WaitersAreWoken ==
  /\ held["probe"] # {} => probeTimer
  /\ held["token"] # {} => batch \in tokenTimers
  /\ held["push"] \subseteq receiptTimers
  /\ PageIsHeld

\* A kill costs no credential and no receipt a push may still answer: the
\* keychain agrees with the memory unless the last access to it failed, and
\* never more than the maximum of receipts is kept, none of them twice.
KeychainUpToDate ==
  /\ synced => keychain = [credential |-> credential, pending |-> pendingReceipts]
  /\ \A s \in {pendingReceipts, keychain.pending} :
       /\ Len(s) <= MaxPending
       /\ \A i, j \in DOMAIN s : s[i] = s[j] => i = j

\* Every call of one process gets the same verdict on notification forwarding:
\* once it has been given, a prober that arrives after the 1 s timer cannot
\* change it.
VerdictSticks ==
  [][checked /\ held["probe"] = {} /\ kills' = kills => forwarded' = forwarded]_vars

\* The timer of an array of token callbacks never cancels a later array.
StaleTimerIsHarmless ==
  [][\A b \in tokenTimers \ tokenTimers' :
       b # batch /\ kills' = kills => held' = held]_vars

\* verifyPhoneNumber keeps AsyncCalls' promise: one answer per call.
Async == INSTANCE AsyncCalls WITH waiting <- InFlight
ImplementsAsyncCalls == Async!Spec

\* Every call is answered or cut off by a kill, although pushes and APNs tokens
\* may never come.
EveryCallAnswered ==
  \A c \in Calls : c \in started ~> c \in answered \cup abandoned
=============================================================================
