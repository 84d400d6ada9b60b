---------------------------- MODULE AuthSession -----------------------------
(***************************************************************************)
(* The session of Firebase Auth: FIRAuth's current user, its copy in the   *)
(* keychain, from which AppDelegate.swift's Auth.auth().currentUser is     *)
(* restored at launch, and the requests and timers that renew its token.   *)
(* Every block runs on FIRAuthGlobalWorkQueue, a serial queue, and is one  *)
(* action, together with the keychain calls it makes.  The two             *)
(* application observers run on the main thread and are an action each.    *)
(*                                                                         *)
(* A FIRUser object is a number; a sign-in and a load of the keychain make *)
(* a new one, so one account may have several.  A token is a number, 0 is  *)
(* nil, and each one the server issues is new.                             *)
(*   current       _currentUser                                            *)
(*   uid, token    the object's _userID (None: not made yet) and its token *)
(*                 service's _accessToken                                  *)
(*   tasks         the queue of its FIRAuthSerialTaskQueue: a call's       *)
(*                 getToken, or "timer", the refresh of a timer            *)
(*   request       the head's request: "none", "first", or "retry" after   *)
(*                 the answer was a token about to expire                  *)
(*   keychain      the archived user                                       *)
(*   observing     protected data's observer is installed                  *)
(*   lastNotified  _lastNotifiedUserToken                                  *)
(*   autoRefresh, scheduled, background   _autoRefreshTokens,              *)
(*                 _autoRefreshScheduled and _isAppInBackground            *)
(*   timers        how many timers of scheduleAutoTokenRefresh wait for    *)
(*                 each token; they fire at any time, so delays and their  *)
(*                 back-off are left out                                   *)
(*   delivering    the calls whose callback is on the main queue           *)
(*   called, answered, abandoned   the calls made, answered, and killed    *)
(*                 with the process                                        *)
(*   undeleted     history: a forced sign-out could not clear the keychain *)
(*   issued, activations, faults   bounded: tokens issued, didBecomeActive *)
(*                 notifications, and faults: keychain errors and answers  *)
(*                 that bring the token the user already has               *)
(*                                                                         *)
(* External: the server, the keychain, the app's lifecycle, and the other  *)
(* Firebase libraries, which ask for tokens through FIRAuthInterop.  The   *)
(* app uses neither tenants nor a shared access group.                     *)
(***************************************************************************)
EXTENDS Integers, Sequences

CONSTANTS Users,           \* user IDs
          Calls,           \* calls of getTokenForcingRefresh:withCallback:
          MaxObjects, MaxTokens, MaxActivations, MaxFaults, None

ASSUME CallsAssumption == "timer" \notin Calls
ASSUME BoundsAssumption ==
  /\ MaxObjects \in Nat \ {0} /\ MaxTokens \in Nat
  /\ MaxActivations \in Nat /\ MaxFaults \in Nat

Objects == 1 .. MaxObjects
Tokens  == 1 .. MaxTokens
Stored  == [uid : Users, token : Tokens]

ASSUME NoneAssumption == None \notin Users \cup Objects \cup Stored

VARIABLES current, uid, token, tasks, request, keychain, observing,
          lastNotified, autoRefresh, scheduled, background, timers,
          delivering, called, answered, abandoned, undeleted, issued,
          activations, faults

objects == <<uid, token, tasks, request>>
session == <<current, keychain, undeleted, lastNotified>>
refresh == <<scheduled, timers>>
app     == <<autoRefresh, background, activations>>
calls   == <<delivering, called, answered, abandoned>>
vars    == <<objects, session, refresh, app, calls, observing, issued, faults>>

NoObjects ==
  /\ uid = [o \in Objects |-> None] /\ token = [o \in Objects |-> 0]
  /\ tasks = [o \in Objects |-> <<>>] /\ request = [o \in Objects |-> "none"]

\* The first launch after the installation.
Init ==
  /\ NoObjects
  /\ current = None /\ keychain = None /\ undeleted = FALSE /\ lastNotified = 0
  /\ scheduled = FALSE /\ timers = [t \in Tokens |-> 0]
  /\ autoRefresh = FALSE /\ background = FALSE /\ activations = 0
  /\ delivering = {} /\ called = {} /\ answered = {} /\ abandoned = {}
  /\ observing = FALSE /\ issued = 0 /\ faults = 0

-----------------------------------------------------------------------------
(* What the handlers share                                                 *)

\* A keychain call returns; a failure leaves the keychain as it was.
KeychainReturns(ok) == ok \/ faults < MaxFaults
CountFault(ok) == faults' = IF ok THEN faults ELSE faults + 1

\* scheduleAutoTokenRefresh for the current user's token, nothing for nil.
Schedule(tok) ==
  IF tok = 0 THEN UNCHANGED refresh
  ELSE /\ timers' = [timers EXCEPT ![tok] = @ + 1]
       /\ scheduled' = TRUE

\* possiblyPostAuthStateChangeNotification when the current user has tok.
PossiblyPost(tok) ==
  /\ lastNotified' = tok
  /\ IF tok # lastNotified /\ autoRefresh THEN Schedule(tok) ELSE UNCHANGED refresh

CurrentToken == IF current = None THEN 0 ELSE token[current]

\* The next FIRUser object, with the tokens of its token service.
Fresh(o) == uid[o] = None /\ \A p \in 1 .. o - 1 : uid[p] # None

MakeUser(o, u, tok) ==
  /\ Fresh(o)
  /\ uid' = [uid EXCEPT ![o] = u]
  /\ token' = [token EXCEPT ![o] = tok]
  /\ UNCHANGED <<tasks, request>>

-----------------------------------------------------------------------------
(* Sign-in and sign-out                                                    *)

\* The server has accepted the credential of signInWithCredential; the
\* decorated callback makes the user current if the keychain takes it.
SignIn(u, o, ok) ==
  /\ issued < MaxTokens
  /\ KeychainReturns(ok) /\ CountFault(ok)
  /\ issued' = issued + 1
  /\ \/ /\ ok
        /\ MakeUser(o, u, issued + 1)
        /\ keychain' = [uid |-> u, token |-> issued + 1]
        /\ current' = o /\ undeleted' = FALSE
        /\ PossiblyPost(issued + 1)
     \/ ~ok /\ Fresh(o) /\ UNCHANGED <<objects, session, refresh>>
  /\ UNCHANGED <<app, calls, observing>>

\* Mutant: the listeners are not told.
SignOutSilently(ok) ==
  /\ current # None
  /\ KeychainReturns(ok) /\ CountFault(ok)
  /\ \/ ok /\ keychain' = None /\ current' = None
     \/ ~ok /\ UNCHANGED <<current, keychain>>
  /\ UNCHANGED <<objects, undeleted, lastNotified, refresh, app, calls, observing, issued>>

\* Mutant: the user's tasks are cancelled.
SignOutCancelling(ok) ==
  /\ current # None
  /\ KeychainReturns(ok) /\ CountFault(ok)
  /\ \/ /\ ok
        /\ keychain' = None /\ current' = None
        /\ tasks' = [tasks EXCEPT ![current] = <<>>]
        /\ request' = [request EXCEPT ![current] = "none"]
        /\ PossiblyPost(0)
     \/ ~ok /\ UNCHANGED <<current, keychain, tasks, request, lastNotified, refresh>>
  /\ UNCHANGED <<uid, token, undeleted, app, calls, observing, issued>>

SignOut(ok) ==
  /\ current # None
  /\ KeychainReturns(ok) /\ CountFault(ok)
  /\ \/ /\ ok
        /\ keychain' = None /\ current' = None
        /\ PossiblyPost(0)
     \/ ~ok /\ UNCHANGED <<current, keychain, lastNotified, refresh>>
  /\ UNCHANGED <<objects, undeleted, app, calls, observing, issued>>

-----------------------------------------------------------------------------
(* Asking for a token                                                      *)

\* getTokenForcingRefresh:withCallback:, the first of which turns automatic
\* refresh on.
GetToken(c) ==
  /\ c \in Calls \ called
  /\ called' = called \cup {c}
  /\ autoRefresh' = TRUE
  /\ IF autoRefresh THEN UNCHANGED refresh ELSE Schedule(CurrentToken)
  /\ \/ /\ current = None
        /\ delivering' = delivering \cup {c}
        /\ UNCHANGED tasks
     \/ /\ current # None
        /\ tasks' = [tasks EXCEPT ![current] = Append(@, c)]
        /\ UNCHANGED delivering
  /\ UNCHANGED <<uid, token, request, session, background, activations,
                 answered, abandoned, observing, issued, faults>>

Queued(o) == {tasks[o][i] : i \in DOMAIN tasks[o]}
Idle(o) == tasks[o] # <<>> /\ request[o] = "none"
Busy(o) == request[o] # "none"

\* fetchAccessTokenForcingRefresh: a call that does not force a refresh finds
\* a valid token ...
CachedToken(o) ==
  /\ Idle(o) /\ Head(tasks[o]) # "timer"
  /\ tasks' = [tasks EXCEPT ![o] = Tail(@)]
  /\ delivering' = delivering \cup {Head(tasks[o])}
  /\ UNCHANGED <<uid, token, request, session, refresh, app, called, answered,
                 abandoned, observing, issued, faults>>

\* ... or a request is sent.
RequestAccessToken(o) ==
  /\ Idle(o)
  /\ request' = [request EXCEPT ![o] = "first"]
  /\ UNCHANGED <<uid, token, tasks, session, refresh, app, calls, observing,
                 issued, faults>>

\* Mutant: a token about to expire is asked for again and again.
ExpiredTokenAgain(o) ==
  /\ Busy(o)
  /\ request' = [request EXCEPT ![o] = IF @ = "first" THEN "retry" ELSE "first"]
  /\ UNCHANGED <<uid, token, tasks, session, refresh, app, calls, observing,
                 issued, faults>>

\* A token about to expire is asked for once more.
ExpiredToken(o) ==
  /\ request[o] = "first"
  /\ request' = [request EXCEPT ![o] = "retry"]
  /\ UNCHANGED <<uid, token, tasks, session, refresh, app, calls, observing,
                 issued, faults>>

\* complete(), after which the next task may start, and the callback of a call.
FinishTask(o) ==
  /\ tasks' = [tasks EXCEPT ![o] = Tail(@)]
  /\ request' = [request EXCEPT ![o] = "none"]
  /\ delivering' = IF Head(tasks[o]) = "timer" THEN delivering
                   ELSE delivering \cup {Head(tasks[o])}
  /\ UNCHANGED <<uid, called, answered, abandoned>>

\* The callback of a timer's task that failed: it tries again later if the
\* account is still signed in, perhaps as another object, which has tok.
RescheduleOnError(o, tok) ==
  IF Head(tasks[o]) = "timer" /\ current # None /\ uid[current] = uid[o]
  THEN Schedule(tok) ELSE UNCHANGED refresh

\* Mutant: updateKeychainWithUser saves any user.
NewTokenAlwaysSaved(o, ok) ==
  /\ Busy(o) /\ issued < MaxTokens /\ ok
  /\ issued' = issued + 1
  /\ token' = [token EXCEPT ![o] = issued + 1]
  /\ FinishTask(o)
  /\ keychain' = [uid |-> uid[o], token |-> issued + 1]
  /\ UNCHANGED <<current, undeleted, lastNotified, refresh, app, observing, faults>>

\* A new token; updateKeychainWithUser saves the user if it is current.
NewToken(o, ok) ==
  /\ Busy(o) /\ issued < MaxTokens
  /\ issued' = issued + 1
  /\ token' = [token EXCEPT ![o] = issued + 1]
  /\ FinishTask(o)
  /\ \/ /\ o # current /\ ok
        /\ UNCHANGED <<session, refresh>>
     \/ /\ o = current /\ ok
        /\ keychain' = [uid |-> uid[o], token |-> issued + 1]
        /\ PossiblyPost(issued + 1)
        /\ UNCHANGED <<current, undeleted>>
     \/ /\ o = current /\ ~ok
        /\ RescheduleOnError(o, issued + 1)
        /\ UNCHANGED session
  /\ KeychainReturns(ok) /\ CountFault(ok)
  /\ UNCHANGED <<app, observing>>

\* The token the object already has: nothing to save or to announce.
SameToken(o) ==
  /\ Busy(o) /\ faults < MaxFaults
  /\ faults' = faults + 1
  /\ FinishTask(o)
  /\ UNCHANGED <<token, session, refresh, app, observing, issued>>

\* Mutant: the user IDs are compared as strings.
RejectedByUserID(o, ok) ==
  /\ Busy(o) /\ ok
  /\ FinishTask(o)
  /\ current # None /\ uid[current] = uid[o]
  /\ current' = None /\ keychain' = None
  /\ PossiblyPost(0)
  /\ UNCHANGED <<token, undeleted, app, observing, issued, faults>>

\* The server no longer accepts the user: signOutIfTokenIsInvalidWithError,
\* which is by force but only for the current user's own object: it compares
\* the user ID strings by address.
Rejected(o, ok) ==
  /\ Busy(o)
  /\ FinishTask(o)
  /\ \/ /\ o # current /\ ok
        /\ RescheduleOnError(o, CurrentToken)
        /\ UNCHANGED session
     \/ /\ o = current
        /\ current' = None
        /\ keychain' = IF ok THEN None ELSE keychain
        /\ undeleted' = ~ok
        /\ PossiblyPost(0)
  /\ KeychainReturns(ok) /\ CountFault(ok)
  /\ UNCHANGED <<token, app, observing, issued>>

\* Any other error, the network's for instance.
Failed(o) ==
  /\ Busy(o)
  /\ FinishTask(o)
  /\ RescheduleOnError(o, CurrentToken)
  /\ UNCHANGED <<token, session, app, observing, issued, faults>>

\* The main queue runs a callback.
Deliver(c) ==
  /\ c \in delivering
  /\ delivering' = delivering \ {c}
  /\ answered' = answered \cup {c}
  /\ UNCHANGED <<objects, session, refresh, app, called, abandoned, observing,
                 issued, faults>>

-----------------------------------------------------------------------------
(* Automatic refresh                                                       *)

TimerFires(t) ==
  /\ timers[t] > 0
  /\ timers' = [timers EXCEPT ![t] = @ - 1]
  /\ \/ CurrentToken # t /\ UNCHANGED <<scheduled, tasks>>
     \/ CurrentToken = t /\ scheduled' = FALSE /\ background /\ UNCHANGED tasks
     \/ /\ CurrentToken = t /\ scheduled' = FALSE /\ ~background
        /\ tasks' = [tasks EXCEPT ![current] = Append(@, "timer")]
  /\ UNCHANGED <<uid, token, request, session, app, calls, observing, issued, faults>>

\* Mutant: the refresh a timer dropped in the background is not made up for.
DidBecomeActiveOnly ==
  /\ autoRefresh /\ activations < MaxActivations
  /\ activations' = activations + 1
  /\ background' = FALSE
  /\ UNCHANGED <<objects, session, refresh, autoRefresh, calls, observing, issued, faults>>

DidBecomeActive ==
  /\ autoRefresh /\ activations < MaxActivations
  /\ activations' = activations + 1
  /\ background' = FALSE
  /\ IF scheduled THEN UNCHANGED refresh ELSE Schedule(CurrentToken)
  /\ UNCHANGED <<objects, session, autoRefresh, calls, observing, issued, faults>>

DidEnterBackground ==
  /\ autoRefresh /\ ~background
  /\ background' = TRUE
  /\ UNCHANGED <<objects, session, refresh, autoRefresh, activations, calls,
                 observing, issued, faults>>

-----------------------------------------------------------------------------
(* Launch                                                                  *)

\* protectedDataInitialization once more, when the device is unlocked after a
\* load that failed: the current user is replaced by the keychain's.
ProtectedDataDidBecomeAvailable(o, ok) ==
  /\ observing
  /\ KeychainReturns(ok) /\ CountFault(ok)
  /\ observing' = ~ok
  /\ \/ ~ok /\ UNCHANGED <<objects, session, refresh>>
     \/ /\ ok /\ keychain = None
        /\ current' = None
        /\ PossiblyPost(0)
        /\ UNCHANGED <<objects, keychain, undeleted>>
     \/ /\ ok /\ keychain # None
        /\ MakeUser(o, keychain.uid, keychain.token)
        /\ current' = o /\ undeleted' = FALSE
        /\ PossiblyPost(keychain.token)
        /\ UNCHANGED keychain
  /\ UNCHANGED <<app, calls, issued>>

\* The process is killed, and launched again with whatever the keychain holds.
Relaunch(ok) ==
  /\ KeychainReturns(ok) /\ CountFault(ok)
  /\ LET restored == ok /\ keychain # None
     IN /\ current' = IF restored THEN 1 ELSE None
        /\ uid' = [o \in Objects |-> IF restored /\ o = 1 THEN keychain.uid ELSE None]
        /\ token' = [o \in Objects |-> IF restored /\ o = 1 THEN keychain.token ELSE 0]
        /\ lastNotified' = IF restored THEN keychain.token ELSE 0
        /\ undeleted' = (undeleted /\ ~restored)
  /\ observing' = ~ok
  /\ tasks' = [o \in Objects |-> <<>>] /\ request' = [o \in Objects |-> "none"]
  /\ scheduled' = FALSE /\ timers' = [t \in Tokens |-> 0]
  /\ autoRefresh' = FALSE /\ background' = FALSE
  /\ delivering' = {} /\ abandoned' = called \ answered
  /\ UNCHANGED <<keychain, called, answered, activations, issued>>

Answered(o) ==
  \/ ExpiredToken(o) \/ SameToken(o) \/ Failed(o)
  \/ \E ok \in BOOLEAN : NewToken(o, ok) \/ Rejected(o, ok)

Next ==
  \/ \E u \in Users, o \in Objects, ok \in BOOLEAN : SignIn(u, o, ok)
  \/ \E ok \in BOOLEAN : SignOut(ok) \/ Relaunch(ok)
  \/ \E c \in Calls : GetToken(c) \/ Deliver(c)
  \/ \E o \in Objects : CachedToken(o) \/ RequestAccessToken(o) \/ Answered(o)
  \/ \E t \in Tokens : TimerFires(t)
  \/ DidBecomeActive \/ DidEnterBackground
  \/ \E o \in Objects, ok \in BOOLEAN : ProtectedDataDidBecomeAvailable(o, ok)

Spec == Init /\ [][Next]_vars

\* The queues run their blocks, and a request is answered, in time-out at worst.
FairSpec ==
  /\ Spec
  /\ \A o \in Objects : WF_vars(CachedToken(o) \/ RequestAccessToken(o))
                        /\ WF_vars(Answered(o))
  /\ \A c \in Calls : WF_vars(Deliver(c))

-----------------------------------------------------------------------------
(* Properties                                                              *)

\* Every variable has its type; an object that exists has an access token, a
\* request in flight has a task, and the current user exists.
TypeOK ==
  /\ current \in Objects \cup {None}
  /\ uid \in [Objects -> Users \cup {None}]
  /\ token \in [Objects -> Tokens \cup {0}]
  /\ tasks \in [Objects -> Seq(Calls \cup {"timer"})]
  /\ request \in [Objects -> {"none", "first", "retry"}]
  /\ \A o \in Objects : /\ uid[o] = None => tasks[o] = <<>>
                        /\ uid[o] # None => token[o] # 0
                        /\ request[o] # "none" => tasks[o] # <<>>
  /\ current # None => uid[current] # None
  /\ keychain \in Stored \cup {None}
  /\ lastNotified \in Tokens \cup {0}
  /\ timers \in [Tokens -> Nat]
  /\ observing \in BOOLEAN /\ autoRefresh \in BOOLEAN /\ scheduled \in BOOLEAN
  /\ background \in BOOLEAN /\ undeleted \in BOOLEAN
  /\ delivering \subseteq Calls /\ called \subseteq Calls
  /\ answered \subseteq Calls /\ abandoned \subseteq Calls
  /\ issued \in 0 .. MaxTokens /\ activations \in Nat /\ faults \in Nat

\* The session on disk is the session in memory: a signed-in account is the
\* one the next launch restores, whatever late answers of other accounts came
\* in between; and nobody signed in means nobody stored, unless the keychain
\* could not be read at launch or cleared at a forced sign-out.
SessionIsStored ==
  /\ current # None => keychain # None /\ keychain.uid = uid[current]
  /\ current = None /\ keychain # None => observing \/ undeleted

\* possiblyPostAuthStateChangeNotification has told the listeners exactly the
\* token on disk; the token in memory is ahead of it only after a save failed.
ListenersKnowStored ==
  /\ lastNotified = IF current = None THEN 0 ELSE keychain.token
  /\ faults = 0 => CurrentToken = lastNotified

\* As long as there is no fault, a user who is signed in, with automatic
\* refresh on and the app in front, has a refresh coming: a timer for the
\* token, or a task one has started.  In the background _autoRefreshScheduled
\* still tells whether there is a timer.
RefreshIsComing ==
  faults = 0 /\ autoRefresh /\ current # None =>
    LET timer == timers[token[current]] > 0
    IN /\ scheduled => timer
       /\ ~background => timer \/ "timer" \in Queued(current)

\* The comment in scheduleAutoTokenRefreshWithDelay's task, on a timer that
\* fires for a token the user no longer has, "Another auto refresh must have
\* been scheduled, so keep _autoRefreshScheduled unchanged": while a user is
\* signed in and the flag is set, some timer is still to fire.
ScheduledMeansTimer ==
  scheduled /\ current # None => \E t \in Tokens : timers[t] > 0

\* The answer to a request of a user object that is no longer current changes
\* neither the session nor its copy on disk, and tells the listeners nothing.
LateAnswerIsHarmless ==
  [][\A o \in Objects : o # current /\ Answered(o) => UNCHANGED session]_vars

\* The token service implements AsyncCalls: a callback of
\* getTokenForcingRefresh that waits in a task queue or on the main queue is
\* never dropped or run twice, whatever becomes of the user it was asked of.
Waiting ==
  delivering \cup {c \in Calls : \E o \in Objects : c \in Queued(o)}
Async == INSTANCE AsyncCalls WITH waiting <- Waiting
TokenCallsAreAnsweredOnce == Async!Spec

\* Every callback runs, unless the process is killed first.
EveryTokenCallAnswered ==
  \A c \in Calls : c \in called ~> c \in answered \cup abandoned
=============================================================================
