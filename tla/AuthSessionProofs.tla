------------------------- MODULE AuthSessionProofs --------------------------
(***************************************************************************)
(* For any number of accounts, user objects, tokens, calls and faults: the *)
(* session in memory and the one in the keychain agree, the listeners know *)
(* the stored token, and without faults a refresh is always coming.        *)
(***************************************************************************)
EXTENDS AuthSession, TLAPS

\* Tokens known to the client have been issued, so the next one is new to it.
KnownTokens == /\ lastNotified <= issued
               /\ keychain # None => keychain.token <= issued

\* The observer of protected data is only installed by a keychain error.
ObserverNeedsFault == faults = 0 => ~observing

SessionInv == /\ KnownTokens /\ ObserverNeedsFault
              /\ SessionIsStored /\ ListenersKnowStored

IInv == TypeOK /\ SessionInv /\ RefreshIsComing

-----------------------------------------------------------------------------
(* Queues of tasks                                                         *)

LEMMA AppendTask ==
  ASSUME NEW S, NEW s \in Seq(S), NEW e \in S
  PROVE  /\ Append(s, e) \in Seq(S) /\ Append(s, e) # <<>>
         /\ \A x : (\E i \in DOMAIN Append(s, e) : Append(s, e)[i] = x) <=>
                   (x = e \/ \E i \in DOMAIN s : s[i] = x)
<1>1. /\ Append(s, e) \in Seq(S) /\ Len(Append(s, e)) = Len(s) + 1
      /\ DOMAIN Append(s, e) = 1 .. Len(s) + 1 /\ DOMAIN s = 1 .. Len(s)
      /\ Len(s) \in Nat
      /\ \A i \in 1 .. Len(s) : Append(s, e)[i] = s[i]
      /\ Append(s, e)[Len(s) + 1] = e
  OBVIOUS
<1>2. Append(s, e) # <<>>
  BY <1>1
<1>3. ASSUME NEW x
      PROVE (\E i \in DOMAIN Append(s, e) : Append(s, e)[i] = x) <=>
            (x = e \/ \E i \in DOMAIN s : s[i] = x)
  BY <1>1
<1> QED
  BY <1>1, <1>2, <1>3

LEMMA TailTask ==
  ASSUME NEW S, NEW s \in Seq(S), s # <<>>
  PROVE  /\ Tail(s) \in Seq(S) /\ Head(s) \in S
         /\ \A x : (\E i \in DOMAIN s : s[i] = x) <=>
                   (x = Head(s) \/ \E i \in DOMAIN Tail(s) : Tail(s)[i] = x)
<1>1. /\ Tail(s) \in Seq(S) /\ Head(s) \in S
      /\ Len(s) \in Nat \ {0} /\ DOMAIN s = 1 .. Len(s)
      /\ DOMAIN Tail(s) = 1 .. Len(s) - 1
      /\ \A i \in 1 .. Len(s) - 1 : Tail(s)[i] = s[i + 1]
      /\ Head(s) = s[1]
  OBVIOUS
<1>2. ASSUME NEW x
      PROVE (\E i \in DOMAIN s : s[i] = x) <=>
            (x = Head(s) \/ \E i \in DOMAIN Tail(s) : Tail(s)[i] = x)
  <2>1. ASSUME NEW i \in DOMAIN s, s[i] = x, x # Head(s)
        PROVE  \E j \in DOMAIN Tail(s) : Tail(s)[j] = x
    <3>1. i - 1 \in DOMAIN Tail(s) /\ Tail(s)[i - 1] = x
      BY <1>1, <2>1
    <3> QED
      BY <3>1
  <2>2. ASSUME NEW j \in DOMAIN Tail(s), Tail(s)[j] = x
        PROVE  \E i \in DOMAIN s : s[i] = x
    <3>1. j + 1 \in DOMAIN s /\ s[j + 1] = x
      BY <1>1, <2>2
    <3> QED
      BY <3>1
  <2>3. 1 \in DOMAIN s /\ s[1] = Head(s)
    BY <1>1
  <2> QED
    BY <2>1, <2>2, <2>3
<1> QED
  BY <1>1, <1>2

LEMMA TailFacts ==
  ASSUME NEW S, NEW s \in Seq(S), s # <<>>, NEW t, t = Tail(s)
  PROVE  /\ Len(s) \in Nat \ {0} /\ DOMAIN s = 1 .. Len(s)
         /\ DOMAIN t = 1 .. Len(s) - 1
         /\ \A i \in 1 .. Len(s) - 1 : t[i] = s[i + 1]
         /\ Head(s) = s[1]
OBVIOUS

LEMMA TailKeeps ==
  ASSUME NEW S, NEW s \in Seq(S), s # <<>>, NEW x, x # Head(s),
         \E i \in DOMAIN s : s[i] = x
  PROVE  \E i \in DOMAIN Tail(s) : Tail(s)[i] = x
BY TailTask

-----------------------------------------------------------------------------
(* Types                                                                   *)

ObjectTypes ==
  /\ current \in Objects \cup {None}
  /\ uid \in [Objects -> Users \cup {None}]
  /\ token \in [Objects -> Tokens \cup {0}]
  /\ tasks \in [Objects -> Seq(Calls \cup {"timer"})]
  /\ request \in [Objects -> {"none", "first", "retry"}]
  /\ \A p \in Objects : /\ uid[p] = None => tasks[p] = <<>>
                        /\ uid[p] # None => token[p] # 0
                        /\ request[p] # "none" => tasks[p] # <<>>
  /\ current # None => uid[current] # None

CounterTypes ==
  /\ keychain \in Stored \cup {None}
  /\ lastNotified \in Tokens \cup {0}
  /\ timers \in [Tokens -> Nat]
  /\ issued \in 0 .. MaxTokens /\ activations \in Nat /\ faults \in Nat

FlagTypes ==
  /\ observing \in BOOLEAN /\ autoRefresh \in BOOLEAN /\ scheduled \in BOOLEAN
  /\ background \in BOOLEAN /\ undeleted \in BOOLEAN

CallTypes ==
  /\ delivering \subseteq Calls /\ called \subseteq Calls
  /\ answered \subseteq Calls /\ abandoned \subseteq Calls

LEMMA TypeParts ==
  TypeOK <=> ObjectTypes /\ CounterTypes /\ FlagTypes /\ CallTypes
BY DEF TypeOK, ObjectTypes, CounterTypes, FlagTypes, CallTypes

LEMMA TypePartsNext ==
  TypeOK' <=> ObjectTypes' /\ CounterTypes' /\ FlagTypes' /\ CallTypes'
BY DEF TypeOK, ObjectTypes, CounterTypes, FlagTypes, CallTypes

LEMMA InitType == Init => TypeOK
<1> SUFFICES ASSUME Init PROVE TypeOK
  OBVIOUS
<1>1. ObjectTypes
  BY DEF Init, NoObjects, ObjectTypes, Busy
<1>2. CounterTypes
  BY BoundsAssumption DEF Init, CounterTypes
<1>3. FlagTypes
  BY Zenon DEF Init, FlagTypes
<1>4. CallTypes
  BY DEF Init, CallTypes
<1> QED
  BY <1>1, <1>2, <1>3, <1>4, TypeParts

\* Timers and the listeners' token keep their types.
LEMMA ScheduleType ==
  ASSUME TypeOK, NEW tok \in Tokens \cup {0}, Schedule(tok)
  PROVE  timers' \in [Tokens -> Nat] /\ scheduled' \in BOOLEAN
<1>1. timers' \in [Tokens -> Nat]
  BY DEF TypeOK, Schedule, refresh, Tokens
<1>2. scheduled' \in BOOLEAN
  BY Zenon DEF TypeOK, Schedule, refresh
<1> QED
  BY <1>1, <1>2

LEMMA PostType ==
  ASSUME TypeOK, NEW tok \in Tokens \cup {0}, PossiblyPost(tok)
  PROVE  /\ lastNotified' = tok
         /\ timers' \in [Tokens -> Nat] /\ scheduled' \in BOOLEAN
BY ScheduleType DEF TypeOK, PossiblyPost, refresh

LEMMA CurrentTokenType ==
  ASSUME TypeOK
  PROVE  CurrentToken \in Tokens \cup {0}
BY DEF TypeOK, CurrentToken

LEMMA RescheduleType ==
  ASSUME TypeOK, NEW o \in Objects, NEW tok \in Tokens \cup {0},
         RescheduleOnError(o, tok)
  PROVE  timers' \in [Tokens -> Nat] /\ scheduled' \in BOOLEAN
BY ScheduleType DEF TypeOK, RescheduleOnError, refresh

\* complete() removes the task that was running.
LEMMA FinishType ==
  ASSUME TypeOK, NEW o \in Objects, Busy(o), FinishTask(o)
  PROVE  /\ tasks' \in [Objects -> Seq(Calls \cup {"timer"})]
         /\ request' \in [Objects -> {"none", "first", "retry"}]
         /\ tasks'[o] = Tail(tasks[o]) /\ request'[o] = "none"
         /\ \A p \in Objects \ {o} : tasks'[p] = tasks[p] /\ request'[p] = request[p]
         /\ uid[o] # None
         /\ UNCHANGED <<uid, called, answered, abandoned>>
BY TailTask DEF TypeOK, Busy, FinishTask

LEMMA FinishCalls ==
  ASSUME TypeOK, NEW o \in Objects, Busy(o), FinishTask(o)
  PROVE  CallTypes'
<1>1. Head(tasks[o]) \in Calls \cup {"timer"}
  BY TailTask DEF TypeOK, Busy
<1> QED
  BY <1>1 DEF TypeOK, FinishTask, CallTypes

\* A task that ends keeps the objects in order, whatever the token becomes.
LEMMA FinishObjects ==
  ASSUME TypeOK, NEW o \in Objects, Busy(o), FinishTask(o),
         token' \in [Objects -> Tokens \cup {0}],
         \A p \in Objects : uid[p] # None => token'[p] # 0,
         current' = current \/ current' = None
  PROVE  ObjectTypes'
<1>1. \A p \in Objects : /\ uid'[p] = None => tasks'[p] = <<>>
                         /\ uid'[p] # None => token'[p] # 0
                         /\ request'[p] # "none" => tasks'[p] # <<>>
  BY FinishType DEF TypeOK, Busy
<1>2. current' \in Objects \cup {None} /\ (current' # None => uid'[current'] # None)
  BY FinishType DEF TypeOK
<1>3. /\ uid' \in [Objects -> Users \cup {None}]
      /\ tasks' \in [Objects -> Seq(Calls \cup {"timer"})]
      /\ request' \in [Objects -> {"none", "first", "retry"}]
  BY FinishType DEF TypeOK
<1> QED
  BY <1>1, <1>2, <1>3 DEF ObjectTypes

LEMMA FaultType ==
  ASSUME TypeOK, NEW ok \in BOOLEAN, CountFault(ok)
  PROVE  faults' \in Nat
BY DEF TypeOK, CountFault

LEMMA SignInType ==
  ASSUME TypeOK, NEW u \in Users, NEW o \in Objects, NEW ok \in BOOLEAN,
         SignIn(u, o, ok)
  PROVE  TypeOK'
<1>1. issued + 1 \in Tokens /\ issued' \in 0 .. MaxTokens /\ faults' \in Nat
  BY FaultType, BoundsAssumption DEF TypeOK, SignIn, Tokens
<1>2. CASE ok
  <2>1. PossiblyPost(issued + 1) /\ MakeUser(o, u, issued + 1)
    BY <1>2 DEF SignIn
  <2>2. ObjectTypes'
    BY <1>1, <1>2, <2>1, NoneAssumption DEF TypeOK, ObjectTypes, SignIn, MakeUser, Fresh, Busy, Tokens
  <2>3. CounterTypes'
    BY <1>1, <1>2, <2>1, PostType DEF TypeOK, CounterTypes, SignIn, Stored, app
  <2>4. FlagTypes'
    <3>1. undeleted' = FALSE /\ UNCHANGED <<observing, autoRefresh, background>>
      BY <1>2 DEF SignIn, app
    <3> QED
      BY <1>1, <2>1, <3>1, PostType, Zenon DEF TypeOK, FlagTypes
  <2>5. CallTypes'
    BY DEF TypeOK, CallTypes, SignIn, calls
  <2> QED
    BY <2>2, <2>3, <2>4, <2>5, TypePartsNext
<1>3. CASE ~ok
  BY <1>1, <1>3 DEF TypeOK, SignIn, objects, session, refresh, app, calls, Busy
<1> QED
  BY <1>2, <1>3

LEMMA SignOutType ==
  ASSUME TypeOK, NEW ok \in BOOLEAN, SignOut(ok)
  PROVE  TypeOK'
<1>1. faults' \in Nat
  BY FaultType DEF SignOut
<1>2. CASE ok
  <2>1. PossiblyPost(0)
    BY <1>2 DEF SignOut
  <2>2. ObjectTypes'
    BY <1>2 DEF TypeOK, ObjectTypes, SignOut, objects, Busy
  <2>3. CounterTypes'
    BY <1>1, <1>2, <2>1, PostType DEF TypeOK, CounterTypes, SignOut, app
  <2>4. FlagTypes'
    <3>1. UNCHANGED <<undeleted, observing, autoRefresh, background>>
      BY DEF SignOut, app
    <3> QED
      BY <2>1, <3>1, PostType, Zenon DEF TypeOK, FlagTypes
  <2>5. CallTypes'
    BY DEF TypeOK, CallTypes, SignOut, calls
  <2> QED
    BY <2>2, <2>3, <2>4, <2>5, TypePartsNext
<1>3. CASE ~ok
  BY <1>1, <1>3 DEF TypeOK, SignOut, objects, session, refresh, app, calls, Busy
<1> QED
  BY <1>2, <1>3

LEMMA GetTokenType ==
  ASSUME TypeOK, NEW c \in Calls, GetToken(c)
  PROVE  TypeOK'
<1>1. ObjectTypes'
  <2>1. CASE current = None
    BY <2>1 DEF TypeOK, ObjectTypes, GetToken, session, Busy
  <2>2. CASE current # None
    <3>1. current \in Objects /\ tasks' = [tasks EXCEPT ![current] = Append(@, c)]
      BY <2>2 DEF TypeOK, GetToken
    <3>2. /\ tasks' \in [Objects -> Seq(Calls \cup {"timer"})]
          /\ tasks'[current] # <<>>
          /\ \A p \in Objects \ {current} : tasks'[p] = tasks[p]
      BY <3>1, AppendTask DEF TypeOK
    <3> QED
      BY <3>1, <3>2 DEF TypeOK, ObjectTypes, GetToken, session, Busy
  <2> QED
    BY <2>1, <2>2
<1>2. timers' \in [Tokens -> Nat] /\ scheduled' \in BOOLEAN
  BY ScheduleType, CurrentTokenType DEF TypeOK, GetToken, refresh
<1>3. CounterTypes'
  BY <1>2 DEF TypeOK, CounterTypes, GetToken, session
<1>4. FlagTypes'
  BY <1>2, Zenon DEF TypeOK, FlagTypes, GetToken, session
<1>5. CallTypes'
  BY DEF TypeOK, CallTypes, GetToken
<1> QED
  BY <1>1, <1>3, <1>4, <1>5, TypePartsNext

LEMMA TaskType ==
  ASSUME TypeOK, NEW o \in Objects, CachedToken(o) \/ RequestAccessToken(o) \/ ExpiredToken(o)
  PROVE  TypeOK'
<1>1. CASE CachedToken(o)
  <2>1. /\ Tail(tasks[o]) \in Seq(Calls \cup {"timer"})
        /\ Head(tasks[o]) \in Calls
    BY <1>1, TailTask DEF TypeOK, CachedToken, Idle
  <2>2. ObjectTypes'
    BY <1>1, <2>1 DEF TypeOK, ObjectTypes, CachedToken, Idle, session, Busy
  <2>3. CounterTypes' /\ FlagTypes'
    BY <1>1 DEF TypeOK, CounterTypes, FlagTypes, CachedToken, session, refresh, app
  <2>4. CallTypes'
    BY <1>1, <2>1 DEF TypeOK, CallTypes, CachedToken
  <2> QED
    BY <2>2, <2>3, <2>4, TypePartsNext
<1>2. CASE RequestAccessToken(o) \/ ExpiredToken(o)
  <2>1. ObjectTypes'
    BY <1>2 DEF TypeOK, ObjectTypes, RequestAccessToken, ExpiredToken, Idle, session, Busy
  <2>2. CounterTypes' /\ FlagTypes' /\ CallTypes'
    BY <1>2 DEF TypeOK, CounterTypes, FlagTypes, CallTypes, RequestAccessToken, ExpiredToken, session, refresh, app, calls
  <2> QED
    BY <2>1, <2>2, TypePartsNext
<1> QED
  BY <1>1, <1>2

LEMMA NewTokenType ==
  ASSUME TypeOK, NEW o \in Objects, NEW ok \in BOOLEAN, NewToken(o, ok)
  PROVE  TypeOK'
<1>1. Busy(o) /\ FinishTask(o) /\ faults' \in Nat
  BY FaultType DEF NewToken
<1>2. issued + 1 \in Tokens /\ issued + 1 # 0 /\ issued' \in 0 .. MaxTokens
  BY BoundsAssumption DEF TypeOK, NewToken, Tokens
<1>3. current' = current
  BY DEF NewToken, session
<1>4. ObjectTypes'
  BY <1>1, <1>2, <1>3, FinishObjects DEF TypeOK, NewToken
<1>5. timers' \in [Tokens -> Nat] /\ scheduled' \in BOOLEAN /\ lastNotified' \in Tokens \cup {0}
  <2>1. CASE o = current /\ ok
    BY <1>2, <2>1, PostType DEF TypeOK, NewToken
  <2>2. CASE o = current /\ ~ok
    BY <1>2, <2>2, RescheduleType DEF TypeOK, NewToken, session
  <2>3. CASE o # current
    BY <2>3 DEF TypeOK, NewToken, refresh, session
  <2> QED
    BY <2>1, <2>2, <2>3
<1>6. keychain' \in Stored \cup {None}
  <2>1. uid[o] \in Users
    BY <1>1, FinishType DEF TypeOK
  <2> QED
    BY <1>2, <2>1 DEF TypeOK, NewToken, session, Stored
<1>7. CounterTypes'
  BY <1>1, <1>2, <1>5, <1>6 DEF TypeOK, CounterTypes, NewToken, app
<1>8. FlagTypes'
  <2>1. UNCHANGED <<undeleted, observing, autoRefresh, background>>
    BY DEF NewToken, app, session
  <2> QED
    BY <1>5, <2>1, Zenon DEF TypeOK, FlagTypes
<1> QED
  BY <1>1, <1>4, <1>7, <1>8, FinishCalls, TypePartsNext

LEMMA SameOrFailedType ==
  ASSUME TypeOK, NEW o \in Objects, SameToken(o) \/ Failed(o)
  PROVE  TypeOK'
<1>1. Busy(o) /\ FinishTask(o) /\ current' = current /\ token' = token
  BY DEF SameToken, Failed, session
<1>2. ObjectTypes'
  BY <1>1, FinishObjects DEF TypeOK
<1>3. timers' \in [Tokens -> Nat] /\ scheduled' \in BOOLEAN
  <2>1. CASE SameToken(o)
    BY <2>1 DEF TypeOK, SameToken, refresh
  <2>2. CASE Failed(o)
    BY <2>2, CurrentTokenType, RescheduleType DEF Failed
  <2> QED
    BY <2>1, <2>2
<1>4. CounterTypes'
  BY <1>3 DEF TypeOK, CounterTypes, SameToken, Failed, session, app
<1>5. FlagTypes'
  <2>1. UNCHANGED <<undeleted, observing, autoRefresh, background>>
    BY DEF SameToken, Failed, app, session
  <2> QED
    BY <1>3, <2>1, Zenon DEF TypeOK, FlagTypes
<1> QED
  BY <1>1, <1>2, <1>4, <1>5, FinishCalls, TypePartsNext

LEMMA RejectedType ==
  ASSUME TypeOK, NEW o \in Objects, NEW ok \in BOOLEAN, Rejected(o, ok)
  PROVE  TypeOK'
<1>1. Busy(o) /\ FinishTask(o) /\ token' = token /\ faults' \in Nat
  BY FaultType DEF Rejected
<1>2. current' = current \/ current' = None
  BY DEF Rejected, session
<1>3. ObjectTypes'
  BY <1>1, <1>2, FinishObjects DEF TypeOK
<1>4. /\ timers' \in [Tokens -> Nat] /\ scheduled' \in BOOLEAN
      /\ lastNotified' \in Tokens \cup {0} /\ keychain' \in Stored \cup {None}
  <2>1. CASE o = current
    BY <2>1, PostType DEF TypeOK, Rejected
  <2>2. CASE o # current
    BY <2>2, CurrentTokenType, RescheduleType DEF TypeOK, Rejected, session
  <2> QED
    BY <2>1, <2>2
<1>5. CounterTypes'
  BY <1>1, <1>4 DEF TypeOK, CounterTypes, Rejected, app
<1>6. FlagTypes'
  <2>1. UNCHANGED <<observing, autoRefresh, background>>
    BY DEF Rejected, app
  <2>2. undeleted' \in BOOLEAN
    BY Zenon DEF TypeOK, Rejected, session
  <2> QED
    BY <1>4, <2>1, <2>2, Zenon DEF TypeOK, FlagTypes
<1> QED
  BY <1>1, <1>3, <1>5, <1>6, FinishCalls, TypePartsNext

LEMMA TimerType ==
  ASSUME TypeOK, NEW t \in Tokens, TimerFires(t)
  PROVE  TypeOK'
<1>1. timers' \in [Tokens -> Nat]
  BY DEF TypeOK, TimerFires
<1>2. scheduled' \in BOOLEAN
  BY Zenon DEF TypeOK, TimerFires
<1>3. ObjectTypes'
  <2>1. CASE tasks' = tasks
    BY <2>1 DEF TypeOK, ObjectTypes, TimerFires, session, Busy
  <2>2. CASE CurrentToken = t /\ tasks' = [tasks EXCEPT ![current] = Append(@, "timer")]
    <3>1. current \in Objects
      BY <2>2 DEF TypeOK, CurrentToken, Tokens
    <3>2. /\ tasks' \in [Objects -> Seq(Calls \cup {"timer"})]
          /\ tasks'[current] # <<>>
          /\ \A p \in Objects \ {current} : tasks'[p] = tasks[p]
      <4>1. tasks[current] \in Seq(Calls \cup {"timer"}) /\ "timer" \in Calls \cup {"timer"}
        BY <3>1 DEF TypeOK
      <4>2. /\ Append(tasks[current], "timer") \in Seq(Calls \cup {"timer"})
            /\ Append(tasks[current], "timer") # <<>>
        BY <4>1, AppendTask
      <4> QED
        BY <2>2, <3>1, <4>2 DEF TypeOK
    <3>3. current # None
      BY <3>1, NoneAssumption
    <3>4. uid[current] # None /\ UNCHANGED <<current, uid, token, request>>
      BY <3>3 DEF TypeOK, TimerFires, session
    <3> QED
      BY <3>1, <3>2, <3>4 DEF TypeOK, ObjectTypes, Busy
  <2> QED
    BY <2>1, <2>2 DEF TimerFires
<1>4. CounterTypes'
  BY <1>1 DEF TypeOK, CounterTypes, TimerFires, session, app
<1>5. FlagTypes'
  <2>1. UNCHANGED <<undeleted, observing, autoRefresh, background>>
    BY DEF TimerFires, app, session
  <2> QED
    BY <1>2, <2>1, Zenon DEF TypeOK, FlagTypes
<1>6. CallTypes'
  BY DEF TypeOK, CallTypes, TimerFires, calls
<1> QED
  BY <1>3, <1>4, <1>5, <1>6, TypePartsNext

LEMMA AppType ==
  ASSUME TypeOK, DidBecomeActive \/ DidEnterBackground
  PROVE  TypeOK'
<1>1. timers' \in [Tokens -> Nat] /\ scheduled' \in BOOLEAN
  <2>1. CASE DidBecomeActive
    BY <2>1, ScheduleType, CurrentTokenType DEF TypeOK, DidBecomeActive, refresh
  <2>2. CASE DidEnterBackground
    BY <2>2 DEF TypeOK, DidEnterBackground, refresh
  <2> QED
    BY <2>1, <2>2
<1>2. ObjectTypes' /\ CallTypes'
  BY DEF TypeOK, ObjectTypes, CallTypes, DidBecomeActive, DidEnterBackground, objects, session, calls, Busy
<1>3. CounterTypes'
  BY <1>1 DEF TypeOK, CounterTypes, DidBecomeActive, DidEnterBackground, session
<1>4. FlagTypes'
  BY <1>1, Zenon DEF TypeOK, FlagTypes, DidBecomeActive, DidEnterBackground, session
<1> QED
  BY <1>2, <1>3, <1>4, TypePartsNext

LEMMA ReloadType ==
  ASSUME TypeOK, NEW o \in Objects, NEW ok \in BOOLEAN,
         ProtectedDataDidBecomeAvailable(o, ok)
  PROVE  TypeOK'
<1>1. faults' \in Nat /\ observing' \in BOOLEAN /\ UNCHANGED <<app, calls, issued, keychain>>
  BY FaultType DEF ProtectedDataDidBecomeAvailable, session
<1>2. CASE ok /\ keychain = None
  <2>1. PossiblyPost(0) /\ current' = None /\ UNCHANGED <<objects, undeleted>>
    BY <1>2 DEF ProtectedDataDidBecomeAvailable
  <2>2. ObjectTypes' /\ CallTypes'
    BY <1>1, <2>1 DEF TypeOK, ObjectTypes, CallTypes, objects, calls, Busy
  <2>3. CounterTypes'
    BY <1>1, <2>1, PostType DEF TypeOK, CounterTypes, app
  <2>4. FlagTypes'
    BY <1>1, <2>1, PostType, Zenon DEF TypeOK, FlagTypes, app
  <2> QED
    BY <2>2, <2>3, <2>4, TypePartsNext
<1>3. CASE ok /\ keychain # None
  <2>1. /\ PossiblyPost(keychain.token) /\ MakeUser(o, keychain.uid, keychain.token)
        /\ current' = o /\ undeleted' = FALSE
    BY <1>3 DEF ProtectedDataDidBecomeAvailable
  <2>2. keychain.uid \in Users /\ keychain.token \in Tokens /\ keychain.token # 0
    BY <1>3 DEF TypeOK, Stored, Tokens
  <2>3. ObjectTypes'
    BY <2>1, <2>2, NoneAssumption DEF TypeOK, ObjectTypes, MakeUser, Fresh, Busy
  <2>4. CallTypes'
    BY <1>1 DEF TypeOK, CallTypes, calls
  <2>5. CounterTypes'
    BY <1>1, <2>1, <2>2, PostType DEF TypeOK, CounterTypes, app
  <2>6. FlagTypes'
    BY <1>1, <2>1, <2>2, PostType, Zenon DEF TypeOK, FlagTypes, app
  <2> QED
    BY <2>3, <2>4, <2>5, <2>6, TypePartsNext
<1>4. CASE ~ok
  <2>1. UNCHANGED <<objects, session, refresh>>
    BY <1>4 DEF ProtectedDataDidBecomeAvailable
  <2>2. ObjectTypes' /\ CallTypes' /\ CounterTypes'
    BY <1>1, <2>1 DEF TypeOK, ObjectTypes, CallTypes, CounterTypes, objects, session, refresh, app, calls, Busy
  <2>3. FlagTypes'
    BY <1>1, <2>1, Zenon DEF TypeOK, FlagTypes, session, refresh, app
  <2> QED
    BY <2>2, <2>3, TypePartsNext
<1> QED
  BY <1>2, <1>3, <1>4

LEMMA RelaunchType ==
  ASSUME TypeOK, NEW ok \in BOOLEAN, Relaunch(ok)
  PROVE  TypeOK'
<1>1. faults' \in Nat /\ 1 \in Objects
  BY FaultType, BoundsAssumption DEF Relaunch, Objects
<1>2. keychain # None => /\ keychain.uid \in Users /\ keychain.uid # None
                         /\ keychain.token \in Tokens /\ keychain.token # 0
  BY NoneAssumption DEF TypeOK, Stored, Tokens
<1>3. ObjectTypes'
  BY <1>1, <1>2 DEF TypeOK, ObjectTypes, Relaunch, Busy
<1>4. CounterTypes'
  BY <1>1, <1>2 DEF TypeOK, CounterTypes, Relaunch
<1>5. FlagTypes'
  <2>1. observing' = ~ok /\ scheduled' = FALSE /\ autoRefresh' = FALSE /\ background' = FALSE
    BY DEF Relaunch
  <2>2. undeleted' \in BOOLEAN
    BY Zenon DEF Relaunch
  <2> QED
    BY <2>1, <2>2, Zenon DEF FlagTypes
<1>6. CallTypes'
  BY DEF TypeOK, CallTypes, Relaunch
<1> QED
  BY <1>3, <1>4, <1>5, <1>6, TypePartsNext

LEMMA TypeStep == TypeOK /\ [Next]_vars => TypeOK'
<1> SUFFICES ASSUME TypeOK, [Next]_vars PROVE TypeOK'
  OBVIOUS
<1>1. ASSUME NEW c \in Calls, Deliver(c) PROVE TypeOK'
  BY <1>1 DEF TypeOK, Deliver, objects, session, refresh, app, Busy
<1>2. CASE UNCHANGED vars
  BY <1>2 DEF TypeOK, vars, objects, session, refresh, app, calls, Busy
<1> QED
  BY <1>1, <1>2, SignInType, SignOutType, GetTokenType, TaskType, NewTokenType,
     SameOrFailedType, RejectedType, TimerType, AppType, ReloadType, RelaunchType
  DEF Next, Answered

\* Every variable keeps its type.
THEOREM TypeCorrect == Spec => []TypeOK
BY InitType, TypeStep, PTL DEF Spec

-----------------------------------------------------------------------------
(* The session and its copy on disk                                        *)

\* A step that leaves the session alone, and the current user's token too
\* unless there has been a fault, keeps the invariant.
LEMMA SessionKept ==
  ASSUME TypeOK, SessionInv, UNCHANGED session,
         issued' >= issued, issued' \in Nat, faults' \in Nat, faults' >= faults,
         current # None => uid'[current] = uid[current],
         faults' = 0 /\ current # None => token'[current] = token[current],
         observing' = observing
  PROVE  SessionInv'
<1>1. KnownTokens'
  BY DEF TypeOK, SessionInv, KnownTokens, session, Stored, Tokens
<1>2. ObserverNeedsFault'
  BY DEF TypeOK, SessionInv, ObserverNeedsFault
<1>3. SessionIsStored'
  BY DEF SessionInv, SessionIsStored, session
<1>4. ListenersKnowStored'
  BY DEF TypeOK, SessionInv, ListenersKnowStored, CurrentToken, session
<1> QED
  BY <1>1, <1>2, <1>3, <1>4 DEF SessionInv

\* A user who becomes current, or whose new token is saved, is stored with
\* the token the listeners are told.
LEMMA SessionSaved ==
  ASSUME TypeOK, SessionInv,
         NEW o \in Objects, NEW u \in Users, NEW t \in Tokens, t <= issued',
         current' = o, uid'[o] = u, token'[o] = t,
         keychain' = [uid |-> u, token |-> t], lastNotified' = t,
         faults' >= faults, faults' \in Nat, issued' \in Nat,
         observing' => observing
  PROVE  SessionInv'
<1>1. o # None /\ keychain' # None
  BY NoneAssumption DEF Stored
<1>2. KnownTokens' /\ SessionIsStored' /\ ListenersKnowStored'
  BY <1>1 DEF KnownTokens, SessionIsStored, ListenersKnowStored, CurrentToken
<1>3. ObserverNeedsFault'
  BY DEF TypeOK, SessionInv, ObserverNeedsFault
<1> QED
  BY <1>2, <1>3 DEF SessionInv

\* Nobody is signed in any more.
LEMMA SessionEnded ==
  ASSUME TypeOK, SessionInv, current' = None, lastNotified' = 0,
         keychain' = None \/ (keychain' = keychain /\ (observing' \/ undeleted')),
         faults' \in Nat, issued' = issued, faults' = 0 => ~observing'
  PROVE  SessionInv'
<1>1. KnownTokens'
  BY DEF TypeOK, SessionInv, KnownTokens
<1>2. SessionIsStored' /\ ListenersKnowStored' /\ ObserverNeedsFault'
  BY DEF SessionIsStored, ListenersKnowStored, CurrentToken, ObserverNeedsFault
<1> QED
  BY <1>1, <1>2 DEF SessionInv

LEMMA InitSession == Init => SessionInv
BY DEF Init, NoObjects, SessionInv, KnownTokens, ObserverNeedsFault,
       SessionIsStored, ListenersKnowStored, CurrentToken

LEMMA FaultCount ==
  ASSUME TypeOK, NEW ok \in BOOLEAN, CountFault(ok)
  PROVE  faults' \in Nat /\ faults' >= faults /\ (~ok => faults' # 0) /\ (ok => faults' = faults)
BY DEF TypeOK, CountFault

LEMMA SignInSession ==
  ASSUME TypeOK, SessionInv, NEW u \in Users, NEW o \in Objects, NEW ok \in BOOLEAN,
         SignIn(u, o, ok)
  PROVE  SessionInv'
<1>1. /\ issued + 1 \in Tokens /\ issued' = issued + 1 /\ issued \in Nat
      /\ observing' = observing
  BY BoundsAssumption DEF TypeOK, SignIn, Tokens
<1>2. faults' \in Nat /\ faults' >= faults
  BY FaultCount DEF SignIn
<1>3. CASE ok
  <2>1. /\ current' = o /\ uid'[o] = u /\ token'[o] = issued + 1
        /\ keychain' = [uid |-> u, token |-> issued + 1]
        /\ lastNotified' = issued + 1
    BY <1>3 DEF TypeOK, SignIn, MakeUser, PossiblyPost
  <2> QED
    BY <1>1, <1>2, <2>1, SessionSaved
<1>4. CASE ~ok
  <2>1. UNCHANGED <<session, uid, token>>
    BY <1>4 DEF SignIn, objects
  <2> QED
    BY <1>1, <1>2, <2>1, SessionKept
<1> QED
  BY <1>3, <1>4

LEMMA SignOutSession ==
  ASSUME TypeOK, SessionInv, NEW ok \in BOOLEAN, SignOut(ok)
  PROVE  SessionInv'
<1>1. faults' \in Nat /\ faults' >= faults /\ issued' = issued /\ observing' = observing
  BY FaultCount DEF SignOut
<1>2. CASE ok
  <2>1. current' = None /\ keychain' = None /\ lastNotified' = 0
    BY <1>2 DEF SignOut, PossiblyPost
  <2>2. faults' = 0 => ~observing'
    BY <1>1 DEF TypeOK, SessionInv, ObserverNeedsFault
  <2> QED
    BY <1>1, <2>1, <2>2, SessionEnded
<1>3. CASE ~ok
  <2>1. UNCHANGED <<session, uid, token>>
    BY <1>3 DEF SignOut, objects, session
  <2>2. issued \in Nat
    BY DEF TypeOK
  <2> QED
    BY <1>1, <2>1, <2>2, SessionKept
<1> QED
  BY <1>2, <1>3

LEMMA NewTokenSession ==
  ASSUME TypeOK, SessionInv, NEW o \in Objects, NEW ok \in BOOLEAN, NewToken(o, ok)
  PROVE  SessionInv'
<1>1. /\ issued + 1 \in Tokens /\ issued' = issued + 1 /\ issued \in Nat
      /\ observing' = observing /\ uid' = uid
      /\ token' = [token EXCEPT ![o] = issued + 1]
  BY BoundsAssumption DEF TypeOK, NewToken, Tokens, FinishTask
<1>2. faults' \in Nat /\ faults' >= faults /\ (~ok => faults' # 0)
  BY FaultCount DEF NewToken
<1>3. CASE o = current /\ ok
  <2>1. /\ current' = o /\ lastNotified' = issued + 1
        /\ keychain' = [uid |-> uid[o], token |-> issued + 1]
    BY <1>3 DEF NewToken, PossiblyPost
  <2>2. token'[o] = issued + 1
    BY <1>1 DEF TypeOK
  <2>3. uid[o] \in Users
    BY <1>3, NoneAssumption DEF TypeOK
  <2> QED
    BY <1>1, <1>2, <2>1, <2>2, <2>3, SessionSaved
<1>4. CASE ~(o = current /\ ok)
  <2>1. UNCHANGED session
    BY <1>4 DEF NewToken
  <2>2. faults' = 0 /\ current # None => token'[current] = token[current]
    <3>1. CASE o = current
      BY <1>2, <1>4, <3>1
    <3>2. CASE o # current
      BY <1>1, <3>2 DEF TypeOK
    <3> QED
      BY <3>1, <3>2
  <2> QED
    BY <1>1, <1>2, <2>1, <2>2, SessionKept
<1> QED
  BY <1>3, <1>4

LEMMA RejectedSession ==
  ASSUME TypeOK, SessionInv, NEW o \in Objects, NEW ok \in BOOLEAN, Rejected(o, ok)
  PROVE  SessionInv'
<1>1. /\ issued' = issued /\ issued \in Nat /\ observing' = observing
      /\ uid' = uid /\ token' = token
  BY DEF TypeOK, Rejected, FinishTask
<1>2. faults' \in Nat /\ faults' >= faults /\ (~ok => faults' # 0)
  BY FaultCount DEF Rejected
<1>3. CASE o = current
  <2>1. /\ current' = None /\ lastNotified' = 0
        /\ keychain' = IF ok THEN None ELSE keychain
        /\ undeleted' = ~ok
    BY <1>3, NoneAssumption DEF Rejected, PossiblyPost
  <2>2. faults' = 0 => ~observing'
    BY <1>1, <1>2 DEF TypeOK, SessionInv, ObserverNeedsFault
  <2>3. keychain' = None \/ (keychain' = keychain /\ undeleted')
    BY <2>1
  <2> QED
    BY <1>1, <1>2, <2>1, <2>2, <2>3, SessionEnded
<1>4. CASE o # current
  <2>1. UNCHANGED session
    BY <1>4 DEF Rejected
  <2> QED
    BY <1>1, <1>2, <2>1, SessionKept
<1> QED
  BY <1>3, <1>4

LEMMA ReloadSession ==
  ASSUME TypeOK, SessionInv, NEW o \in Objects, NEW ok \in BOOLEAN,
         ProtectedDataDidBecomeAvailable(o, ok)
  PROVE  SessionInv'
<1>1. /\ issued' = issued /\ issued \in Nat /\ observing /\ observing' = ~ok
      /\ keychain' = keychain
  BY DEF TypeOK, ProtectedDataDidBecomeAvailable, session
<1>2. faults' \in Nat /\ faults' >= faults /\ (~ok => faults' # 0)
  BY FaultCount DEF ProtectedDataDidBecomeAvailable
<1>3. CASE ok /\ keychain = None
  <2>1. current' = None /\ lastNotified' = 0
    BY <1>3 DEF ProtectedDataDidBecomeAvailable, PossiblyPost
  <2> QED
    BY <1>1, <1>2, <1>3, <2>1, SessionEnded
<1>4. CASE ok /\ keychain # None
  <2>1. /\ current' = o /\ lastNotified' = keychain.token
        /\ uid'[o] = keychain.uid /\ token'[o] = keychain.token
    BY <1>4 DEF TypeOK, ProtectedDataDidBecomeAvailable, PossiblyPost, MakeUser
  <2>2. /\ keychain.uid \in Users /\ keychain.token \in Tokens
        /\ keychain = [uid |-> keychain.uid, token |-> keychain.token]
        /\ keychain.token <= issued
    BY <1>4 DEF TypeOK, Stored, SessionInv, KnownTokens
  <2>3. keychain' = [uid |-> keychain.uid, token |-> keychain.token]
    BY <1>1, <2>2
  <2> QED
    BY <1>1, <1>2, <2>1, <2>2, <2>3, SessionSaved
<1>5. CASE ~ok
  <2>1. UNCHANGED <<session, uid, token>>
    BY <1>5 DEF ProtectedDataDidBecomeAvailable, objects
  <2>2. observing \in BOOLEAN
    BY DEF TypeOK
  <2>3. observing' = observing
    BY <1>1, <1>5, <2>2, Zenon
  <2>4. issued' = issued /\ issued \in Nat
    BY DEF TypeOK, ProtectedDataDidBecomeAvailable
  <2> QED
    BY <1>2, <2>1, <2>3, <2>4, SessionKept
<1> QED
  BY <1>3, <1>4, <1>5

LEMMA RelaunchSession ==
  ASSUME TypeOK, SessionInv, NEW ok \in BOOLEAN, Relaunch(ok)
  PROVE  SessionInv'
<1>1. issued' = issued /\ issued \in Nat /\ keychain' = keychain /\ observing' = ~ok
  BY DEF TypeOK, Relaunch
<1>2. faults' \in Nat /\ faults' >= faults /\ (~ok => faults' # 0) /\ 1 \in Objects
  BY FaultCount, BoundsAssumption DEF Relaunch, Objects
<1>3. CASE ok /\ keychain # None
  <2>1. /\ current' = 1 /\ lastNotified' = keychain.token
        /\ uid'[1] = keychain.uid /\ token'[1] = keychain.token
    BY <1>2, <1>3 DEF Relaunch
  <2>2. /\ keychain.uid \in Users /\ keychain.token \in Tokens
        /\ keychain = [uid |-> keychain.uid, token |-> keychain.token]
        /\ keychain.token <= issued
    BY <1>3 DEF TypeOK, Stored, SessionInv, KnownTokens
  <2>3. keychain' = [uid |-> keychain.uid, token |-> keychain.token]
    BY <1>1, <2>2
  <2>4. observing' => observing
    BY <1>1, <1>3
  <2> QED
    BY <1>1, <1>2, <2>1, <2>2, <2>3, <2>4, SessionSaved
<1>4. CASE ~(ok /\ keychain # None)
  <2>1. current' = None /\ lastNotified' = 0
    BY <1>4 DEF Relaunch
  <2>2. keychain' = None \/ (keychain' = keychain /\ observing')
    BY <1>1, <1>4
  <2>3. faults' = 0 => ~observing'
    BY <1>1, <1>2
  <2> QED
    BY <1>1, <1>2, <2>1, <2>2, <2>3, SessionEnded
<1> QED
  BY <1>3, <1>4

LEMMA OtherSession ==
  ASSUME TypeOK, SessionInv,
         \/ \E c \in Calls : GetToken(c) \/ Deliver(c)
         \/ \E o \in Objects : \/ CachedToken(o) \/ RequestAccessToken(o)
                              \/ ExpiredToken(o) \/ SameToken(o) \/ Failed(o)
         \/ \E t \in Tokens : TimerFires(t)
         \/ DidBecomeActive \/ DidEnterBackground
         \/ UNCHANGED vars
  PROVE  SessionInv'
<1>1. /\ UNCHANGED session /\ uid' = uid /\ token' = token
      /\ observing' = observing /\ issued' = issued /\ faults' \in {faults, faults + 1}
  BY DEF GetToken, Deliver, CachedToken, RequestAccessToken, ExpiredToken,
         SameToken, Failed, FinishTask, TimerFires, DidBecomeActive,
         DidEnterBackground, vars, objects
<1>2. issued \in Nat /\ faults \in Nat
  BY DEF TypeOK
<1> QED
  BY <1>1, <1>2, SessionKept

LEMMA SessionStep == TypeOK /\ SessionInv /\ [Next]_vars => SessionInv'
BY SignInSession, SignOutSession, NewTokenSession, RejectedSession, ReloadSession,
   RelaunchSession, OtherSession
DEF Next, Answered

\* Memory, keychain and listeners agree through sign-ins, sign-outs, late
\* answers, keychain errors and launches: SessionInv holds in every reachable
\* state.
THEOREM SessionInvariant == Spec => []SessionInv
BY InitType, TypeStep, InitSession, SessionStep, PTL DEF Spec

\* What the next launch restores is who is signed in now: SessionIsStored holds
\* in every reachable state.
THEOREM SessionPersists == Spec => []SessionIsStored
<1>1. SessionInv => SessionIsStored
  BY DEF SessionInv
<1> QED
  BY <1>1, SessionInvariant, PTL

\* The listeners have been told the token on disk: ListenersKnowStored holds in
\* every reachable state.
THEOREM ListenersInformed == Spec => []ListenersKnowStored
<1>1. SessionInv => ListenersKnowStored
  BY DEF SessionInv
<1> QED
  BY <1>1, SessionInvariant, PTL

\* Late answers are harmless.
THEOREM LateAnswers == Spec => LateAnswerIsHarmless
<1>1. ASSUME NEW o \in Objects, o # current, Answered(o)
      PROVE  UNCHANGED session
  BY <1>1 DEF Answered, ExpiredToken, SameToken, Failed, NewToken, Rejected, session
<1>2. [Next]_vars => [\A o \in Objects : o # current /\ Answered(o) => UNCHANGED session]_vars
  BY <1>1
<1> QED
  BY <1>2, PTL DEF Spec, LateAnswerIsHarmless

-----------------------------------------------------------------------------
(* Automatic refresh                                                       *)

\* The current user's timer or task, once there is one, stays while the token
\* does and the steps only add timers and other tasks.
RefreshDue == \/ timers[token[current]] > 0
              \/ \E i \in DOMAIN tasks[current] : tasks[current][i] = "timer"

LEMMA RefreshMeaning ==
  RefreshIsComing <=>
    (faults = 0 /\ autoRefresh /\ current # None =>
       /\ scheduled => timers[token[current]] > 0
       /\ ~background => RefreshDue)
BY DEF RefreshIsComing, RefreshDue, Queued

LEMMA RefreshMeaningNext ==
  RefreshIsComing' <=>
    (faults' = 0 /\ autoRefresh' /\ current' # None =>
       /\ scheduled' => timers'[token'[current']] > 0
       /\ ~background' => \/ timers'[token'[current']] > 0
                          \/ \E i \in DOMAIN tasks'[current'] : tasks'[current'][i] = "timer")
BY DEF RefreshIsComing, Queued

\* A timer was just set for the current user's token.
LEMMA RefreshSet ==
  ASSUME timers'[token'[current']] > 0
  PROVE  RefreshIsComing'
BY RefreshMeaningNext

\* No timer or timer's task of the current user is lost.
LEMMA RefreshKept ==
  ASSUME TypeOK, RefreshIsComing,
         faults' = 0 => faults = 0,
         faults' = 0 /\ autoRefresh' => autoRefresh,
         current' = current, token' = token,
         background' = background,
         \/ scheduled' = scheduled /\ timers' = timers
         \/ current # None /\ timers'[token[current]] > 0,
         current # None =>
           ((\E i \in DOMAIN tasks[current] : tasks[current][i] = "timer") =>
             \/ timers'[token[current]] > 0
             \/ \E i \in DOMAIN tasks'[current] : tasks'[current][i] = "timer")
  PROVE  RefreshIsComing'
BY RefreshMeaning, RefreshMeaningNext DEF RefreshDue

\* Scheduling only adds timers.
LEMMA ScheduleAdds ==
  ASSUME TypeOK, NEW tok \in Tokens \cup {0}, Schedule(tok)
  PROVE  /\ tok # 0 => timers'[tok] > 0
         /\ tok = 0 => UNCHANGED <<scheduled, timers>>
<1>1. CASE tok = 0
  BY <1>1 DEF Schedule, refresh
<1>2. CASE tok # 0
  <2>1. tok \in Tokens /\ timers' = [timers EXCEPT ![tok] = @ + 1]
    BY <1>2 DEF Schedule
  <2>2. timers \in [Tokens -> Nat]
    BY DEF TypeOK
  <2> QED
    BY <1>2, <2>1, <2>2
<1> QED
  BY <1>1, <1>2

LEMMA CurrentHasToken ==
  ASSUME TypeOK, current # None
  PROVE  current \in Objects /\ CurrentToken = token[current] /\ token[current] \in Tokens
BY DEF TypeOK, CurrentToken, Tokens

LEMMA PostSets ==
  ASSUME TypeOK, NEW tok \in Tokens, PossiblyPost(tok), tok # lastNotified, autoRefresh
  PROVE  timers'[tok] > 0
BY ScheduleAdds DEF PossiblyPost, Tokens

LEMMA SignInRefresh ==
  ASSUME IInv, NEW u \in Users, NEW o \in Objects, NEW ok \in BOOLEAN, SignIn(u, o, ok)
  PROVE  RefreshIsComing'
<1>1. issued + 1 \in Tokens /\ issued + 1 # lastNotified /\ autoRefresh' = autoRefresh
  BY BoundsAssumption DEF IInv, TypeOK, SessionInv, KnownTokens, SignIn, Tokens, app
<1>2. CASE ok /\ autoRefresh
  <2>1. PossiblyPost(issued + 1) /\ current' = o /\ token'[o] = issued + 1
    BY <1>2 DEF SignIn, MakeUser, IInv, TypeOK
  <2> QED
    BY <1>1, <1>2, <2>1, PostSets, RefreshSet DEF IInv
<1>3. CASE ~ok
  <2>1. faults' # 0
    BY <1>3, FaultCount DEF SignIn, IInv
  <2> QED
    BY <2>1, RefreshMeaningNext
<1>4. CASE ~autoRefresh
  BY <1>1, <1>4, RefreshMeaningNext
<1> QED
  BY <1>2, <1>3, <1>4

LEMMA GetTokenRefresh ==
  ASSUME IInv, NEW c \in Calls, GetToken(c)
  PROVE  RefreshIsComing'
<1>1. UNCHANGED <<current, token, faults, background>>
  BY DEF GetToken, session
<1>2. CASE current = None
  BY <1>1, <1>2, RefreshMeaningNext
<1>3. CASE current # None /\ ~autoRefresh
  <2>1. Schedule(CurrentToken) /\ CurrentToken = token[current] /\ CurrentToken \in Tokens
    BY <1>3, CurrentHasToken DEF GetToken, IInv
  <2>2. timers'[token'[current']] > 0
    BY <1>1, <2>1, ScheduleAdds DEF IInv, Tokens
  <2> QED
    BY <2>2, RefreshSet
<1>4. CASE current # None /\ autoRefresh
  <2>1. UNCHANGED refresh /\ tasks'[current] = Append(tasks[current], c)
    BY <1>4 DEF GetToken, IInv, TypeOK
  <2>2. tasks[current] \in Seq(Calls \cup {"timer"}) /\ c \in Calls \cup {"timer"}
    BY <1>4 DEF IInv, TypeOK
  <2>3. (\E i \in DOMAIN tasks[current] : tasks[current][i] = "timer") =>
          \E i \in DOMAIN tasks'[current] : tasks'[current][i] = "timer"
    BY <2>1, <2>2, AppendTask
  <2> QED
    BY <1>1, <1>4, <2>1, <2>3, RefreshKept DEF IInv, refresh
<1> QED
  BY <1>2, <1>3, <1>4

\* The head of a queue is taken off: only a timer's own task is lost by it.
LEMMA TaskTaken ==
  ASSUME TypeOK, NEW o \in Objects, tasks[o] # <<>>,
         tasks' = [tasks EXCEPT ![o] = Tail(@)],
         current # None, o # current \/ Head(tasks[o]) # "timer",
         \E i \in DOMAIN tasks[current] : tasks[current][i] = "timer"
  PROVE  \E i \in DOMAIN tasks'[current] : tasks'[current][i] = "timer"
<1>1. CASE o = current
  <2>1. tasks'[current] = Tail(tasks[current]) /\ tasks[current] \in Seq(Calls \cup {"timer"})
    BY <1>1 DEF TypeOK
  <2>2. tasks[current] # <<>> /\ Head(tasks[current]) # "timer"
    BY <1>1
  <2>3. \E i \in DOMAIN Tail(tasks[current]) : Tail(tasks[current])[i] = "timer"
    BY <2>1, <2>2, TailKeeps
  <2> QED
    BY <2>1, <2>3
<1>2. CASE o # current
  BY <1>2 DEF TypeOK
<1> QED
  BY <1>1, <1>2

LEMMA CachedTokenRefresh ==
  ASSUME IInv, NEW o \in Objects, CachedToken(o)
  PROVE  RefreshIsComing'
<1>1. /\ UNCHANGED <<current, token, faults, background, autoRefresh, scheduled, timers>>
      /\ tasks' = [tasks EXCEPT ![o] = Tail(@)] /\ tasks[o] # <<>>
      /\ Head(tasks[o]) # "timer"
  BY DEF CachedToken, Idle, session, app, refresh
<1> QED
  BY <1>1, TaskTaken, RefreshKept DEF IInv

LEMMA NewTokenRefresh ==
  ASSUME IInv, NEW o \in Objects, NEW ok \in BOOLEAN, NewToken(o, ok)
  PROVE  RefreshIsComing'
<1>1. /\ issued + 1 \in Tokens /\ issued + 1 # lastNotified
      /\ UNCHANGED <<autoRefresh, background, current>>
  BY BoundsAssumption DEF IInv, TypeOK, SessionInv, KnownTokens, NewToken, Tokens, app, session
<1>2. /\ Busy(o) /\ FinishTask(o) /\ token' = [token EXCEPT ![o] = issued + 1]
      /\ (~ok => faults' # 0) /\ (ok => faults' = faults)
  BY FaultCount DEF NewToken, IInv
<1>3. CASE o = current /\ ok /\ autoRefresh
  <2>1. PossiblyPost(issued + 1) /\ token'[current'] = issued + 1
    BY <1>1, <1>2, <1>3 DEF NewToken, IInv, TypeOK
  <2> QED
    BY <1>1, <1>3, <2>1, PostSets, RefreshSet DEF IInv
<1>4. CASE ~ok \/ ~autoRefresh \/ current = None
  BY <1>1, <1>2, <1>4, RefreshMeaningNext
<1>5. CASE o # current /\ ok /\ current # None
  <2>1. UNCHANGED refresh /\ token'[current] = token[current]
    BY <1>2, <1>5 DEF NewToken, IInv, TypeOK
  <2>2. tasks' = [tasks EXCEPT ![o] = Tail(@)] /\ tasks'[current] = tasks[current]
    BY <1>2, <1>5 DEF FinishTask, IInv, TypeOK
  <2> QED
    BY <1>1, <1>2, <2>1, <2>2, RefreshMeaning, RefreshMeaningNext DEF IInv, refresh, RefreshDue
<1> QED
  BY <1>3, <1>4, <1>5

\* An error is followed by another timer if it was the current user's timer's.
LEMMA ErrorRefresh ==
  ASSUME IInv, NEW o \in Objects, Busy(o), FinishTask(o),
         UNCHANGED <<current, token, autoRefresh, background>>, faults' = 0 => faults = 0,
         RescheduleOnError(o, CurrentToken)
  PROVE  RefreshIsComing'
<1>1. CASE current = None
  BY <1>1, RefreshMeaningNext
<1>2. CASE current # None /\ Head(tasks[o]) = "timer" /\ uid[current] = uid[o]
  <2>1. Schedule(CurrentToken) /\ CurrentToken = token[current] /\ CurrentToken \in Tokens
    BY <1>2, CurrentHasToken DEF RescheduleOnError, IInv
  <2>2. timers'[token'[current']] > 0
    BY <2>1, ScheduleAdds DEF IInv, Tokens
  <2> QED
    BY <2>2, RefreshSet
<1>3. CASE current # None /\ ~(Head(tasks[o]) = "timer" /\ uid[current] = uid[o])
  <2>1. UNCHANGED <<scheduled, timers>>
    BY <1>3 DEF RescheduleOnError, refresh
  <2>2. o # current \/ Head(tasks[o]) # "timer"
    BY <1>3
  <2>3. tasks' = [tasks EXCEPT ![o] = Tail(@)] /\ tasks[o] # <<>>
    BY DEF FinishTask, Busy, IInv, TypeOK
  <2> QED
    BY <1>3, <2>1, <2>2, <2>3, TaskTaken, RefreshKept DEF IInv
<1> QED
  BY <1>1, <1>2, <1>3

LEMMA RejectedRefresh ==
  ASSUME IInv, NEW o \in Objects, NEW ok \in BOOLEAN, Rejected(o, ok)
  PROVE  RefreshIsComing'
<1>1. CASE o = current
  <2>1. current' = None
    BY <1>1 DEF Rejected
  <2> QED
    BY <2>1, RefreshMeaningNext
<1>2. CASE o # current
  <2>1. /\ Busy(o) /\ FinishTask(o) /\ RescheduleOnError(o, CurrentToken)
        /\ UNCHANGED <<current, token, autoRefresh, background, faults>>
    BY <1>2, FaultCount DEF Rejected, session, app, IInv
  <2> QED
    BY <2>1, ErrorRefresh
<1> QED
  BY <1>1, <1>2

LEMMA TimerRefresh ==
  ASSUME IInv, NEW t \in Tokens, TimerFires(t)
  PROVE  RefreshIsComing'
<1>1. /\ UNCHANGED <<current, token, autoRefresh, background, faults>>
      /\ timers' = [timers EXCEPT ![t] = @ - 1]
  BY DEF TimerFires, session, app
<1>2. CASE current = None
  BY <1>1, <1>2, RefreshMeaningNext
<1>3. CASE current # None /\ token[current] # t
  <2>1. scheduled' = scheduled /\ tasks' = tasks /\ timers'[token[current]] = timers[token[current]]
    BY <1>1, <1>3, CurrentHasToken DEF TimerFires, IInv, TypeOK
  <2> QED
    BY <1>1, <2>1, RefreshMeaning, RefreshMeaningNext DEF IInv, RefreshDue
<1>4. CASE current # None /\ token[current] = t
  <2>1. CurrentToken = t /\ scheduled' = FALSE /\ current \in Objects
    BY <1>4, CurrentHasToken DEF TimerFires, IInv
  <2>2. CASE background
    BY <1>1, <2>1, <2>2, RefreshMeaningNext
  <2>3. CASE ~background
    <3>1. tasks'[current] = Append(tasks[current], "timer")
      BY <2>1, <2>3 DEF TimerFires, IInv, TypeOK
    <3>2. tasks[current] \in Seq(Calls \cup {"timer"}) /\ "timer" \in Calls \cup {"timer"}
      BY <2>1 DEF IInv, TypeOK
    <3>3. \E i \in DOMAIN tasks'[current] : tasks'[current][i] = "timer"
      BY <3>1, <3>2, AppendTask
    <3> QED
      BY <1>1, <2>1, <3>3, RefreshMeaningNext
  <2> QED
    BY <2>2, <2>3
<1> QED
  BY <1>2, <1>3, <1>4

LEMMA AppRefresh ==
  ASSUME IInv, DidBecomeActive \/ DidEnterBackground
  PROVE  RefreshIsComing'
<1>1. UNCHANGED <<current, token, tasks, autoRefresh, faults>>
  BY DEF DidBecomeActive, DidEnterBackground, objects, session
<1>2. CASE current = None
  BY <1>1, <1>2, RefreshMeaningNext
<1>3. CASE current # None /\ DidEnterBackground
  BY <1>1, <1>3, RefreshMeaning, RefreshMeaningNext DEF IInv, DidEnterBackground, refresh
<1>4. CASE current # None /\ DidBecomeActive /\ scheduled
  BY <1>1, <1>4, RefreshMeaning, RefreshMeaningNext DEF IInv, DidBecomeActive, refresh
<1>5. CASE current # None /\ DidBecomeActive /\ ~scheduled
  <2>1. Schedule(CurrentToken) /\ CurrentToken = token[current] /\ CurrentToken \in Tokens
    BY <1>5, CurrentHasToken DEF DidBecomeActive, IInv
  <2>2. timers'[token'[current']] > 0
    BY <1>1, <2>1, ScheduleAdds DEF IInv, Tokens
  <2> QED
    BY <2>2, RefreshSet
<1> QED
  BY <1>2, <1>3, <1>4, <1>5

LEMMA OtherRefresh ==
  ASSUME IInv,
         \/ \E c \in Calls : Deliver(c)
         \/ \E o \in Objects : RequestAccessToken(o) \/ ExpiredToken(o)
         \/ UNCHANGED vars
  PROVE  RefreshIsComing'
<1>1. UNCHANGED <<current, token, tasks, autoRefresh, background, scheduled, timers, faults>>
  BY DEF Deliver, RequestAccessToken, ExpiredToken, vars, objects, session, refresh, app
<1> QED
  BY <1>1, RefreshKept DEF IInv

LEMMA FaultRefresh ==
  ASSUME IInv, \/ \E o \in Objects : SameToken(o)
               \/ \E ok \in BOOLEAN : SignOut(ok) \/ Relaunch(ok)
               \/ \E o \in Objects, ok \in BOOLEAN : ProtectedDataDidBecomeAvailable(o, ok)
  PROVE  RefreshIsComing'
<1>1. ASSUME NEW o \in Objects, SameToken(o) PROVE faults' # 0
  BY <1>1 DEF SameToken, IInv, TypeOK
<1>2. ASSUME NEW ok \in BOOLEAN, SignOut(ok) PROVE faults' # 0 \/ current' = None
  BY <1>2, FaultCount DEF SignOut, IInv
<1>3. ASSUME NEW ok \in BOOLEAN, Relaunch(ok) PROVE ~autoRefresh'
  BY <1>3 DEF Relaunch
<1>4. ASSUME NEW o \in Objects, NEW ok \in BOOLEAN, ProtectedDataDidBecomeAvailable(o, ok)
      PROVE  faults' # 0
  BY <1>4, FaultCount DEF ProtectedDataDidBecomeAvailable, IInv, TypeOK, SessionInv, ObserverNeedsFault
<1> QED
  BY <1>1, <1>2, <1>3, <1>4, RefreshMeaningNext

LEMMA RefreshStep == IInv /\ [Next]_vars => RefreshIsComing'
<1> SUFFICES ASSUME IInv, [Next]_vars PROVE RefreshIsComing'
  OBVIOUS
<1>1. ASSUME NEW o \in Objects, Failed(o) PROVE RefreshIsComing'
  <2>1. /\ Busy(o) /\ FinishTask(o) /\ RescheduleOnError(o, CurrentToken)
        /\ UNCHANGED <<current, token, autoRefresh, background, faults>>
    BY <1>1 DEF Failed, session, app
  <2> QED
    BY <2>1, ErrorRefresh
<1> QED
  BY <1>1, SignInRefresh, GetTokenRefresh, CachedTokenRefresh, NewTokenRefresh,
     RejectedRefresh, TimerRefresh, AppRefresh, OtherRefresh, FaultRefresh
  DEF Next, Answered

\* Without faults a refresh is always coming: RefreshIsComing holds in every
\* reachable state.
THEOREM RefreshComes == Spec => []RefreshIsComing
<1>1. Init => IInv
  <2>1. Init => RefreshIsComing
    BY DEF Init, RefreshIsComing
  <2> QED
    BY <2>1, InitType, InitSession DEF IInv
<1>2. IInv /\ [Next]_vars => IInv'
  BY TypeStep, SessionStep, RefreshStep DEF IInv
<1>3. IInv => RefreshIsComing
  BY DEF IInv
<1> QED
  BY <1>1, <1>2, <1>3, PTL DEF Spec

-----------------------------------------------------------------------------
(* The flag _autoRefreshScheduled.  ScheduledMeansTimer fails, but only     *)
(* after a fault.                                                           *)

\* Before the first getTokenForcingRefresh of a launch there is no timer, no
\* flag, and no task that would set one.
NoTimerYet ==
  ~autoRefresh =>
    /\ ~scheduled
    /\ \A t \in Tokens : timers[t] = 0
    /\ \A o \in Objects : \A i \in DOMAIN tasks[o] : tasks[o][i] # "timer"

\* Without automatic refresh a finished task sets no timer.
LEMMA FinishWithoutTimer ==
  ASSUME TypeOK, NoTimerYet, ~autoRefresh, NEW o \in Objects, tasks[o] # <<>>,
         tasks' = [tasks EXCEPT ![o] = Tail(@)]
  PROVE  /\ Head(tasks[o]) # "timer"
         /\ \A p \in Objects : \A i \in DOMAIN tasks'[p] : tasks'[p][i] # "timer"
<1>1. /\ tasks[o] \in Seq(Calls \cup {"timer"}) /\ tasks'[o] = Tail(tasks[o])
      /\ \A p \in Objects \ {o} : tasks'[p] = tasks[p]
  BY DEF TypeOK
<1>2. /\ Len(tasks[o]) \in Nat \ {0} /\ DOMAIN tasks[o] = 1 .. Len(tasks[o])
      /\ DOMAIN tasks'[o] = 1 .. Len(tasks[o]) - 1
      /\ \A i \in 1 .. Len(tasks[o]) - 1 : tasks'[o][i] = tasks[o][i + 1]
      /\ Head(tasks[o]) = tasks[o][1]
  BY <1>1, TailFacts
<1>3. \A i \in DOMAIN tasks[o] : tasks[o][i] # "timer"
  BY DEF NoTimerYet
<1>4. 1 \in DOMAIN tasks[o] /\ \A i \in 1 .. Len(tasks[o]) - 1 : i + 1 \in DOMAIN tasks[o]
  BY <1>2
<1> QED
  BY <1>1, <1>2, <1>3, <1>4 DEF NoTimerYet

LEMMA NoTimerStep == TypeOK /\ NoTimerYet /\ [Next]_vars => NoTimerYet'
<1> SUFFICES ASSUME TypeOK, NoTimerYet, [Next]_vars, ~autoRefresh'
             PROVE  /\ ~scheduled'
                    /\ \A t \in Tokens : timers'[t] = 0
                    /\ \A o \in Objects : \A i \in DOMAIN tasks'[o] : tasks'[o][i] # "timer"
  BY DEF NoTimerYet
<1>1. CASE \E ok \in BOOLEAN : Relaunch(ok)
  BY <1>1 DEF Relaunch
<1>2. CASE ~\E ok \in BOOLEAN : Relaunch(ok)
  <2>1. ~autoRefresh
    BY <1>2 DEF Next, vars, app, SignIn, SignOut, GetToken, Deliver, CachedToken,
       RequestAccessToken, Answered, ExpiredToken, SameToken, Failed, NewToken, Rejected,
       TimerFires, DidBecomeActive, DidEnterBackground, ProtectedDataDidBecomeAvailable
  <2>2. ASSUME NEW tok, PossiblyPost(tok)
        PROVE  UNCHANGED refresh
    BY <2>1, <2>2 DEF PossiblyPost
  <2>3. ASSUME UNCHANGED <<tasks, refresh>>
        PROVE  /\ ~scheduled'
               /\ \A t \in Tokens : timers'[t] = 0
               /\ \A o \in Objects : \A i \in DOMAIN tasks'[o] : tasks'[o][i] # "timer"
    BY <2>1, <2>3 DEF NoTimerYet, refresh
  <2>4. ASSUME NEW o \in Objects,
               \/ CachedToken(o) \/ SameToken(o) \/ Failed(o)
               \/ \E ok \in BOOLEAN : NewToken(o, ok) \/ Rejected(o, ok)
        PROVE  /\ UNCHANGED refresh
               /\ \A p \in Objects : \A i \in DOMAIN tasks'[p] : tasks'[p][i] # "timer"
    <3>1. tasks' = [tasks EXCEPT ![o] = Tail(@)] /\ tasks[o] # <<>>
      BY <2>4 DEF CachedToken, Idle, SameToken, Failed, NewToken, Rejected, FinishTask,
         Busy, TypeOK
    <3>2. /\ Head(tasks[o]) # "timer"
          /\ \A p \in Objects : \A i \in DOMAIN tasks'[p] : tasks'[p][i] # "timer"
      BY <2>1, <3>1, FinishWithoutTimer
    <3>3. ASSUME NEW tok, RescheduleOnError(o, tok)
          PROVE  UNCHANGED refresh
      BY <3>2, <3>3 DEF RescheduleOnError
    <3>4. UNCHANGED refresh
      BY <2>2, <2>4, <3>3 DEF CachedToken, SameToken, Failed, NewToken, Rejected
    <3> QED
      BY <3>2, <3>4
  <2>5. CASE \E u \in Users, o \in Objects, ok \in BOOLEAN : SignIn(u, o, ok)
    BY <2>2, <2>3, <2>5 DEF SignIn, MakeUser, objects
  <2>6. CASE \E ok \in BOOLEAN : SignOut(ok)
    BY <2>2, <2>3, <2>6 DEF SignOut, objects
  <2>7. CASE \E o \in Objects, ok \in BOOLEAN : ProtectedDataDidBecomeAvailable(o, ok)
    BY <2>2, <2>3, <2>7 DEF ProtectedDataDidBecomeAvailable, MakeUser, objects
  <2>8. CASE \/ \E c \in Calls : Deliver(c)
             \/ \E o \in Objects : RequestAccessToken(o) \/ ExpiredToken(o)
             \/ UNCHANGED vars
    BY <2>3, <2>8 DEF Deliver, RequestAccessToken, ExpiredToken, vars, objects
  <2>9. ~DidBecomeActive /\ ~DidEnterBackground
    BY <2>1 DEF DidBecomeActive, DidEnterBackground
  <2>10. /\ \A c \in Calls : ~GetToken(c)
         /\ \A t \in Tokens : ~TimerFires(t)
    BY <2>1 DEF GetToken, TimerFires, NoTimerYet
  <2>11. ASSUME NEW o \in Objects,
                \/ CachedToken(o) \/ SameToken(o) \/ Failed(o)
                \/ \E ok \in BOOLEAN : NewToken(o, ok) \/ Rejected(o, ok)
         PROVE  /\ ~scheduled'
                /\ \A t \in Tokens : timers'[t] = 0
                /\ \A p \in Objects : \A i \in DOMAIN tasks'[p] : tasks'[p][i] # "timer"
    BY <2>1, <2>4, <2>11 DEF NoTimerYet, refresh
  <2> QED
    BY <1>2, <2>5, <2>6, <2>7, <2>8, <2>9, <2>10, <2>11 DEF Next, Answered
<1> QED
  BY <1>1, <1>2

\* As long as the keychain takes every token and no answer repeats one, the
\* comment in scheduleAutoTokenRefreshWithDelay is right: with a user signed in
\* and _autoRefreshScheduled set, a timer is still to fire.
THEOREM FlagIsRightWithoutFaults == Spec => [](faults = 0 => ScheduledMeansTimer)
<1>1. Init => NoTimerYet
  BY DEF Init, NoObjects, NoTimerYet
<1>2. TypeOK /\ NoTimerYet /\ RefreshIsComing => (faults = 0 => ScheduledMeansTimer)
  <2> SUFFICES ASSUME TypeOK, NoTimerYet, RefreshIsComing, faults = 0, scheduled,
                      current # None
               PROVE  \E t \in Tokens : timers[t] > 0
    BY DEF ScheduledMeansTimer
  <2>1. autoRefresh
    BY DEF NoTimerYet
  <2>2. timers[token[current]] > 0 /\ token[current] \in Tokens
    BY <2>1, CurrentHasToken, RefreshMeaning
  <2> QED
    BY <2>2
<1> QED
  BY <1>1, <1>2, NoTimerStep, TypeCorrect, RefreshComes, PTL DEF Spec

-----------------------------------------------------------------------------
(* Every callback runs once                                                *)

\* A call is in one queue, at one place.
Unique ==
  /\ \A o \in Objects : \A i, j \in DOMAIN tasks[o] :
       tasks[o][i] = tasks[o][j] /\ tasks[o][i] # "timer" => i = j
  /\ \A o, p \in Objects : \A c \in Calls :
       c \in Queued(o) /\ c \in Queued(p) => o = p

CallInv ==
  /\ Unique
  /\ \A c \in Calls, o \in Objects : c \in Queued(o) => c \notin delivering
  /\ Waiting = called \ (answered \cup abandoned)
  /\ answered \subseteq called /\ abandoned \subseteq called
  /\ abandoned \cap answered = {}

LEMMA QueuedMember ==
  ASSUME NEW c, NEW o
  PROVE  /\ c \in Queued(o) <=> \E i \in DOMAIN tasks[o] : tasks[o][i] = c
         /\ c \in Queued(o)' <=> \E i \in DOMAIN tasks'[o] : tasks'[o][i] = c
BY DEF Queued

LEMMA WaitingMember ==
  ASSUME NEW c \in Calls
  PROVE  /\ c \in Waiting <=> c \in delivering \/ \E o \in Objects : c \in Queued(o)
         /\ c \in Waiting' <=> c \in delivering' \/ \E o \in Objects : c \in Queued(o)'
BY DEF Waiting

LEMMA WaitingType ==
  ASSUME TypeOK
  PROVE  Waiting \subseteq Calls
BY DEF TypeOK, Waiting

\* Taking a task off a queue.
LEMMA TakeEffect ==
  ASSUME TypeOK, Unique, NEW o \in Objects, tasks[o] # <<>>,
         tasks' = [tasks EXCEPT ![o] = Tail(@)]
  PROVE  /\ Unique'
         /\ \A p \in Objects, c \in Calls :
              c \in Queued(p)' <=> c \in Queued(p) /\ ~(p = o /\ c = Head(tasks[o]))
<1>1. /\ tasks'[o] = Tail(tasks[o]) /\ \A p \in Objects \ {o} : tasks'[p] = tasks[p]
      /\ tasks[o] \in Seq(Calls \cup {"timer"})
  BY DEF TypeOK
<1>2. /\ Len(tasks[o]) \in Nat \ {0} /\ DOMAIN tasks[o] = 1 .. Len(tasks[o])
      /\ DOMAIN tasks'[o] = 1 .. Len(tasks[o]) - 1
      /\ \A i \in 1 .. Len(tasks[o]) - 1 : tasks'[o][i] = tasks[o][i + 1]
      /\ Head(tasks[o]) = tasks[o][1]
  BY <1>1, TailFacts
<1>3. ASSUME NEW c \in Calls
      PROVE  c \in Queued(o)' <=> c \in Queued(o) /\ c # Head(tasks[o])
  <2>1. ASSUME c \in Queued(o)' PROVE c \in Queued(o) /\ c # Head(tasks[o])
    <3>1. PICK i \in 1 .. Len(tasks[o]) - 1 : tasks'[o][i] = c
      BY <1>2, <2>1, QueuedMember
    <3>2. i + 1 \in DOMAIN tasks[o] /\ 1 \in DOMAIN tasks[o] /\ tasks[o][i + 1] = c /\ i + 1 # 1
      BY <1>2, <3>1
    <3>3. c # "timer"
      BY CallsAssumption
    <3>4. c # tasks[o][1]
      BY <3>2, <3>3 DEF Unique
    <3> QED
      BY <1>2, <3>2, <3>4, QueuedMember
  <2>2. ASSUME c \in Queued(o), c # Head(tasks[o]) PROVE c \in Queued(o)'
    <3>1. \E i \in DOMAIN tasks[o] : tasks[o][i] = c
      BY <2>2, QueuedMember
    <3>2. \E i \in DOMAIN Tail(tasks[o]) : Tail(tasks[o])[i] = c
      BY <1>1, <2>2, <3>1, TailKeeps
    <3> QED
      BY <1>1, <3>2, QueuedMember
  <2> QED
    BY <2>1, <2>2
<1>4. ASSUME NEW p \in Objects, p # o, NEW c \in Calls
      PROVE  c \in Queued(p)' <=> c \in Queued(p)
  BY <1>1, <1>4, QueuedMember
<1>5. \A p \in Objects, c \in Calls :
        c \in Queued(p)' <=> c \in Queued(p) /\ ~(p = o /\ c = Head(tasks[o]))
  BY <1>3, <1>4
<1>6. ASSUME NEW p \in Objects, NEW i \in DOMAIN tasks'[p], NEW j \in DOMAIN tasks'[p],
             tasks'[p][i] = tasks'[p][j], tasks'[p][i] # "timer"
      PROVE  i = j
  <2>1. CASE p = o
    <3>1. /\ i \in 1 .. Len(tasks[o]) - 1 /\ j \in 1 .. Len(tasks[o]) - 1
          /\ i + 1 \in DOMAIN tasks[o] /\ j + 1 \in DOMAIN tasks[o]
          /\ tasks[o][i + 1] = tasks[o][j + 1] /\ tasks[o][i + 1] # "timer"
      BY <1>2, <1>6, <2>1
    <3>2. i + 1 = j + 1
      BY <3>1 DEF Unique
    <3> QED
      BY <3>1, <3>2
  <2>2. CASE p # o
    BY <1>1, <1>6, <2>2 DEF Unique
  <2> QED
    BY <2>1, <2>2
<1>7. \A p, q \in Objects : \A c \in Calls : c \in Queued(p)' /\ c \in Queued(q)' => p = q
  BY <1>5 DEF Unique
<1> QED
  BY <1>5, <1>6, <1>7 DEF Unique

\* Putting a task at the end of a queue.
LEMMA AddEffect ==
  ASSUME TypeOK, Unique, NEW o \in Objects, NEW e \in Calls \cup {"timer"},
         e # "timer" => \A p \in Objects : e \notin Queued(p),
         tasks' = [tasks EXCEPT ![o] = Append(@, e)]
  PROVE  /\ Unique'
         /\ \A p \in Objects, c \in Calls :
              c \in Queued(p)' <=> c \in Queued(p) \/ (p = o /\ c = e)
<1>1. /\ tasks'[o] = Append(tasks[o], e) /\ \A p \in Objects \ {o} : tasks'[p] = tasks[p]
      /\ tasks[o] \in Seq(Calls \cup {"timer"})
  BY DEF TypeOK
<1>2. /\ Len(tasks[o]) \in Nat /\ DOMAIN tasks[o] = 1 .. Len(tasks[o])
      /\ DOMAIN tasks'[o] = 1 .. Len(tasks[o]) + 1
      /\ \A i \in 1 .. Len(tasks[o]) : tasks'[o][i] = tasks[o][i]
      /\ tasks'[o][Len(tasks[o]) + 1] = e
  BY <1>1
<1>3. ASSUME NEW c \in Calls
      PROVE  c \in Queued(o)' <=> c \in Queued(o) \/ c = e
  <2>1. (\E i \in DOMAIN Append(tasks[o], e) : Append(tasks[o], e)[i] = c) <=>
        (c = e \/ \E i \in DOMAIN tasks[o] : tasks[o][i] = c)
    BY <1>1, AppendTask
  <2> QED
    BY <1>1, <2>1, QueuedMember
<1>4. ASSUME NEW p \in Objects, p # o, NEW c \in Calls
      PROVE  c \in Queued(p)' <=> c \in Queued(p)
  BY <1>1, <1>4, QueuedMember
<1>5. \A p \in Objects, c \in Calls :
        c \in Queued(p)' <=> c \in Queued(p) \/ (p = o /\ c = e)
  BY <1>3, <1>4
<1>6. ASSUME NEW p \in Objects, NEW i \in DOMAIN tasks'[p], NEW j \in DOMAIN tasks'[p],
             tasks'[p][i] = tasks'[p][j], tasks'[p][i] # "timer"
      PROVE  i = j
  <2>1. CASE p = o /\ i \in 1 .. Len(tasks[o]) /\ j \in 1 .. Len(tasks[o])
    BY <1>2, <1>6, <2>1 DEF Unique
  <2>2. CASE p = o /\ tasks'[p][i] = e
    <3>1. \A k \in 1 .. Len(tasks[o]) : tasks[o][k] # e
      <4>1. e \notin Queued(o)
        BY <1>6, <2>2
      <4> QED
        BY <1>2, <4>1, QueuedMember
    <3> QED
      BY <1>2, <1>6, <2>2, <3>1
  <2>3. CASE p # o
    BY <1>1, <1>6, <2>3 DEF Unique
  <2> QED
    BY <1>2, <1>6, <2>1, <2>2, <2>3
<1>7. \A p, q \in Objects : \A c \in Calls : c \in Queued(p)' /\ c \in Queued(q)' => p = q
  BY <1>5, CallsAssumption DEF Unique
<1> QED
  BY <1>5, <1>6, <1>7 DEF Unique

\* A step after which the same calls wait, each in one place.
LEMMA CallsKept ==
  ASSUME TypeOK, TypeOK', CallInv, UNCHANGED <<called, answered, abandoned>>, Unique',
         \A c \in Calls, o \in Objects : c \in Queued(o)' => c \notin delivering',
         \A c \in Calls : c \in Waiting' <=> c \in Waiting
  PROVE  CallInv' /\ Waiting' = Waiting
<1>1. Waiting \subseteq Calls /\ Waiting' \subseteq Calls
  BY DEF TypeOK, Waiting
<1>2. Waiting' = Waiting
  BY <1>1
<1> QED
  BY <1>2 DEF CallInv

\* The head of a queue is done: a call's callback is now on the main queue.
LEMMA HeadDone ==
  ASSUME TypeOK, TypeOK', CallInv, NEW o \in Objects, tasks[o] # <<>>,
         tasks' = [tasks EXCEPT ![o] = Tail(@)],
         delivering' = IF Head(tasks[o]) = "timer" THEN delivering
                       ELSE delivering \cup {Head(tasks[o])},
         UNCHANGED <<called, answered, abandoned>>
  PROVE  CallInv' /\ Waiting' = Waiting
<1>1. /\ Unique'
      /\ \A p \in Objects, c \in Calls :
           c \in Queued(p)' <=> c \in Queued(p) /\ ~(p = o /\ c = Head(tasks[o]))
  BY TakeEffect DEF CallInv
<1>2. Head(tasks[o]) \in Calls => Head(tasks[o]) \in Queued(o)
  <2>1. 1 \in DOMAIN tasks[o] /\ tasks[o][1] = Head(tasks[o])
    <3>1. tasks[o] \in Seq(Calls \cup {"timer"})
      BY DEF TypeOK
    <3> QED
      BY <3>1
  <2> QED
    BY <2>1, QueuedMember
<1>3. \A c \in Calls : c \in delivering' <=>
        c \in delivering \/ (c = Head(tasks[o]))
  BY CallsAssumption
<1>4. \A c \in Calls, p \in Objects : c \in Queued(p)' => c \notin delivering'
  BY <1>1, <1>2, <1>3 DEF CallInv, Unique
<1>5. \A c \in Calls : c \in Waiting' <=> c \in Waiting
  BY <1>1, <1>2, <1>3, WaitingMember
<1> QED
  BY <1>1, <1>4, <1>5, CallsKept

\* Nothing moves.
LEMMA QueuesKept ==
  ASSUME TypeOK, TypeOK', CallInv, UNCHANGED <<tasks, calls>>
  PROVE  CallInv' /\ Waiting' = Waiting
BY DEF CallInv, Unique, Queued, Waiting, calls

LEMMA InitCalls == Init => CallInv
BY DEF Init, NoObjects, CallInv, Unique, Queued, Waiting

LEMMA GetTokenCalls ==
  ASSUME TypeOK, TypeOK', CallInv, NEW c \in Calls, GetToken(c)
  PROVE  /\ CallInv' /\ Waiting' = Waiting \cup {c}
         /\ c \notin Waiting \cup answered \cup abandoned
<1>1. c \notin called /\ called' = called \cup {c} /\ UNCHANGED <<answered, abandoned>>
  BY DEF GetToken
<1>2. c \notin Waiting \cup answered \cup abandoned
  BY <1>1 DEF CallInv
<1>3. /\ c \notin delivering
      /\ \A o \in Objects : c \notin Queued(o)
  BY <1>2, WaitingMember
<1>4. /\ Unique'
      /\ \A d \in Calls, o \in Objects : d \in Queued(o)' => d \notin delivering'
      /\ \A d \in Calls : d \in Waiting' <=> d \in Waiting \/ d = c
  <2>1. CASE current = None
    <3>1. tasks' = tasks /\ delivering' = delivering \cup {c}
      BY <2>1 DEF GetToken
    <3>2. Unique' /\ \A d, o : d \in Queued(o)' <=> d \in Queued(o)
      BY <3>1 DEF CallInv, Unique, Queued
    <3>3. \A d \in Calls, o \in Objects : d \in Queued(o)' => d \notin delivering'
      BY <1>3, <3>1, <3>2 DEF CallInv
    <3>4. \A d \in Calls : d \in Waiting' <=> d \in Waiting \/ d = c
      BY <3>1, <3>2, WaitingMember
    <3> QED
      BY <3>2, <3>3, <3>4
  <2>2. CASE current # None
    <3>1. /\ current \in Objects /\ delivering' = delivering
          /\ tasks' = [tasks EXCEPT ![current] = Append(@, c)]
      BY <2>2 DEF GetToken, TypeOK
    <3>2. /\ Unique'
          /\ \A o \in Objects, d \in Calls :
               d \in Queued(o)' <=> d \in Queued(o) \/ (o = current /\ d = c)
      BY <1>3, <3>1, AddEffect DEF CallInv
    <3>3. \A d \in Calls, o \in Objects : d \in Queued(o)' => d \notin delivering'
      BY <1>3, <3>1, <3>2 DEF CallInv
    <3>4. \A d \in Calls : d \in Waiting' <=> d \in Waiting \/ d = c
      BY <3>1, <3>2, WaitingMember
    <3> QED
      BY <3>2, <3>3, <3>4
  <2> QED
    BY <2>1, <2>2
<1>5. Waiting \subseteq Calls /\ Waiting' \subseteq Calls
  BY DEF TypeOK, Waiting
<1>6. Waiting' = Waiting \cup {c}
  BY <1>4, <1>5
<1>7. Waiting' = called' \ (answered' \cup abandoned')
  BY <1>1, <1>2, <1>6 DEF CallInv
<1>8. /\ answered' \subseteq called' /\ abandoned' \subseteq called'
      /\ abandoned' \cap answered' = {}
  BY <1>1 DEF CallInv
<1> QED
  BY <1>2, <1>4, <1>6, <1>7, <1>8 DEF CallInv

LEMMA DeliverCalls ==
  ASSUME TypeOK, TypeOK', CallInv, NEW c \in Calls, Deliver(c)
  PROVE  CallInv' /\ c \in Waiting /\ Waiting' = Waiting \ {c}
<1>1. /\ c \in delivering /\ delivering' = delivering \ {c} /\ tasks' = tasks
      /\ answered' = answered \cup {c} /\ UNCHANGED <<called, abandoned>>
  BY DEF Deliver, objects
<1>2. Unique' /\ \A d, o : d \in Queued(o)' <=> d \in Queued(o)
  BY <1>1 DEF CallInv, Unique, Queued
<1>3. c \in Waiting
  BY <1>1, WaitingMember
<1>4. \A o \in Objects : c \notin Queued(o)
  BY <1>1 DEF CallInv
<1>5. \A d \in Calls : d \in Waiting' <=> d \in Waiting /\ d # c
  BY <1>1, <1>2, <1>4, WaitingMember
<1>6. Waiting \subseteq Calls /\ Waiting' \subseteq Calls
  BY DEF TypeOK, Waiting
<1>7. Waiting' = Waiting \ {c}
  BY <1>5, <1>6
<1>8. \A d \in Calls, o \in Objects : d \in Queued(o)' => d \notin delivering'
  BY <1>1, <1>2 DEF CallInv
<1>9. /\ Waiting' = called' \ (answered' \cup abandoned')
      /\ answered' \subseteq called' /\ abandoned' \subseteq called'
      /\ abandoned' \cap answered' = {}
  BY <1>1, <1>3, <1>7 DEF CallInv
<1> QED
  BY <1>2, <1>3, <1>7, <1>8, <1>9 DEF CallInv

LEMMA RelaunchCalls ==
  ASSUME TypeOK, TypeOK', CallInv, NEW ok \in BOOLEAN, Relaunch(ok)
  PROVE  /\ CallInv' /\ Waiting' = {} /\ answered' = answered
         /\ abandoned' = abandoned \cup Waiting
<1>1. /\ tasks' = [o \in Objects |-> <<>>] /\ delivering' = {}
      /\ abandoned' = called \ answered /\ UNCHANGED <<called, answered>>
  BY DEF Relaunch
<1>2. \A d, o : o \in Objects => d \notin Queued(o)'
  BY <1>1, QueuedMember
<1>3. Waiting' = {}
  BY <1>1, <1>2 DEF Waiting
<1>4. Unique'
  BY <1>1, <1>2 DEF Unique
<1>5. called \ answered = abandoned \cup Waiting
  BY DEF CallInv
<1> QED
  BY <1>1, <1>2, <1>3, <1>4, <1>5 DEF CallInv

\* The steps in which no call starts or ends.
QuietStep ==
  \/ \E u \in Users, o \in Objects, ok \in BOOLEAN : SignIn(u, o, ok)
  \/ \E ok \in BOOLEAN : SignOut(ok)
  \/ \E o \in Objects : CachedToken(o) \/ RequestAccessToken(o) \/ Answered(o)
  \/ \E t \in Tokens : TimerFires(t)
  \/ DidBecomeActive \/ DidEnterBackground
  \/ \E o \in Objects, ok \in BOOLEAN : ProtectedDataDidBecomeAvailable(o, ok)
  \/ UNCHANGED vars

LEMMA QuietCalls ==
  ASSUME TypeOK, TypeOK', CallInv, QuietStep
  PROVE  CallInv' /\ Waiting' = Waiting /\ UNCHANGED <<answered, abandoned>>
<1>1. ASSUME UNCHANGED <<tasks, calls>>
      PROVE  CallInv' /\ Waiting' = Waiting /\ UNCHANGED <<answered, abandoned>>
  BY <1>1, QueuesKept DEF calls
<1>2. ASSUME NEW o \in Objects,
             \/ CachedToken(o) \/ SameToken(o) \/ Failed(o)
             \/ \E ok \in BOOLEAN : NewToken(o, ok) \/ Rejected(o, ok)
      PROVE  CallInv' /\ Waiting' = Waiting /\ UNCHANGED <<answered, abandoned>>
  <2>1. /\ tasks' = [tasks EXCEPT ![o] = Tail(@)]
        /\ delivering' = IF Head(tasks[o]) = "timer" THEN delivering
                         ELSE delivering \cup {Head(tasks[o])}
        /\ UNCHANGED <<called, answered, abandoned>>
    BY <1>2 DEF CachedToken, SameToken, Failed, NewToken, Rejected, FinishTask
  <2>2. tasks[o] # <<>>
    BY <1>2 DEF CachedToken, Idle, SameToken, Failed, NewToken, Rejected, Busy, TypeOK
  <2> QED
    BY <2>1, <2>2, HeadDone
<1>3. ASSUME NEW t \in Tokens, TimerFires(t)
      PROVE  CallInv' /\ Waiting' = Waiting /\ UNCHANGED <<answered, abandoned>>
  <2>1. CASE tasks' = tasks
    BY <1>1, <1>3, <2>1 DEF TimerFires
  <2>2. CASE CurrentToken = t /\ tasks' = [tasks EXCEPT ![current] = Append(@, "timer")]
    <3>1. current \in Objects /\ UNCHANGED calls
      BY <1>3, <2>2 DEF TypeOK, CurrentToken, Tokens, TimerFires
    <3>2. /\ Unique'
          /\ \A p \in Objects, c \in Calls :
               c \in Queued(p)' <=> c \in Queued(p) \/ (p = current /\ c = "timer")
      BY <2>2, <3>1, AddEffect DEF CallInv
    <3>3. \A p \in Objects, c \in Calls : c \in Queued(p)' <=> c \in Queued(p)
      BY <3>2, CallsAssumption
    <3>4. \A c \in Calls : c \in Waiting' <=> c \in Waiting
      BY <3>1, <3>3, WaitingMember DEF calls
    <3>5. \A c \in Calls, o \in Objects : c \in Queued(o)' => c \notin delivering'
      BY <3>1, <3>3 DEF CallInv, calls
    <3> QED
      BY <3>1, <3>2, <3>4, <3>5, CallsKept DEF calls
  <2> QED
    BY <1>3, <2>1, <2>2 DEF TimerFires
<1>4. ASSUME NEW u \in Users, NEW o \in Objects, NEW ok \in BOOLEAN, SignIn(u, o, ok)
      PROVE  UNCHANGED <<tasks, calls>>
  BY <1>4 DEF SignIn, MakeUser, objects
<1>5. ASSUME NEW ok \in BOOLEAN, SignOut(ok) PROVE UNCHANGED <<tasks, calls>>
  BY <1>5 DEF SignOut, objects
<1>6. ASSUME NEW o \in Objects, RequestAccessToken(o) \/ ExpiredToken(o)
      PROVE  UNCHANGED <<tasks, calls>>
  BY <1>6 DEF RequestAccessToken, ExpiredToken
<1>7. ASSUME NEW o \in Objects, NEW ok \in BOOLEAN, ProtectedDataDidBecomeAvailable(o, ok)
      PROVE  UNCHANGED <<tasks, calls>>
  BY <1>7 DEF ProtectedDataDidBecomeAvailable, MakeUser, objects
<1>8. CASE DidBecomeActive \/ DidEnterBackground \/ UNCHANGED vars
  BY <1>1, <1>8 DEF DidBecomeActive, DidEnterBackground, vars, objects
<1> QED
  BY <1>1, <1>2, <1>3, <1>4, <1>5, <1>6, <1>7, <1>8 DEF QuietStep, Answered

\* getTokenForcingRefresh implements AsyncCalls: through sign-ins, sign-outs,
\* reloads and the task queues, every callback runs at most once, and only a
\* kill takes one away.
THEOREM OneAnswerPerTokenCall == Spec => TokenCallsAreAnsweredOnce
<1> DEFINE Inv == TypeOK /\ CallInv
<1>1. Init => Inv
  BY InitType, InitCalls
<1>2. Inv /\ [Next]_vars => Inv' /\ [Async!Next]_(Async!vars)
  <2>1. SUFFICES ASSUME Inv, [Next]_vars PROVE Inv' /\ [Async!Next]_(Async!vars)
    OBVIOUS
  <2>2. TypeOK'
    BY <2>1, TypeStep
  <2>3. ASSUME NEW c \in Calls, GetToken(c)
        PROVE  CallInv' /\ Async!Call(c)
    BY <2>1, <2>2, <2>3, GetTokenCalls DEF Async!Call, GetToken
  <2>4. ASSUME NEW c \in Calls, Deliver(c)
        PROVE  CallInv' /\ Async!Answer(c)
    BY <2>1, <2>2, <2>4, DeliverCalls DEF Async!Answer, Deliver
  <2>5. ASSUME NEW ok \in BOOLEAN, Relaunch(ok)
        PROVE  CallInv' /\ Async!Kill
    BY <2>1, <2>2, <2>5, RelaunchCalls DEF Async!Kill
  <2>6. CASE QuietStep
    BY <2>1, <2>2, <2>6, QuietCalls DEF Async!vars
  <2> QED
    BY <2>1, <2>2, <2>3, <2>4, <2>5, <2>6 DEF Next, QuietStep, Async!Next
<1>3. Init => Async!Init
  BY DEF Init, NoObjects, Async!Init, Waiting, Queued
<1> QED
  BY <1>1, <1>2, <1>3, PTL DEF Spec, TokenCallsAreAnsweredOnce, Async!Spec
-----------------------------------------------------------------------------
(* What is behind the property EveryTokenCallAnswered: fairness only has to *)
(* run the token service of an object, which takes at most three steps per  *)
(* task, in the order the tasks were queued.                                *)

\* The requests sent for the task that is running: at most two.
Sent(o) == IF request[o] = "none" THEN 0 ELSE IF request[o] = "first" THEN 1 ELSE 2

\* How many steps of o's service the i-th task still waits for, at most.
Wait(o, i) == 3 * i - Sent(o)

Serve(o) == CachedToken(o) \/ RequestAccessToken(o) \/ Answered(o)

\* What may become of the i-th task: it stays where it is, comes nearer to its
\* end, or is finished, with the callback of a call on the main queue.
Stays(o, i)    == /\ i \in DOMAIN tasks'[o] /\ tasks'[o][i] = tasks[o][i]
                  /\ Wait(o, i)' = Wait(o, i)
Nearer(o, i)   == \E j \in DOMAIN tasks'[o] : /\ tasks'[o][j] = tasks[o][i]
                                              /\ Wait(o, j)' < Wait(o, i)
Finished(o, i) == i = 1 /\ (tasks[o][1] # "timer" => tasks[o][1] \in delivering')

\* A step of the service does something for every task of its queue.
LEMMA ServeHelps ==
  ASSUME TypeOK, NEW o \in Objects, Serve(o), NEW i \in DOMAIN tasks[o]
  PROVE  Nearer(o, i) \/ Finished(o, i)
<1>1. tasks[o] \in Seq(Calls \cup {"timer"}) /\ tasks[o] # <<>> /\ i \in Nat \ {0}
  BY DEF TypeOK
<1>2. request \in [Objects -> {"none", "first", "retry"}]
  BY DEF TypeOK
<1>3. CASE RequestAccessToken(o)
  <2>1. tasks' = tasks /\ request[o] = "none" /\ request'[o] = "first"
    BY <1>2, <1>3 DEF RequestAccessToken, Idle
  <2>2. Wait(o, i)' < Wait(o, i)
    BY <1>1, <2>1 DEF Wait, Sent
  <2> QED
    BY <2>1, <2>2 DEF Nearer
<1>4. CASE ExpiredToken(o)
  <2>1. tasks' = tasks /\ request[o] = "first" /\ request'[o] = "retry"
    BY <1>2, <1>4 DEF ExpiredToken
  <2>2. Wait(o, i)' < Wait(o, i)
    BY <1>1, <2>1 DEF Wait, Sent
  <2> QED
    BY <2>1, <2>2 DEF Nearer
<1>5. CASE \/ CachedToken(o) \/ SameToken(o) \/ Failed(o)
           \/ \E ok \in BOOLEAN : NewToken(o, ok) \/ Rejected(o, ok)
  <2>1. /\ tasks' = [tasks EXCEPT ![o] = Tail(@)] /\ request'[o] = "none"
        /\ Head(tasks[o]) # "timer" => Head(tasks[o]) \in delivering'
    BY <1>2, <1>5 DEF CachedToken, Idle, SameToken, Failed, NewToken, Rejected, FinishTask
  <2>2. tasks'[o] = Tail(tasks[o])
    BY <2>1 DEF TypeOK
  <2>3. /\ Len(tasks[o]) \in Nat \ {0} /\ DOMAIN tasks[o] = 1 .. Len(tasks[o])
        /\ DOMAIN tasks'[o] = 1 .. Len(tasks[o]) - 1
        /\ \A k \in 1 .. Len(tasks[o]) - 1 : tasks'[o][k] = tasks[o][k + 1]
        /\ Head(tasks[o]) = tasks[o][1]
    BY <1>1, <2>2, TailFacts
  <2>4. CASE i = 1
    BY <2>1, <2>3, <2>4 DEF Finished
  <2>5. CASE i # 1
    <3>1. i - 1 \in DOMAIN tasks'[o] /\ tasks'[o][i - 1] = tasks[o][i]
      BY <2>3, <2>5
    <3>2. Wait(o, i - 1)' < Wait(o, i)
      BY <1>1, <2>1 DEF Wait, Sent
    <3> QED
      BY <3>1, <3>2 DEF Nearer
  <2> QED
    BY <2>4, <2>5
<1> QED
  BY <1>3, <1>4, <1>5 DEF Serve, Answered

\* Every other step leaves the tasks of the queue where they are.
LEMMA OthersWait ==
  ASSUME TypeOK, [Next]_vars, NEW o \in Objects, ~Serve(o), NEW i \in DOMAIN tasks[o],
         \A ok \in BOOLEAN : ~Relaunch(ok)
  PROVE  Stays(o, i)
<1>1. ASSUME tasks'[o] = tasks[o], request'[o] = request[o]
      PROVE  Stays(o, i)
  BY <1>1 DEF Stays, Wait, Sent
<1>2. ASSUME NEW e \in Calls \cup {"timer"}, current \in Objects,
             tasks' = [tasks EXCEPT ![current] = Append(@, e)], UNCHANGED request
      PROVE  Stays(o, i)
  <2>1. CASE o = current
    <3>1. tasks[o] \in Seq(Calls \cup {"timer"}) /\ tasks'[o] = Append(tasks[o], e)
      BY <1>2, <2>1 DEF TypeOK
    <3>2. i \in DOMAIN tasks'[o] /\ tasks'[o][i] = tasks[o][i]
      BY <3>1
    <3> QED
      BY <1>2, <3>2 DEF Stays, Wait, Sent
  <2>2. CASE o # current
    BY <1>1, <1>2, <2>2 DEF TypeOK
  <2> QED
    BY <2>1, <2>2
<1>3. ASSUME NEW p \in Objects, Serve(p)
      PROVE  tasks'[o] = tasks[o] /\ request'[o] = request[o]
  <2>1. p # o
    BY <1>3
  <2>2. CASE RequestAccessToken(p) \/ ExpiredToken(p) \/ CachedToken(p)
    BY <2>1, <2>2 DEF RequestAccessToken, ExpiredToken, CachedToken, TypeOK
  <2>3. CASE FinishTask(p)
    BY <2>1, <2>3 DEF FinishTask, TypeOK
  <2> QED
    BY <1>3, <2>2, <2>3 DEF Serve, Answered, SameToken, Failed, NewToken, Rejected
<1>4. ASSUME NEW c \in Calls, GetToken(c)
      PROVE  Stays(o, i)
  <2>1. current # None => current \in Objects
    BY DEF TypeOK
  <2> QED
    BY <1>1, <1>2, <1>4, <2>1 DEF GetToken
<1>5. ASSUME NEW t \in Tokens, TimerFires(t)
      PROVE  Stays(o, i)
  <2>1. CurrentToken = t => current \in Objects
    BY DEF TypeOK, CurrentToken, Tokens
  <2> QED
    BY <1>1, <1>2, <1>5, <2>1 DEF TimerFires
<1>6. ASSUME \/ \E u \in Users, p \in Objects, ok \in BOOLEAN : SignIn(u, p, ok)
             \/ \E ok \in BOOLEAN : SignOut(ok)
             \/ \E c \in Calls : Deliver(c)
             \/ DidBecomeActive \/ DidEnterBackground
             \/ \E p \in Objects, ok \in BOOLEAN : ProtectedDataDidBecomeAvailable(p, ok)
             \/ UNCHANGED vars
      PROVE  UNCHANGED <<tasks, request>>
  BY <1>6 DEF SignIn, SignOut, Deliver, DidBecomeActive, DidEnterBackground,
     ProtectedDataDidBecomeAvailable, MakeUser, vars, objects
<1> QED
  BY <1>1, <1>3, <1>4, <1>5, <1>6 DEF Next, Serve

\* Every step of an object's token service finishes the first task of its queue
\* or brings all of them nearer, and no other step, be it a sign-in, a sign-out
\* or another call, delays a task that is queued: a token call waits for at most
\* three steps for itself and for each task before it, or for the process's end.
THEOREM TasksMoveOn ==
  Spec => /\ [](\A o \in Objects : \A i \in DOMAIN tasks[o] : Wait(o, i) \in 1 .. 3 * i)
          /\ [][\A o \in Objects : \A i \in DOMAIN tasks[o] :
                  /\ Serve(o) => Nearer(o, i) \/ Finished(o, i)
                  /\ ~Serve(o) => Stays(o, i) \/ \E ok \in BOOLEAN : Relaunch(ok)]_vars
<1>1. TypeOK => \A o \in Objects : \A i \in DOMAIN tasks[o] : Wait(o, i) \in 1 .. 3 * i
  <2> SUFFICES ASSUME TypeOK, NEW o \in Objects, NEW i \in DOMAIN tasks[o]
               PROVE  Wait(o, i) \in 1 .. 3 * i
    OBVIOUS
  <2>1. i \in Nat \ {0}
    BY DEF TypeOK
  <2> QED
    BY <2>1 DEF Wait, Sent
<1>2. TypeOK /\ [Next]_vars =>
        [\A o \in Objects : \A i \in DOMAIN tasks[o] :
           /\ Serve(o) => Nearer(o, i) \/ Finished(o, i)
           /\ ~Serve(o) => Stays(o, i) \/ \E ok \in BOOLEAN : Relaunch(ok)]_vars
  BY ServeHelps, OthersWait
<1> QED
  BY <1>1, <1>2, TypeCorrect, PTL DEF Spec
=============================================================================
