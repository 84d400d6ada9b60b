-------------------------- MODULE PhoneAuthProofs --------------------------
(***************************************************************************)
(* For any number of calls, any maximum of receipts and any number of      *)
(* faults: verifyPhoneNumber loses no completion block and runs none       *)
(* twice, provided the reCAPTCHA page always comes back with a token or an *)
(* error.  Most steps move blocks from one place to another, and           *)
(* MoveEffect says once what a move does to all the places.                *)
(***************************************************************************)
EXTENDS PhoneAuth, TLAPS

HeldType == held \in [Places -> SUBSET Attempts]

Unique == \A p, q \in Places : \A a \in held[p], b \in held[q] :
            a[1] = b[1] => p = q /\ a = b

Served == answered \subseteq started /\ abandoned \subseteq started

UrlType == url \in PageUrls \cup {None}

IInv == /\ HeldType /\ Unique /\ InFlight = Waiting /\ Served
        /\ WaitersAreWoken /\ UrlType
-----------------------------------------------------------------------------

LEMMA InFlightMember ==
  ASSUME NEW c
  PROVE  c \in InFlight <=> \E p \in Places : \E a \in held[p] : a[1] = c
BY DEF InFlight

LEMMA InFlightMemberNext ==
  ASSUME NEW c
  PROVE  c \in InFlight' <=> \E p \in Places : \E a \in held'[p] : a[1] = c
BY DEF InFlight

\* Blocks that move from one place to another stay held, once each.
LEMMA MoveEffect ==
  ASSUME HeldType, Unique,
         NEW from \in Places, NEW to \in Places, from # to,
         NEW as \in SUBSET held[from],
         Move(from, to, as)
  PROVE  /\ HeldType' /\ Unique' /\ InFlight' = InFlight
         /\ held'[from] = held[from] \ as
         /\ held'[to] = held[to] \cup as
         /\ \A p \in Places \ {from, to} : held'[p] = held[p]
<1>1. /\ held'[from] = held[from] \ as
      /\ held'[to] = held[to] \cup as
      /\ \A p \in Places \ {from, to} : held'[p] = held[p]
  BY DEF HeldType, Move
<1>2. HeldType'
  BY DEF HeldType, Move
<1>3. Unique'
  <2>1. SUFFICES ASSUME NEW p \in Places, NEW q \in Places,
                        NEW a \in held'[p], NEW b \in held'[q], a[1] = b[1]
                 PROVE  p = q /\ a = b
    BY DEF Unique
  <2>2. \/ a \in held[p] /\ (p = from => a \notin as)
        \/ p = to /\ a \in as
    BY <1>1
  <2>3. \/ b \in held[q] /\ (q = from => b \notin as)
        \/ q = to /\ b \in as
    BY <1>1
  <2>4. a = b
    BY <2>1, <2>2, <2>3 DEF Unique
  <2>5. p = q
    BY <2>1, <2>2, <2>3, <2>4 DEF Unique
  <2> QED
    BY <2>4, <2>5
<1>4. ASSUME NEW c PROVE c \in InFlight' <=> c \in InFlight
  BY <1>1, InFlightMember, InFlightMemberNext
<1> QED
  BY <1>1, <1>2, <1>3, <1>4

\* A move that leaves the page alone, and after which the waiters still have
\* their timers, keeps the invariant.
LEMMA PlainMove ==
  ASSUME IInv,
         NEW from \in Places \ {"page", "dismiss"},
         NEW to \in Places \ {"page", "dismiss"}, from # to,
         NEW as \in SUBSET held[from],
         Move(from, to, as),
         UNCHANGED <<presenting, safari, url, started, answered, abandoned>>,
         held'["probe"] # {} => probeTimer',
         held'["token"] # {} => batch' \in tokenTimers',
         held'["push"] \subseteq receiptTimers'
  PROVE  IInv'
<1>1. /\ HeldType' /\ Unique' /\ InFlight' = InFlight
      /\ held'["page"] = held["page"] /\ held'["dismiss"] = held["dismiss"]
  <2>1. "page" \in Places \ {from, to} /\ "dismiss" \in Places \ {from, to}
    BY DEF Places
  <2>2. /\ HeldType' /\ Unique' /\ InFlight' = InFlight
        /\ \A p \in Places \ {from, to} : held'[p] = held[p]
    BY MoveEffect DEF IInv
  <2> QED
    BY <2>1, <2>2
<1>2. Waiting' = Waiting /\ Served' /\ UrlType'
  BY DEF IInv, Waiting, Served, UrlType
<1>3. PageIsHeld'
  BY <1>1 DEF IInv, WaitersAreWoken, PageIsHeld
<1> QED
  BY <1>1, <1>2, <1>3 DEF IInv, WaitersAreWoken

\* Passing blocks to getTokenWithCallback: starts a timer if there is none.
LEMMA VerifyClientEffect ==
  ASSUME IInv,
         NEW from \in {"start", "probe"},
         NEW as \in SUBSET held[from],
         VerifyClient(from, as),
         UNCHANGED <<pageVars, calls, receiptTimers>>,
         held'["probe"] # {} => probeTimer'
  PROVE  IInv'
<1> DEFINE to == ClientPlace(credential)
<1>1. to \in {"send", "client", "token"}
  BY DEF ClientPlace
<1>2. /\ from \in Places \ {"page", "dismiss"} /\ to \in Places \ {"page", "dismiss"}
      /\ from # to
  BY <1>1 DEF Places
<1>3. Move(from, to, as)
  BY DEF VerifyClient
<1> HIDE DEF to
<1>4. /\ to # "token" => held'["token"] = held["token"]
      /\ held'["push"] = held["push"]
  <2>1. "token" \in Places /\ "push" \in Places
    BY DEF Places
  <2> QED
    BY <1>1, <1>2, <1>3, <2>1, MoveEffect DEF IInv
<1>5. held'["token"] # {} => batch' \in tokenTimers'
  <2>1. NewBatch(to)
    BY DEF VerifyClient, to
  <2> QED
    BY <1>4, <2>1 DEF NewBatch, IInv, WaitersAreWoken
<1>6. held'["push"] \subseteq receiptTimers'
  BY <1>4 DEF IInv, WaitersAreWoken
<1> QED
  BY <1>2, <1>3, <1>5, <1>6, PlainMove DEF pageVars, calls

\* A retry replaces the block of an attempt by that of another attempt of the
\* same call.
LEMMA RetryEffect ==
  ASSUME HeldType, Unique,
         NEW to \in Places, to # "send",
         NEW a \in held["send"],
         held' = [held EXCEPT !["send"] = @ \ {a}, ![to] = @ \cup {<<a[1], 2>>}]
  PROVE  /\ HeldType' /\ Unique' /\ InFlight' = InFlight
         /\ \A p \in Places \ {"send", to} : held'[p] = held[p]
<1> DEFINE new == <<a[1], 2>>
<1>0. "send" \in Places /\ a \in Attempts
  BY DEF HeldType, Places
<1>1. new \in Attempts /\ new[1] = a[1]
  BY <1>0 DEF Attempts
<1> HIDE DEF new
<1>2. /\ held'["send"] = held["send"] \ {a}
      /\ held'[to] = held[to] \cup {new}
      /\ \A p \in Places \ {"send", to} : held'[p] = held[p]
  BY <1>0 DEF HeldType, new
<1>3. HeldType'
  BY <1>0, <1>1 DEF HeldType, new
<1>4. Unique'
  <2>1. SUFFICES ASSUME NEW p \in Places, NEW q \in Places,
                        NEW x \in held'[p], NEW y \in held'[q], x[1] = y[1]
                 PROVE  p = q /\ x = y
    BY DEF Unique
  <2>2. \/ x \in held[p] /\ (p = "send" => x # a)
        \/ p = to /\ x = new
    BY <1>2
  <2>3. \/ y \in held[q] /\ (q = "send" => y # a)
        \/ q = to /\ y = new
    BY <1>2
  <2>4. CASE x \in held[p] /\ (p = "send" => x # a)
    <3>1. x[1] # a[1]
      BY <1>0, <2>4 DEF Unique
    <3>2. y \in held[q]
      BY <1>1, <2>1, <2>3, <3>1
    <3> QED
      BY <2>1, <2>4, <3>2 DEF Unique
  <2>5. CASE p = to /\ x = new
    <3>1. q = to /\ y = new
      BY <1>0, <1>1, <2>1, <2>3, <2>5 DEF Unique
    <3> QED
      BY <2>5, <3>1
  <2> QED
    BY <2>2, <2>4, <2>5
<1>5. ASSUME NEW c PROVE c \in InFlight' <=> c \in InFlight
  <2>1. c \in InFlight => c \in InFlight'
    <3>1. SUFFICES ASSUME NEW p \in Places, NEW x \in held[p], x[1] = c
                   PROVE  \E q \in Places : \E y \in held'[q] : y[1] = c
      BY InFlightMember, InFlightMemberNext
    <3>2. CASE p = "send" /\ x = a
      BY <1>1, <1>2, <3>1, <3>2
    <3>3. CASE ~(p = "send" /\ x = a)
      BY <1>2, <3>1, <3>3
    <3> QED
      BY <3>2, <3>3
  <2>2. c \in InFlight' => c \in InFlight
    <3>1. SUFFICES ASSUME NEW p \in Places, NEW x \in held'[p], x[1] = c
                   PROVE  \E q \in Places : \E y \in held[q] : y[1] = c
      BY InFlightMember, InFlightMemberNext
    <3>2. x \in held[p] \/ x = new
      BY <1>2
    <3> QED
      BY <1>0, <1>1, <3>1, <3>2
  <2> QED
    BY <2>1, <2>2
<1> QED
  BY <1>2, <1>3, <1>4, <1>5

-----------------------------------------------------------------------------
(* One lemma per group of actions                                          *)

\* Where a move does not touch it, a place is as it was.
LEMMA Elsewhere ==
  ASSUME IInv, NEW from \in Places, NEW to \in Places, from # to,
         NEW as \in SUBSET held[from], Move(from, to, as)
  PROVE  /\ from # "probe" /\ to # "probe" => held'["probe"] = held["probe"]
         /\ from # "token" /\ to # "token" => held'["token"] = held["token"]
         /\ from # "push" /\ to # "push" => held'["push"] = held["push"]
         /\ held'[from] = held[from] \ as /\ held'[to] = held[to] \cup as
<1>1. "probe" \in Places /\ "token" \in Places /\ "push" \in Places
  BY DEF Places
<1>2. /\ held'[from] = held[from] \ as
      /\ held'[to] = held[to] \cup as
      /\ \A p \in Places \ {from, to} : held'[p] = held[p]
  BY MoveEffect DEF IInv
<1> QED
  BY <1>1, <1>2

\* The calls that end in an answer, from a place without a timer of its own
LEMMA SimpleMove ==
  ASSUME IInv,
         NEW from \in Places \ {"page", "dismiss"},
         NEW to \in {"domain", "send", "answer", "refused", "client"}, from # to,
         NEW as \in SUBSET held[from],
         Move(from, to, as),
         UNCHANGED <<presenting, safari, url, started, answered, abandoned>>,
         held'["probe"] # {} => probeTimer',
         held'["token"] # {} => batch' \in tokenTimers',
         from # "push" => receiptTimers' = receiptTimers,
         from = "push" => receiptTimers' \in {receiptTimers, receiptTimers \ as}
  PROVE  IInv'
<1>1. to \in Places \ {"page", "dismiss"} /\ from \in Places
  BY DEF Places
<1>2. held'["push"] \subseteq receiptTimers'
  <2>1. from # "push" => held'["push"] = held["push"]
    BY <1>1, Elsewhere
  <2>2. from = "push" => held'["push"] = held["push"] \ as
    <3>1. to \in Places
      BY <1>1
    <3>2. held'[from] = held[from] \ as
      BY <1>1, <3>1, Elsewhere
    <3> QED
      BY <3>2
  <2>3. held["push"] \subseteq receiptTimers
    BY DEF IInv, WaitersAreWoken
  <2> QED
    BY <2>1, <2>2, <2>3
<1> QED
  BY <1>1, <1>2, PlainMove

LEMMA WorkingStepsIInv ==
  ASSUME IInv, NEW a \in Attempts,
         MissingPhoneNumber(a) \/ ClientRejected(a) \/ DomainFails(a)
           \/ AlreadyPresented(a) \/ SendAnswered(a)
  PROVE  IInv'
<1> DEFINE Same == UNCHANGED <<probeVars, tokenVars, credVars, store, pageVars, calls, faults>>
<1>1. PICK from \in {"start", "client", "domain", "refused", "send"},
           to \in {"answer", "domain"} :
        a \in held[from] /\ from # to /\ Move(from, to, {a}) /\ Same
  BY DEF MissingPhoneNumber, ClientRejected, DomainFails, AlreadyPresented, SendAnswered
<1>2. from \in Places \ {"page", "dismiss"} /\ to \in Places /\ from \in Places
      /\ {a} \in SUBSET held[from]
  BY <1>1 DEF Places
<1>3. held'["probe"] = held["probe"] /\ held'["token"] = held["token"]
  BY <1>1, <1>2, Elsewhere
<1>4. /\ held'["probe"] # {} => probeTimer'
      /\ held'["token"] # {} => batch' \in tokenTimers'
  BY <1>1, <1>3 DEF IInv, WaitersAreWoken, probeVars, tokenVars
<1>5. to \in {"domain", "send", "answer", "refused", "client"}
  OBVIOUS
<1>6. UNCHANGED <<presenting, safari, url, started, answered, abandoned, receiptTimers>>
  BY <1>1 DEF pageVars, calls, credVars
<1> HIDE DEF Same
<1> QED
  BY <1>1, <1>2, <1>4, <1>5, <1>6, SimpleMove

LEMMA CheckForwardingIInv ==
  ASSUME IInv, NEW a \in Attempts, CheckForwarding(a)
  PROVE  IInv'
<1>0. /\ a \in held["start"] /\ {a} \in SUBSET held["start"]
      /\ UNCHANGED <<presenting, safari, url, started, answered, abandoned>>
      /\ UNCHANGED <<pageVars, calls, receiptTimers>>
  BY DEF CheckForwarding, pageVars, calls, credVars
<1>1. CASE Move("start", "probe", {a}) /\ probeTimer' /\ UNCHANGED tokenVars
  <2>1. "start" \in Places \ {"page", "dismiss"} /\ "probe" \in Places \ {"page", "dismiss"}
    BY DEF Places
  <2>2. held'["token"] = held["token"] /\ held'["push"] = held["push"]
    BY <1>0, <1>1, <2>1, Elsewhere
  <2>3. /\ held'["token"] # {} => batch' \in tokenTimers'
        /\ held'["push"] \subseteq receiptTimers'
    BY <1>0, <1>1, <2>2 DEF IInv, WaitersAreWoken, tokenVars
  <2> QED
    BY <1>0, <1>1, <2>1, <2>3, PlainMove
<1>2. CASE VerifyClient("start", {a}) /\ held["probe"] = {}
  <2>1. ClientPlace(credential) \in {"send", "client", "token"}
    BY DEF ClientPlace
  <2>2. held'["probe"] = held["probe"]
    <3>1. /\ ClientPlace(credential) \in Places \ {"probe", "start"}
          /\ "start" \in Places
      BY <2>1 DEF Places
    <3> QED
      BY <1>0, <1>2, <3>1, Elsewhere DEF VerifyClient
  <2> QED
    BY <1>0, <1>2, <2>2, VerifyClientEffect
<1>3. CASE Move("start", "answer", {a}) /\ UNCHANGED <<probeVars, tokenVars>>
  <2>1. "start" \in Places \ {"page", "dismiss"} /\ "answer" \in Places \ {"page", "dismiss"}
    BY DEF Places
  <2>2. held'["token"] = held["token"] /\ held'["probe"] = held["probe"]
    BY <1>0, <1>3, <2>1, Elsewhere
  <2>3. /\ held'["token"] # {} => batch' \in tokenTimers'
        /\ held'["probe"] # {} => probeTimer'
    BY <1>3, <2>2 DEF IInv, WaitersAreWoken, tokenVars, probeVars
  <2> QED
    BY <1>0, <1>3, <2>1, <2>3, SimpleMove
<1>4. held["probe"] # {} => probeTimer
  BY DEF IInv, WaitersAreWoken
<1> QED
  BY <1>1, <1>2, <1>3, <1>4 DEF CheckForwarding, probeVars

\* A step that leaves the blocks where they are
LEMMA NoMove ==
  ASSUME IInv,
         UNCHANGED <<held, presenting, safari, url, started, answered, abandoned>>,
         held["probe"] # {} => probeTimer',
         held["token"] # {} => batch' \in tokenTimers',
         held["push"] \subseteq receiptTimers'
  PROVE  IInv'
<1>1. HeldType' /\ Unique' /\ Served' /\ UrlType' /\ Waiting' = Waiting
  BY DEF IInv, HeldType, Unique, Served, UrlType, Waiting
<1>2. InFlight' = InFlight
  BY DEF InFlight
<1>3. WaitersAreWoken'
  BY DEF IInv, WaitersAreWoken, PageIsHeld
<1> QED
  BY <1>1, <1>2, <1>3 DEF IInv

LEMMA CallBackIInv ==
  ASSUME IInv, NEW verdict \in BOOLEAN, CallBack(verdict),
         UNCHANGED <<credVars, pageVars, calls>>
  PROVE  IInv'
<1>0. /\ UNCHANGED <<presenting, safari, url, started, answered, abandoned>>
      /\ UNCHANGED <<pageVars, calls, receiptTimers>>
      /\ "probe" \in Places
  BY DEF pageVars, calls, credVars, Places
<1>1. CASE held["probe"] = {} /\ UNCHANGED <<held, tokenVars>>
  BY <1>0, <1>1, NoMove DEF IInv, WaitersAreWoken, tokenVars
<1>2. CASE VerifyClient("probe", held["probe"])
  <2>1. /\ ClientPlace(credential) \in Places \ {"probe"}
        /\ Move("probe", ClientPlace(credential), held["probe"])
    BY <1>2 DEF VerifyClient, ClientPlace, Places
  <2>2. held'["probe"] = {}
    BY <1>0, <2>1, Elsewhere
  <2> QED
    BY <1>0, <1>2, <2>2, VerifyClientEffect
<1>3. CASE Move("probe", "answer", held["probe"]) /\ UNCHANGED tokenVars
  <2>1. "probe" \in Places \ {"page", "dismiss"} /\ "answer" \in Places
    BY DEF Places
  <2>2. held'["probe"] = {} /\ held'["token"] = held["token"]
    BY <1>0, <1>3, <2>1, Elsewhere
  <2>3. held'["token"] # {} => batch' \in tokenTimers'
    BY <1>3, <2>2 DEF IInv, WaitersAreWoken, tokenVars
  <2> QED
    BY <1>0, <1>3, <2>1, <2>2, <2>3, SimpleMove
<1> QED
  BY <1>1, <1>2, <1>3 DEF CallBack

LEMMA CallBackWithTokenIInv ==
  ASSUME IInv, NEW ok \in BOOLEAN, CallBackWithToken(ok),
         UNCHANGED <<probeVars, credVars, pageVars, calls>>
  PROVE  IInv'
<1> DEFINE to == IF ok THEN "client" ELSE "domain"
<1>0. UNCHANGED <<presenting, safari, url, started, answered, abandoned, receiptTimers>>
  BY DEF pageVars, calls, credVars
<1>1. /\ "token" \in Places \ {"page", "dismiss"}
      /\ to \in {"client", "domain"} /\ to \in Places
      /\ Move("token", to, held["token"])
  BY DEF CallBackWithToken, Places
<1> HIDE DEF to
<1>2. held'["token"] = {} /\ held'["probe"] = held["probe"]
  BY <1>1, Elsewhere
<1>3. held'["probe"] # {} => probeTimer'
  BY <1>2 DEF IInv, WaitersAreWoken, probeVars
<1> QED
  BY <1>0, <1>1, <1>2, <1>3, SimpleMove

LEMMA TokenStepsIInv ==
  ASSUME IInv,
         DidRegister \/ DidFailToRegister \/ \E b \in tokenTimers : TokenTimeout(b)
  PROVE  IInv'
<1>1. CASE DidRegister
  BY <1>1, CallBackWithTokenIInv DEF DidRegister
<1>2. CASE DidFailToRegister
  BY <1>2, CallBackWithTokenIInv DEF DidFailToRegister
<1>3. ASSUME NEW b \in tokenTimers, TokenTimeout(b)
      PROVE  IInv'
  <2>1. CASE b = batch
    BY <1>3, <2>1, CallBackWithTokenIInv DEF TokenTimeout
  <2>2. CASE b # batch
    BY <1>3, <2>2, NoMove
       DEF TokenTimeout, IInv, WaitersAreWoken, probeVars, credVars, pageVars, calls
  <2> QED
    BY <2>1, <2>2
<1> QED
  BY <1>1, <1>2, <1>3

LEMMA DidStartVerificationIInv ==
  ASSUME IInv, NEW a \in Attempts, DidStartVerification(a)
  PROVE  IInv'
<1>1. /\ "client" \in Places \ {"page", "dismiss"}
      /\ "push" \in Places \ {"page", "dismiss"}
      /\ {a} \in SUBSET held["client"] /\ Move("client", "push", {a})
  BY DEF DidStartVerification, Places
<1>2. /\ held'["probe"] = held["probe"] /\ held'["token"] = held["token"]
      /\ held'["push"] = held["push"] \cup {a}
  BY <1>1, Elsewhere
<1>3. /\ UNCHANGED <<presenting, safari, url, started, answered, abandoned>>
      /\ UNCHANGED <<probeTimer, batch, tokenTimers>>
      /\ receiptTimers' = receiptTimers \cup {a}
  BY DEF DidStartVerification, pageVars, calls, probeVars, tokenVars
<1>4. /\ held'["probe"] # {} => probeTimer'
      /\ held'["token"] # {} => batch' \in tokenTimers'
      /\ held'["push"] \subseteq receiptTimers'
  BY <1>2, <1>3 DEF IInv, WaitersAreWoken
<1> QED
  BY <1>1, <1>3, <1>4, PlainMove

LEMMA CallBackWithReceiptIInv ==
  ASSUME IInv, NEW r, NEW cred, CallBackWithReceipt(r, cred),
         receiptTimers' \in {receiptTimers, receiptTimers \ {r}},
         UNCHANGED <<probeVars, tokenVars, pageVars, calls>>
  PROVE  IInv'
<1>0. /\ UNCHANGED <<presenting, safari, url, started, answered, abandoned>>
      /\ UNCHANGED <<probeTimer, batch, tokenTimers>>
  BY DEF pageVars, calls, probeVars, tokenVars
<1>1. CASE r \notin held["push"]
  BY <1>0, <1>1, NoMove DEF CallBackWithReceipt, IInv, WaitersAreWoken
<1>2. CASE r \in held["push"]
  <2>1. PICK to \in {"send", "domain"} : Move("push", to, {r})
    BY <1>2 DEF CallBackWithReceipt
  <2>2. /\ "push" \in Places \ {"page", "dismiss"} /\ to \in Places
        /\ {r} \in SUBSET held["push"]
    BY <1>2 DEF Places
  <2>3. held'["probe"] = held["probe"] /\ held'["token"] = held["token"]
    BY <2>1, <2>2, Elsewhere
  <2>4. /\ held'["probe"] # {} => probeTimer'
        /\ held'["token"] # {} => batch' \in tokenTimers'
    BY <1>0, <2>3 DEF IInv, WaitersAreWoken
  <2> QED
    BY <1>0, <2>1, <2>2, <2>4, SimpleMove
<1> QED
  BY <1>1, <1>2

\* A move that touches the page: what is left to show is PageIsHeld.
LEMMA PageMove ==
  ASSUME IInv,
         NEW from \in {"domain", "page", "dismiss"},
         NEW to \in {"page", "dismiss", "send", "answer", "refused"}, from # to,
         NEW as \in SUBSET held[from],
         Move(from, to, as),
         UNCHANGED <<probeTimer, batch, tokenTimers, receiptTimers,
                     started, answered, abandoned>>,
         UrlType', PageIsHeld'
  PROVE  IInv'
<1>1. from \in Places /\ to \in Places
  BY DEF Places
<1>2. HeldType' /\ Unique' /\ InFlight' = InFlight
  BY <1>1, MoveEffect DEF IInv
<1>3. /\ held'["probe"] = held["probe"] /\ held'["token"] = held["token"]
      /\ held'["push"] = held["push"]
  BY <1>1, Elsewhere
<1>4. Waiting' = Waiting /\ Served'
  BY DEF IInv, Waiting, Served
<1> QED
  BY <1>2, <1>3, <1>4 DEF IInv, WaitersAreWoken

LEMMA PresentURLIInv ==
  ASSUME IInv, NEW a \in Attempts, PresentURL(a)
  PROVE  IInv'
<1>0. /\ {a} \in SUBSET held["domain"]
      /\ UNCHANGED <<probeTimer, batch, tokenTimers, receiptTimers,
                     started, answered, abandoned, safari, url>>
      /\ "domain" \in Places /\ "page" \in Places /\ "dismiss" \in Places
      /\ "refused" \in Places
  BY DEF PresentURL, probeVars, tokenVars, credVars, calls, Places
<1>1. UrlType'
  BY <1>0 DEF IInv, UrlType
<1>2. CASE presenting
  <2>1. Move("domain", "refused", {a}) /\ presenting' = presenting
    BY <1>2 DEF PresentURL
  <2>2. held'["page"] = held["page"] /\ held'["dismiss"] = held["dismiss"]
    BY <1>0, <2>1, MoveEffect DEF IInv
  <2>3. PageIsHeld'
    BY <1>0, <2>1, <2>2 DEF IInv, WaitersAreWoken, PageIsHeld
  <2> QED
    BY <1>0, <1>1, <2>1, <2>3, PageMove
<1>3. CASE ~presenting
  <2>1. Move("domain", "page", {a}) /\ presenting' = TRUE
    BY <1>3 DEF PresentURL
  <2>2. held'["page"] = held["page"] \cup {a} /\ held'["dismiss"] = held["dismiss"]
    BY <1>0, <2>1, MoveEffect DEF IInv
  <2>3. PageIsHeld'
    BY <1>0, <1>3, <2>1, <2>2 DEF IInv, WaitersAreWoken, PageIsHeld
  <2> QED
    BY <1>0, <1>1, <2>1, <2>3, PageMove
<1> QED
  BY <1>2, <1>3

LEMMA ShowPageIInv ==
  ASSUME IInv, NEW a \in Attempts, ShowPage(a) \/ TapDone(a)
  PROVE  IInv'
<1>0. /\ UNCHANGED <<held, presenting, url, started, answered, abandoned>>
      /\ UNCHANGED <<probeTimer, batch, tokenTimers, receiptTimers>>
      /\ safari' = safari \/ (a \in held["page"] /\ safari' = a)
  BY DEF ShowPage, TapDone, probeVars, tokenVars, credVars, calls
<1>1. HeldType' /\ Unique' /\ Served' /\ UrlType' /\ Waiting' = Waiting
  BY <1>0 DEF IInv, HeldType, Unique, Served, UrlType, Waiting
<1>2. InFlight' = InFlight
  BY <1>0 DEF InFlight
<1>3. PageIsHeld'
  BY <1>0 DEF IInv, WaitersAreWoken, PageIsHeld
<1> QED
  BY <1>0, <1>1, <1>2, <1>3 DEF IInv, WaitersAreWoken

LEMMA CanHandleURLIInv ==
  ASSUME IInv, NEW u \in PageUrls, CanHandleURL(u)
  PROVE  IInv'
<1>0. /\ UNCHANGED <<probeTimer, batch, tokenTimers, receiptTimers,
                     started, answered, abandoned, presenting>>
      /\ url' = u /\ safari' = None /\ safari # None
      /\ Move("page", "dismiss", held["page"])
      /\ "page" \in Places /\ "dismiss" \in Places
  BY DEF CanHandleURL, probeVars, tokenVars, credVars, calls, Places
<1>1. UrlType'
  BY <1>0 DEF UrlType
<1>2. held'["page"] = {} /\ held'["dismiss"] = held["dismiss"] \cup held["page"]
  BY <1>0, Elsewhere
<1>3. PageIsHeld'
  BY <1>0, <1>2, NoneAssumption DEF IInv, WaitersAreWoken, PageIsHeld
<1> QED
  BY <1>0, <1>1, <1>3, PageMove

LEMMA SafariDidFinishIInv ==
  ASSUME IInv, NEW a \in Attempts, SafariDidFinish(a)
  PROVE  IInv'
<1>0. /\ UNCHANGED <<probeTimer, batch, tokenTimers, receiptTimers,
                     started, answered, abandoned, url>>
      /\ "page" \in Places /\ "dismiss" \in Places /\ "answer" \in Places
  BY DEF SafariDidFinish, probeVars, tokenVars, credVars, calls, Places
<1>1. CASE safari # a
  BY <1>0, <1>1, NoMove DEF SafariDidFinish, IInv, WaitersAreWoken
<1>2. CASE safari = a
  <2>1. safari' = None /\ presenting' = FALSE /\ Move("page", "answer", held["page"])
    BY <1>2 DEF SafariDidFinish
  <2>2. held'["page"] = {} /\ held'["dismiss"] = held["dismiss"]
    BY <1>0, <2>1, MoveEffect DEF IInv
  <2>3. held["dismiss"] = {}
    BY <1>2, NoneAssumption DEF IInv, WaitersAreWoken, PageIsHeld
  <2>4. PageIsHeld'
    BY <2>1, <2>2, <2>3 DEF PageIsHeld
  <2>5. UrlType'
    BY <1>0 DEF IInv, UrlType
  <2> QED
    BY <1>0, <2>1, <2>4, <2>5, PageMove
<1> QED
  BY <1>1, <1>2

\* The only place where the assumption on the page's URL is needed
LEMMA FinishBlockIInv ==
  ASSUME IInv, NEW a \in Attempts, FinishBlock(a), "bare" \notin PageUrls
  PROVE  IInv'
<1>0. /\ UNCHANGED <<probeTimer, batch, tokenTimers, receiptTimers,
                     started, answered, abandoned, safari>>
      /\ {a} \in SUBSET held["dismiss"] /\ presenting' = FALSE /\ url' = None
      /\ "page" \in Places /\ "dismiss" \in Places
      /\ "answer" \in Places /\ "send" \in Places
  BY DEF FinishBlock, probeVars, tokenVars, credVars, calls, Places
<1>1. held["page"] = {} /\ held["dismiss"] = {a} /\ safari = None /\ url # None
  BY <1>0 DEF IInv, WaitersAreWoken, PageIsHeld
<1>2. url # "bare"
  BY <1>1 DEF IInv, UrlType
<1>3. PICK to \in {"send", "answer"} : Move("dismiss", to, {a})
  BY <1>2 DEF FinishBlock
<1>4. held'["page"] = held["page"] /\ held'["dismiss"] = held["dismiss"] \ {a}
  BY <1>0, <1>3, MoveEffect DEF IInv
<1>5. PageIsHeld' /\ UrlType'
  BY <1>0, <1>1, <1>4 DEF PageIsHeld, UrlType
<1> QED
  BY <1>0, <1>3, <1>5, PageMove

LEMMA SendRejectedIInv ==
  ASSUME IInv, NEW a \in Attempts, SendRejected(a)
  PROVE  IInv'
<1>0. /\ UNCHANGED <<presenting, safari, url, started, answered, abandoned>>
      /\ UNCHANGED <<probeTimer, receiptTimers>>
      /\ a \in held["send"] /\ {a} \in SUBSET held["send"]
      /\ "send" \in Places \ {"page", "dismiss"} /\ "answer" \in Places
  BY DEF SendRejected, pageVars, calls, probeVars, Places
<1>1. CASE a[2] = 2 /\ Move("send", "answer", {a}) /\ UNCHANGED tokenVars
  <2>1. held'["probe"] = held["probe"] /\ held'["token"] = held["token"]
    BY <1>0, <1>1, Elsewhere
  <2>2. /\ held'["probe"] # {} => probeTimer'
        /\ held'["token"] # {} => batch' \in tokenTimers'
    BY <1>0, <1>1, <2>1 DEF IInv, WaitersAreWoken, tokenVars
  <2> QED
    BY <1>0, <1>1, <2>2, SimpleMove
<1> DEFINE to == ClientPlace(None)
<1>2. CASE /\ held' = [held EXCEPT !["send"] = @ \ {a}, ![to] = @ \cup {<<a[1], 2>>}]
           /\ NewBatch(to)
  <2>1. to \in {"client", "token"} /\ to \in Places /\ to # "send"
    BY DEF ClientPlace, Places
  <2> HIDE DEF to
  <2>2. /\ HeldType' /\ Unique' /\ InFlight' = InFlight
        /\ \A p \in Places \ {"send", to} : held'[p] = held[p]
    BY <1>0, <1>2, <2>1, RetryEffect DEF IInv
  <2>3. /\ held'["probe"] = held["probe"] /\ held'["push"] = held["push"]
        /\ held'["page"] = held["page"] /\ held'["dismiss"] = held["dismiss"]
        /\ to # "token" => held'["token"] = held["token"]
    BY <2>1, <2>2 DEF Places
  <2>4. held'["token"] # {} => batch' \in tokenTimers'
    <3>1. NewBatch(to)
      BY <1>2
    <3> QED
      BY <2>3, <3>1 DEF NewBatch, IInv, WaitersAreWoken
  <2>5. PageIsHeld'
    BY <1>0, <2>3 DEF IInv, WaitersAreWoken, PageIsHeld
  <2>6. Waiting' = Waiting /\ Served' /\ UrlType'
    BY <1>0 DEF IInv, Waiting, Served, UrlType
  <2> QED
    BY <1>0, <2>2, <2>3, <2>4, <2>5, <2>6 DEF IInv, WaitersAreWoken
<1> QED
  BY <1>1, <1>2 DEF SendRejected

\* What a call adds to the places, and what its completion takes away
LEMMA CallsEffect ==
  ASSUME IInv
  PROVE  /\ \A c \in Calls : VerifyPhoneNumber(c) =>
              /\ HeldType' /\ Unique' /\ InFlight' = InFlight \cup {c}
              /\ \A p \in Places \ {"start"} : held'[p] = held[p]
         /\ \A a \in Attempts : Complete(a) =>
              /\ HeldType' /\ Unique' /\ InFlight' = InFlight \ {a[1]}
              /\ a[1] \in InFlight
              /\ \A p \in Places \ {"answer"} : held'[p] = held[p]
<1>0. /\ "start" \in Places /\ "answer" \in Places
      /\ HeldType /\ Unique /\ InFlight = Waiting
  BY DEF Places, IInv
<1>1. ASSUME NEW c \in Calls, VerifyPhoneNumber(c)
      PROVE  /\ HeldType' /\ Unique' /\ InFlight' = InFlight \cup {c}
             /\ \A p \in Places \ {"start"} : held'[p] = held[p]
  <2> DEFINE new == <<c, 1>>
  <2>1. new \in Attempts /\ new[1] = c /\ c \notin InFlight
    BY <1>0, <1>1 DEF Attempts, VerifyPhoneNumber, Waiting
  <2>2. held' = [held EXCEPT !["start"] = @ \cup {new}]
    BY <1>1 DEF VerifyPhoneNumber
  <2> HIDE DEF new
  <2>3. /\ held'["start"] = held["start"] \cup {new}
        /\ \A p \in Places \ {"start"} : held'[p] = held[p]
    BY <1>0, <2>2 DEF HeldType
  <2>4. HeldType'
    BY <1>0, <2>1, <2>2 DEF HeldType
  <2>5. \A p \in Places : \A a \in held[p] : a[1] # c
    BY <2>1, InFlightMember
  <2>6. Unique'
    <3>1. SUFFICES ASSUME NEW p \in Places, NEW q \in Places,
                          NEW x \in held'[p], NEW y \in held'[q], x[1] = y[1]
                   PROVE  p = q /\ x = y
      BY DEF Unique
    <3>2. /\ x \in held[p] \/ (p = "start" /\ x = new)
          /\ y \in held[q] \/ (q = "start" /\ y = new)
      BY <2>3
    <3>3. CASE x \in held[p]
      BY <1>0, <2>1, <2>5, <3>1, <3>2, <3>3 DEF Unique
    <3>4. CASE p = "start" /\ x = new
      BY <2>1, <2>5, <3>1, <3>2, <3>4
    <3> QED
      BY <3>2, <3>3, <3>4
  <2>7. ASSUME NEW d PROVE d \in InFlight' <=> d \in InFlight \/ d = c
    BY <1>0, <2>1, <2>3, InFlightMember, InFlightMemberNext
  <2> QED
    BY <2>3, <2>4, <2>6, <2>7
<1>2. ASSUME NEW a \in Attempts, Complete(a)
      PROVE  /\ HeldType' /\ Unique' /\ InFlight' = InFlight \ {a[1]}
             /\ a[1] \in InFlight
             /\ \A p \in Places \ {"answer"} : held'[p] = held[p]
  <2>1. /\ held'["answer"] = held["answer"] \ {a}
        /\ \A p \in Places \ {"answer"} : held'[p] = held[p]
        /\ HeldType' /\ a \in held["answer"]
    BY <1>0, <1>2 DEF Complete, HeldType
  <2>2. \A p \in Places : \A x \in held'[p] : x \in held[p] /\ (p = "answer" => x # a)
    BY <2>1
  <2>3. Unique'
    <3>1. SUFFICES ASSUME NEW p \in Places, NEW q \in Places,
                          NEW x \in held'[p], NEW y \in held'[q], x[1] = y[1]
                   PROVE  p = q /\ x = y
      BY DEF Unique
    <3>2. x \in held[p] /\ y \in held[q]
      BY <2>2
    <3> QED
      BY <1>0, <3>1, <3>2 DEF Unique
  <2>4. \A p \in Places : \A x \in held'[p] : x[1] # a[1]
    BY <1>0, <2>1, <2>2 DEF Unique
  <2>5. \A p \in Places : \A x \in held[p] : x[1] # a[1] => x \in held'[p]
    BY <2>1
  <2>6. ASSUME NEW d PROVE d \in InFlight' <=> d \in InFlight /\ d # a[1]
    <3>1. d \in InFlight <=> \E p \in Places : \E x \in held[p] : x[1] = d
      BY InFlightMember
    <3>2. d \in InFlight' <=> \E p \in Places : \E x \in held'[p] : x[1] = d
      BY InFlightMemberNext
    <3> QED
      BY <2>2, <2>4, <2>5, <3>1, <3>2
  <2>7. a[1] \in InFlight
    BY <1>0, <2>1, InFlightMember
  <2> QED
    BY <2>1, <2>3, <2>6, <2>7
<1> QED
  BY <1>1, <1>2

LEMMA CallsIInv ==
  ASSUME IInv,
         \/ \E c \in Calls : VerifyPhoneNumber(c)
         \/ \E a \in Attempts : Complete(a)
  PROVE  IInv'
<1>1. /\ UNCHANGED <<presenting, safari, url, probeTimer, batch, tokenTimers,
                     receiptTimers, abandoned>>
      /\ held'["probe"] = held["probe"] /\ held'["token"] = held["token"]
      /\ held'["push"] = held["push"]
      /\ held'["page"] = held["page"] /\ held'["dismiss"] = held["dismiss"]
  BY CallsEffect DEF VerifyPhoneNumber, Complete, pageVars, probeVars, tokenVars,
                     credVars, Places
<1>2. WaitersAreWoken' /\ UrlType'
  BY <1>1 DEF IInv, WaitersAreWoken, PageIsHeld, UrlType
<1>3. CASE \E c \in Calls : VerifyPhoneNumber(c)
  <2>1. PICK c \in Calls : VerifyPhoneNumber(c)
    BY <1>3
  <2>2. Waiting' = Waiting \cup {c} /\ Served'
    BY <1>1, <2>1 DEF VerifyPhoneNumber, Waiting, IInv, Served
  <2> QED
    BY <1>2, <2>1, <2>2, CallsEffect DEF IInv
<1>4. CASE \E a \in Attempts : Complete(a)
  <2>1. PICK a \in Attempts : Complete(a)
    BY <1>4
  <2>2. a[1] \in Waiting
    BY <2>1, CallsEffect DEF IInv
  <2>3. Waiting' = Waiting \ {a[1]} /\ Served'
    BY <1>1, <2>1, <2>2 DEF Complete, Waiting, IInv, Served
  <2> QED
    BY <1>2, <2>1, <2>3, CallsEffect DEF IInv
<1> QED
  BY <1>3, <1>4

\* No place holds anything in a process that has just started.
LEMMA EmptyIInv ==
  ASSUME held = [p \in Places |-> {}]
  PROVE  /\ HeldType /\ Unique /\ InFlight = {}
         /\ \A p \in Places : held[p] = {}
<1>1. HeldType /\ \A p \in Places : held[p] = {}
  BY DEF HeldType
<1>2. Unique
  BY <1>1 DEF Unique
<1>3. ASSUME NEW c PROVE c \notin InFlight
  BY <1>1, InFlightMember
<1> QED
  BY <1>1, <1>2, <1>3

LEMMA InitIInv == Init => IInv
<1> SUFFICES ASSUME Init PROVE IInv
  OBVIOUS
<1>1. /\ HeldType /\ Unique /\ InFlight = {}
      /\ \A p \in Places : held[p] = {}
  BY EmptyIInv DEF Init
<1>2. Waiting = {} /\ Served /\ UrlType
  BY DEF Init, Waiting, Served, UrlType
<1>3. WaitersAreWoken
  BY <1>1 DEF Init, WaitersAreWoken, PageIsHeld, Places
<1> QED
  BY <1>1, <1>2, <1>3 DEF IInv

LEMMA KillIInv ==
  ASSUME IInv, Kill PROVE IInv'
<1>1. /\ HeldType' /\ Unique' /\ InFlight' = {}
      /\ \A p \in Places : held'[p] = {}
  <2>1. held' = [p \in Places |-> {}]
    BY DEF Kill
  <2>2. HeldType' /\ \A p \in Places : held'[p] = {}
    BY <2>1 DEF HeldType
  <2>3. Unique'
    BY <2>2 DEF Unique
  <2>4. ASSUME NEW c PROVE c \notin InFlight'
    BY <2>2, InFlightMemberNext
  <2> QED
    BY <2>2, <2>3, <2>4
<1>2. Waiting' = {} /\ Served' /\ UrlType'
  BY DEF Kill, Waiting, IInv, Served, UrlType
<1>3. WaitersAreWoken'
  BY <1>1 DEF Kill, WaitersAreWoken, PageIsHeld, Places
<1> QED
  BY <1>1, <1>2, <1>3 DEF IInv

LEMMA NextIInv ==
  ASSUME IInv, [Next]_vars, "bare" \notin PageUrls
  PROVE  IInv'
<1>1. CASE \E c \in Calls : VerifyPhoneNumber(c)
  BY <1>1, CallsIInv
<1>2. ASSUME NEW a \in Attempts, Block(a)
      PROVE  IInv'
  BY <1>2, WorkingStepsIInv, CheckForwardingIInv, ShowPageIInv,
     SafariDidFinishIInv, FinishBlockIInv, CallsIInv DEF Block
<1>3. ASSUME NEW a \in Attempts, Reply(a)
      PROVE  IInv'
  BY <1>3, WorkingStepsIInv, DidStartVerificationIInv, PresentURLIInv,
     SendRejectedIInv DEF Reply
<1>4. ASSUME NEW r \in Attempts, NEW secret \in BOOLEAN, ReceivePush(r, secret)
      PROVE  IInv'
  BY <1>4, CallBackWithReceiptIInv DEF ReceivePush
<1>5. CASE ProberArrives
  <2>1. PICK verdict \in BOOLEAN : CallBack(verdict)
    <3>1. CASE held["probe"] = {}
      BY <1>5, <3>1 DEF ProberArrives, CallBack
    <3>2. CASE held["probe"] # {}
      BY <1>5, <3>2 DEF ProberArrives
    <3> QED
      BY <3>1, <3>2
  <2> QED
    BY <1>5, <2>1, CallBackIInv DEF ProberArrives
<1>6. CASE DidRegister \/ DidFailToRegister
  BY <1>6, TokenStepsIInv
<1>7. CASE Timer
  <2>1. CASE ProbeTimeout
    <3>1. PICK verdict \in BOOLEAN : CallBack(verdict)
      BY <2>1 DEF ProbeTimeout, CallBack
    <3> QED
      BY <2>1, <3>1, CallBackIInv DEF ProbeTimeout
  <2>2. CASE \E b \in tokenTimers : TokenTimeout(b)
    BY <2>2, TokenStepsIInv
  <2>3. ASSUME NEW r \in receiptTimers, ReceiptTimeout(r)
        PROVE  IInv'
    BY <2>3, CallBackWithReceiptIInv DEF ReceiptTimeout
  <2> QED
    BY <1>7, <2>1, <2>2, <2>3 DEF Timer
<1>8. CASE User
  BY <1>8, CanHandleURLIInv, ShowPageIInv DEF User
<1>9. CASE Kill
  BY <1>9, KillIInv
<1>10. CASE UNCHANGED vars
  BY <1>10, NoMove DEF vars, IInv, WaitersAreWoken, probeVars, tokenVars, credVars,
                       pageVars, calls
<1> QED
  BY <1>1, <1>2, <1>3, <1>4, <1>5, <1>6, <1>7, <1>8, <1>9, <1>10 DEF Next

-----------------------------------------------------------------------------
(* The list of pending receipts                                            *)

NoDup(s) == \A i, j \in DOMAIN s : s[i] = s[j] => i = j

\* A list of receipts the manager may keep
Kept(s) == s \in Seq(Attempts) /\ Len(s) <= MaxPending /\ NoDup(s)

\* removeObject: shortens the list or leaves it, and takes the receipt out.
LEMMA WithoutEffect ==
  ASSUME NEW s \in Seq(Attempts), NoDup(s), NEW r
  PROVE  /\ Without(s, r) \in Seq(Attempts)
         /\ Len(Without(s, r)) <= Len(s)
         /\ NoDup(Without(s, r))
         /\ \A j \in DOMAIN Without(s, r) : Without(s, r)[j] # r
<1>1. CASE ~\E i \in DOMAIN s : s[i] = r
  BY <1>1 DEF Without
<1>2. CASE \E i \in DOMAIN s : s[i] = r
  <2> DEFINE k == CHOOSE i \in DOMAIN s : s[i] = r
             t == [j \in 1..(Len(s) - 1) |-> IF j < k THEN s[j] ELSE s[j + 1]]
  <2>1. k \in DOMAIN s /\ s[k] = r
    BY <1>2
  <2>2. Without(s, r) = t
    BY <1>2 DEF Without
  <2> HIDE DEF k
  <2>3. /\ Len(s) \in Nat /\ k \in 1..Len(s) /\ DOMAIN s = 1..Len(s)
        /\ \A i \in 1..Len(s) : s[i] \in Attempts
    BY <2>1
  <2>4. t \in Seq(Attempts) /\ Len(t) = Len(s) - 1
    <3>1. \A j \in 1..(Len(s) - 1) : t[j] \in Attempts
      BY <2>3
    <3>2. Len(s) - 1 \in Nat
      BY <2>3
    <3>3. t \in [1..(Len(s) - 1) -> Attempts]
      BY <3>1
    <3> QED
      BY <3>2, <3>3
  <2>5. DOMAIN t = 1..(Len(s) - 1)
    OBVIOUS
  <2>6. \A j \in DOMAIN t : t[j] = s[IF j < k THEN j ELSE j + 1]
                            /\ (IF j < k THEN j ELSE j + 1) \in 1..Len(s)
                            /\ (IF j < k THEN j ELSE j + 1) # k
    BY <2>3, <2>5
  <2> HIDE DEF t
  <2>7. NoDup(t)
    BY <2>3, <2>5, <2>6 DEF NoDup
  <2>8. \A j \in DOMAIN t : t[j] # r
    BY <2>1, <2>3, <2>6 DEF NoDup
  <2> QED
    BY <2>2, <2>3, <2>4, <2>7, <2>8
<1> QED
  BY <1>1, <1>2

\* didStartVerificationWithReceipt: makes room before it adds.
LEMMA AddedReceipt ==
  ASSUME NEW s, Kept(s), NEW a \in Attempts
  PROVE  LET kept == Without(s, a)
             room == IF Len(kept) >= MaxPending THEN Tail(kept) ELSE kept
         IN Kept(Append(room, a))
<1> DEFINE kept == Without(s, a)
           room == IF Len(kept) >= MaxPending THEN Tail(kept) ELSE kept
<1>1. /\ kept \in Seq(Attempts) /\ Len(kept) <= MaxPending /\ NoDup(kept)
      /\ \A j \in DOMAIN kept : kept[j] # a
  <2>1. s \in Seq(Attempts) /\ NoDup(s) /\ Len(s) <= MaxPending
    BY DEF Kept
  <2> QED
    BY <2>1, WithoutEffect, MaxPendingAssumption
<1> HIDE DEF kept
<1>2. /\ room \in Seq(Attempts) /\ Len(room) < MaxPending /\ NoDup(room)
      /\ \A j \in DOMAIN room : room[j] # a
  <2>1. CASE Len(kept) >= MaxPending
    <3>1. kept # <<>> /\ Len(kept) \in Nat /\ Len(kept) = MaxPending
      BY <1>1, <2>1, MaxPendingAssumption
    <3>2. /\ room = Tail(kept) /\ room \in Seq(Attempts) /\ Len(room) = Len(kept) - 1
          /\ \A j \in 1..Len(room) : room[j] = kept[j + 1]
      BY <1>1, <2>1, <3>1
    <3> HIDE DEF room
    <3>3. DOMAIN room = 1..Len(room) /\ DOMAIN kept = 1..Len(kept)
      BY <1>1, <3>2
    <3> QED
      BY <1>1, <3>1, <3>2, <3>3, MaxPendingAssumption DEF NoDup
  <2>2. CASE ~(Len(kept) >= MaxPending)
    BY <1>1, <2>2, MaxPendingAssumption
  <2> QED
    BY <2>1, <2>2
<1> HIDE DEF room
<1>3. /\ Append(room, a) \in Seq(Attempts) /\ Len(Append(room, a)) = Len(room) + 1
      /\ DOMAIN Append(room, a) = 1..(Len(room) + 1) /\ Len(room) \in Nat
      /\ \A j \in 1..Len(room) : Append(room, a)[j] = room[j]
      /\ Append(room, a)[Len(room) + 1] = a
  BY <1>2
<1>4. NoDup(Append(room, a))
  <2>1. DOMAIN room = 1..Len(room)
    BY <1>2
  <2> QED
    BY <1>2, <1>3, <2>1 DEF NoDup
<1>5. Kept(Append(room, a))
  BY <1>2, <1>3, <1>4, MaxPendingAssumption DEF Kept
<1> QED
  BY <1>5 DEF room, kept

CredInv ==
  /\ Kept(pendingReceipts) /\ Kept(keychain.pending)
  /\ credential \in Credential \cup {None} /\ synced \in BOOLEAN
  /\ keychain \in [credential : Credential \cup {None}, pending : Seq(Attempts)]
  /\ synced => keychain = [credential |-> credential, pending |-> pendingReceipts]

\* saveData keeps the keychain fit to be read back, whether it fails or not.
LEMMA SaveDataCredInv ==
  ASSUME CredInv, NEW n, Kept(pendingReceipts'), credential' \in Credential \cup {None},
         SaveData(credential', pendingReceipts', n)
  PROVE  CredInv'
<1>1. CASE keychain' = keychain /\ synced' = FALSE
  BY <1>1 DEF CredInv
<1>2. CASE /\ keychain' = [credential |-> credential', pending |-> pendingReceipts']
           /\ synced' = TRUE
  BY <1>2 DEF CredInv, Kept
<1> QED
  BY <1>1, <1>2 DEF SaveData

LEMMA NextCredInv ==
  ASSUME CredInv, [Next]_vars
  PROVE  CredInv'
<1>1. ASSUME NEW a \in Attempts, DidStartVerification(a)
      PROVE  CredInv'
  <2>1. Kept(pendingReceipts')
    BY <1>1, AddedReceipt DEF DidStartVerification, CredInv
  <2>2. /\ credential' = credential
        /\ SaveData(credential', pendingReceipts', 0)
    BY <1>1 DEF DidStartVerification, SaveData
  <2> QED
    BY <2>1, <2>2, SaveDataCredInv DEF CredInv
<1>2. ASSUME NEW r \in Attempts, NEW secret \in BOOLEAN, ReceivePush(r, secret)
      PROVE  CredInv'
  <2>1. pendingReceipts' = Without(pendingReceipts, r)
    BY <1>2 DEF ReceivePush
  <2>2. Kept(pendingReceipts')
    <3>1. /\ pendingReceipts \in Seq(Attempts) /\ NoDup(pendingReceipts)
          /\ Len(pendingReceipts) <= MaxPending
      BY DEF CredInv, Kept
    <3> QED
      BY <2>1, <3>1, WithoutEffect, MaxPendingAssumption DEF Kept
  <2>3. credential' \in Credential
    BY <1>2 DEF ReceivePush, Credential
  <2>4. PICK n : SaveData(credential', pendingReceipts', n)
    BY <1>2 DEF ReceivePush
  <2> QED
    BY <2>2, <2>3, <2>4, SaveDataCredInv
<1>3. ASSUME NEW a \in Attempts, SendRejected(a)
      PROVE  CredInv'
  <2>1. CASE a[2] = 2 /\ UNCHANGED <<credential, pendingReceipts, store>>
    BY <2>1 DEF CredInv, store
  <2>2. CASE /\ credential' = None /\ pendingReceipts' = pendingReceipts
             /\ SaveData(None, pendingReceipts, 1)
    <3>1. SaveData(credential', pendingReceipts', 1)
      BY <2>2
    <3>2. Kept(pendingReceipts')
      BY <2>2 DEF CredInv
    <3> QED
      BY <2>2, <3>1, <3>2, SaveDataCredInv
  <2> QED
    BY <1>3, <2>1, <2>2 DEF SendRejected
<1>4. CASE Kill
  <2>1. CASE /\ credential' = keychain.credential /\ pendingReceipts' = keychain.pending
             /\ synced' = TRUE /\ keychain' = keychain
    BY <2>1 DEF CredInv
  <2>2. CASE /\ credential' = None /\ pendingReceipts' = <<>>
             /\ synced' = FALSE /\ keychain' = keychain
    <3>1. Kept(<<>>)
      BY MaxPendingAssumption DEF Kept, NoDup
    <3> QED
      BY <2>2, <3>1 DEF CredInv
  <2> QED
    BY <1>4, <2>1, <2>2 DEF Kill
<1>5. CASE UNCHANGED <<credential, pendingReceipts, store>>
  BY <1>5 DEF CredInv, store
<1>6. CASE \E c \in Calls : VerifyPhoneNumber(c)
  BY <1>5, <1>6 DEF VerifyPhoneNumber, credVars
<1>7. ASSUME NEW a \in Attempts, Block(a)
      PROVE  UNCHANGED <<credential, pendingReceipts, store>>
  BY <1>7 DEF Block, MissingPhoneNumber, CheckForwarding, AlreadyPresented, ShowPage,
              SafariDidFinish, FinishBlock, Complete, credVars
<1>8. ASSUME NEW a \in Attempts, Reply(a)
      PROVE  CredInv'
  <2>1. CASE ClientRejected(a) \/ DomainFails(a) \/ PresentURL(a) \/ SendAnswered(a)
    BY <1>5, <2>1 DEF ClientRejected, DomainFails, PresentURL, SendAnswered, credVars
  <2> QED
    BY <1>1, <1>3, <1>8, <2>1 DEF Reply
<1>9. CASE ProberArrives \/ DidRegister \/ DidFailToRegister \/ Timer \/ User
  BY <1>5, <1>9 DEF ProberArrives, DidRegister, DidFailToRegister, Timer, ProbeTimeout,
     TokenTimeout, ReceiptTimeout, User, CanHandleURL, TapDone, credVars
<1>10. CASE UNCHANGED vars
  BY <1>5, <1>10 DEF vars, credVars
<1> QED
  BY <1>2, <1>4, <1>5, <1>6, <1>7, <1>8, <1>9, <1>10 DEF Next

-----------------------------------------------------------------------------
(* The types of what TypeOK says beyond CredInv                            *)

Flags == /\ checked \in BOOLEAN /\ forwarded \in BOOLEAN /\ prober \in BOOLEAN
         /\ probeTimer \in BOOLEAN /\ token \in BOOLEAN /\ presenting \in BOOLEAN

Sets == /\ batch \in Nat /\ tokenTimers \in SUBSET Nat
        /\ receiptTimers \in SUBSET Attempts /\ doneBlocks \in SUBSET Attempts
        /\ safari \in Attempts \cup {None} /\ UrlType
        /\ started \in SUBSET Calls /\ answered \in SUBSET Calls
        /\ abandoned \in SUBSET Calls /\ kills \in Nat /\ faults \in Nat

Types == HeldType /\ Flags /\ Sets

LEMMA MoveType ==
  ASSUME HeldType, NEW from, NEW to, NEW as \in SUBSET Attempts, Move(from, to, as)
  PROVE  HeldType'
BY DEF HeldType, Move

LEMMA NewBatchType ==
  ASSUME Types, NEW place, NewBatch(place)
  PROVE  batch' \in Nat /\ tokenTimers' \in SUBSET Nat /\ token' = token
<1>1. batch \in Nat /\ tokenTimers \in SUBSET Nat
  BY DEF Types, Sets
<1>2. batch + 1 \in Nat
  BY <1>1
<1>3. token' = token
  BY DEF NewBatch
<1>4. CASE batch' = batch + 1 /\ tokenTimers' = tokenTimers \cup {batch + 1}
  BY <1>1, <1>2, <1>3, <1>4
<1>5. CASE batch' = batch /\ tokenTimers' = tokenTimers
  BY <1>1, <1>3, <1>5
<1> QED
  BY <1>4, <1>5 DEF NewBatch

LEMMA NextHeldType ==
  ASSUME HeldType, [Next]_vars
  PROVE  HeldType'
<1>0. \A p \in Places : held[p] \in SUBSET Attempts
  BY DEF HeldType
<1>1. ASSUME NEW c \in Calls, VerifyPhoneNumber(c) PROVE HeldType'
  <2>1. <<c, 1>> \in Attempts
    BY DEF Attempts
  <2>2. held' = [held EXCEPT !["start"] = @ \cup {<<c, 1>>}]
    BY <1>1 DEF VerifyPhoneNumber
  <2> QED
    BY <2>1, <2>2 DEF HeldType
<1>2. ASSUME NEW from \in Places, NEW to, NEW as \in SUBSET Attempts, Move(from, to, as)
      PROVE  HeldType'
  BY <1>2, MoveType
<1>3. CASE held' = held
  BY <1>3 DEF HeldType
<1>4. "start" \in Places /\ "probe" \in Places /\ "token" \in Places
      /\ "page" \in Places /\ "client" \in Places /\ "domain" \in Places
      /\ "send" \in Places /\ "refused" \in Places /\ "push" \in Places
      /\ "dismiss" \in Places
  BY DEF Places
<1>5. ASSUME NEW a \in Attempts, Block(a) PROVE HeldType'
  <2>1. CASE Complete(a)
    BY <2>1 DEF Complete, HeldType
  <2>2. CASE FinishBlock(a)
    <3>1. CASE held' = [held EXCEPT !["dismiss"] = @ \ {a}]
      BY <3>1 DEF HeldType
    <3> QED
      BY <1>2, <1>4, <2>2, <3>1 DEF FinishBlock
  <2>3. CASE SafariDidFinish(a)
    BY <1>0, <1>2, <1>3, <1>4, <2>3 DEF SafariDidFinish
  <2>4. CASE CheckForwarding(a)
    BY <1>2, <1>4, <2>4 DEF CheckForwarding, VerifyClient
  <2>5. CASE MissingPhoneNumber(a) \/ AlreadyPresented(a)
    BY <1>2, <1>4, <2>5 DEF MissingPhoneNumber, AlreadyPresented
  <2>6. CASE ShowPage(a)
    BY <1>3, <2>6 DEF ShowPage
  <2> QED
    BY <1>5, <2>1, <2>2, <2>3, <2>4, <2>5, <2>6 DEF Block
<1>6. ASSUME NEW a \in Attempts, Reply(a) PROVE HeldType'
  <2>1. CASE SendRejected(a)
    <3>1. <<a[1], 2>> \in Attempts
      BY DEF Attempts
    <3>2. CASE Move("send", "answer", {a})
      BY <1>2, <1>4, <3>2
    <3>3. CASE \E to : held' = [held EXCEPT !["send"] = @ \ {a}, ![to] = @ \cup {<<a[1], 2>>}]
      BY <3>1, <3>3 DEF HeldType
    <3> QED
      BY <2>1, <3>2, <3>3 DEF SendRejected
  <2>2. CASE ClientRejected(a) \/ DidStartVerification(a) \/ DomainFails(a) \/ SendAnswered(a)
    BY <1>2, <1>4, <2>2 DEF ClientRejected, DidStartVerification, DomainFails, SendAnswered
  <2>3. CASE PresentURL(a)
    BY <1>2, <1>4, <2>3 DEF PresentURL
  <2> QED
    BY <1>6, <2>1, <2>2, <2>3 DEF Reply
<1>7. ASSUME NEW r, NEW cred, CallBackWithReceipt(r, cred) PROVE HeldType'
  <2>1. CASE r \in held["push"]
    <3>1. {r} \in SUBSET Attempts
      BY <1>0, <1>4, <2>1
    <3> QED
      BY <1>2, <1>4, <1>7, <2>1, <3>1 DEF CallBackWithReceipt
  <2>2. CASE r \notin held["push"]
    BY <1>3, <1>7, <2>2 DEF CallBackWithReceipt
  <2> QED
    BY <2>1, <2>2
<1>8. ASSUME NEW verdict, CallBack(verdict) PROVE HeldType'
  BY <1>0, <1>2, <1>3, <1>4, <1>8 DEF CallBack, VerifyClient
<1>9. ASSUME NEW ok, CallBackWithToken(ok) PROVE HeldType'
  BY <1>0, <1>2, <1>4, <1>9 DEF CallBackWithToken
<1>10. CASE \E r \in Attempts, secret \in BOOLEAN : ReceivePush(r, secret)
  BY <1>7, <1>10 DEF ReceivePush
<1>11. CASE ProberArrives
  BY <1>8, <1>11 DEF ProberArrives
<1>12. CASE DidRegister \/ DidFailToRegister
  BY <1>9, <1>12 DEF DidRegister, DidFailToRegister
<1>13. CASE Timer
  BY <1>3, <1>7, <1>8, <1>9, <1>13 DEF Timer, ProbeTimeout, TokenTimeout, ReceiptTimeout
<1>14. CASE User
  BY <1>0, <1>2, <1>3, <1>4, <1>14 DEF User, CanHandleURL, TapDone
<1>15. CASE Kill
  BY <1>15 DEF Kill, HeldType
<1>16. CASE UNCHANGED vars
  BY <1>3, <1>16 DEF vars
<1> QED
  BY <1>1, <1>5, <1>6, <1>10, <1>11, <1>12, <1>13, <1>14, <1>15, <1>16 DEF Next

LEMMA NextFlags ==
  ASSUME Flags, [Next]_vars
  PROVE  Flags'
<1> USE DEF Flags
<1>1. CASE UNCHANGED <<probeVars, token, presenting>>
  BY <1>1 DEF probeVars
<1>2. ASSUME NEW place, NewBatch(place) PROVE token' = token
  BY <1>2 DEF NewBatch
<1>3. ASSUME NEW a \in Attempts, Block(a) PROVE Flags'
  <2>1. CASE CheckForwarding(a)
    BY <2>1 DEF CheckForwarding, VerifyClient, NewBatch, probeVars, tokenVars, pageVars
  <2>2. CASE FinishBlock(a) \/ SafariDidFinish(a)
    BY <2>2 DEF FinishBlock, SafariDidFinish, probeVars, tokenVars
  <2>3. CASE MissingPhoneNumber(a) \/ AlreadyPresented(a) \/ ShowPage(a) \/ Complete(a)
    BY <1>1, <2>3 DEF MissingPhoneNumber, AlreadyPresented, ShowPage, Complete,
                      tokenVars, pageVars
  <2> QED
    BY <1>3, <2>1, <2>2, <2>3 DEF Block
<1>4. ASSUME NEW a \in Attempts, Reply(a) PROVE Flags'
  <2>1. CASE SendRejected(a)
    BY <1>1, <1>2, <2>1 DEF SendRejected, tokenVars, pageVars
  <2>2. CASE PresentURL(a)
    BY <2>2 DEF PresentURL, probeVars, tokenVars
  <2>3. CASE ClientRejected(a) \/ DidStartVerification(a) \/ DomainFails(a) \/ SendAnswered(a)
    BY <1>1, <2>3 DEF ClientRejected, DidStartVerification, DomainFails, SendAnswered,
                      tokenVars, pageVars
  <2> QED
    BY <1>4, <2>1, <2>2, <2>3 DEF Reply
<1>5. ASSUME NEW verdict, CallBack(verdict) PROVE token' = token
  BY <1>5 DEF CallBack, VerifyClient, NewBatch, tokenVars
<1>6. CASE ProberArrives
  BY <1>5, <1>6 DEF ProberArrives, pageVars
<1>7. CASE Timer
  <2>1. CASE ProbeTimeout
    BY <1>5, <2>1 DEF ProbeTimeout, pageVars
  <2>2. CASE ~ProbeTimeout
    BY <1>1, <1>7, <2>2 DEF Timer, TokenTimeout, ReceiptTimeout, tokenVars, pageVars
  <2> QED
    BY <2>1, <2>2
<1>8. CASE DidRegister \/ DidFailToRegister
  BY <1>8 DEF DidRegister, DidFailToRegister, probeVars, tokenVars, pageVars
<1>9. CASE User \/ \E c \in Calls : VerifyPhoneNumber(c)
  BY <1>1, <1>9 DEF User, CanHandleURL, TapDone, VerifyPhoneNumber, tokenVars, pageVars
<1>10. CASE \E r \in Attempts, secret \in BOOLEAN : ReceivePush(r, secret)
  BY <1>1, <1>10 DEF ReceivePush, tokenVars, pageVars
<1>11. CASE Kill
  BY <1>11 DEF Kill
<1>12. CASE UNCHANGED vars
  BY <1>1, <1>12 DEF vars, tokenVars, pageVars
<1> QED
  BY <1>3, <1>4, <1>6, <1>7, <1>8, <1>9, <1>10, <1>11, <1>12 DEF Next

LEMMA NextSets ==
  ASSUME Types, [Next]_vars
  PROVE  Sets'
<1>0. Sets /\ HeldType /\ "page" \in Places
  BY DEF Types, Places
<1>1. CASE /\ UNCHANGED <<receiptTimers, pageVars, calls, faults>>
           /\ batch' \in Nat /\ tokenTimers' \in SUBSET Nat
  BY <1>0, <1>1 DEF Sets, UrlType, pageVars, calls
<1>2. CASE UNCHANGED <<receiptTimers, tokenVars, pageVars, calls, faults>>
  BY <1>0, <1>1, <1>2 DEF Sets, tokenVars
<1>3. ASSUME NEW place, NewBatch(place)
      PROVE  batch' \in Nat /\ tokenTimers' \in SUBSET Nat
  BY <1>3, NewBatchType
<1>4. ASSUME UNCHANGED tokenVars PROVE batch' \in Nat /\ tokenTimers' \in SUBSET Nat
  BY <1>0, <1>4 DEF tokenVars, Sets
<1>5. ASSUME NEW cred, NEW pending, NEW n \in Nat, SaveData(cred, pending, n)
      PROVE  faults' \in Nat
  BY <1>0, <1>5 DEF SaveData, Sets
<1>6. CASE \E c \in Calls : VerifyPhoneNumber(c)
  BY <1>0, <1>6 DEF VerifyPhoneNumber, Sets, UrlType, tokenVars, credVars, pageVars
<1>7. ASSUME NEW a \in Attempts, Block(a) PROVE Sets'
  <2>1. CASE CheckForwarding(a)
    <3>1. batch' \in Nat /\ tokenTimers' \in SUBSET Nat
      BY <1>3, <1>4, <2>1 DEF CheckForwarding, VerifyClient
    <3> QED
      BY <1>1, <2>1, <3>1 DEF CheckForwarding, credVars
  <2>2. CASE ShowPage(a) \/ SafariDidFinish(a) \/ FinishBlock(a)
    BY <1>0, <2>2 DEF ShowPage, SafariDidFinish, FinishBlock, Sets, UrlType, tokenVars,
                      credVars, calls
  <2>3. CASE MissingPhoneNumber(a) \/ AlreadyPresented(a)
    BY <1>2, <2>3 DEF MissingPhoneNumber, AlreadyPresented, credVars
  <2>4. CASE Complete(a)
    <3>1. a[1] \in Calls
      BY DEF Attempts
    <3> QED
      BY <1>0, <2>4, <3>1 DEF Complete, Sets, UrlType, tokenVars, credVars, pageVars
  <2> QED
    BY <1>7, <2>1, <2>2, <2>3, <2>4 DEF Block
<1>8. ASSUME NEW a \in Attempts, Reply(a) PROVE Sets'
  <2>1. CASE SendRejected(a)
    <3>1. batch' \in Nat /\ tokenTimers' \in SUBSET Nat
      BY <1>3, <1>4, <2>1 DEF SendRejected
    <3>2. faults' \in Nat
      BY <1>0, <1>5, <2>1 DEF SendRejected, Sets
    <3> QED
      BY <1>0, <2>1, <3>1, <3>2 DEF SendRejected, Sets, UrlType, pageVars, calls
  <2>2. CASE PresentURL(a)
    BY <1>0, <2>2 DEF PresentURL, Sets, UrlType, tokenVars, credVars, calls
  <2>3. CASE ClientRejected(a) \/ DomainFails(a) \/ SendAnswered(a)
    BY <1>2, <2>3 DEF ClientRejected, DomainFails, SendAnswered, credVars
  <2>4. CASE DidStartVerification(a)
    <3>1. faults' \in Nat
      BY <1>5, <2>4 DEF DidStartVerification
    <3> QED
      BY <1>0, <2>4, <3>1 DEF DidStartVerification, Sets, UrlType, tokenVars, pageVars, calls
  <2> QED
    BY <1>8, <2>1, <2>2, <2>3, <2>4 DEF Reply
<1>9. ASSUME NEW r \in Attempts, NEW secret \in BOOLEAN, ReceivePush(r, secret)
      PROVE  Sets'
  <2>1. faults' \in Nat
    BY <1>5, <1>9 DEF ReceivePush
  <2> QED
    BY <1>0, <1>9, <2>1 DEF ReceivePush, Sets, UrlType, tokenVars, pageVars, calls
<1>10. ASSUME NEW verdict, CallBack(verdict)
       PROVE  batch' \in Nat /\ tokenTimers' \in SUBSET Nat
  BY <1>3, <1>4, <1>10 DEF CallBack, VerifyClient, tokenVars
<1>11. CASE ProberArrives
  BY <1>1, <1>10, <1>11 DEF ProberArrives, credVars
<1>12. CASE DidRegister \/ DidFailToRegister
  BY <1>0, <1>12 DEF DidRegister, DidFailToRegister, Sets, UrlType, tokenVars, credVars,
                     pageVars, calls
<1>13. CASE Timer
  <2>1. CASE ProbeTimeout
    BY <1>1, <1>10, <2>1 DEF ProbeTimeout, credVars
  <2>2. CASE \E b \in tokenTimers : TokenTimeout(b)
    BY <1>0, <2>2 DEF TokenTimeout, Sets, UrlType, credVars, pageVars, calls
  <2>3. CASE \E r \in receiptTimers : ReceiptTimeout(r)
    BY <1>0, <2>3 DEF ReceiptTimeout, Sets, UrlType, tokenVars, pageVars, calls
  <2> QED
    BY <1>13, <2>1, <2>2, <2>3 DEF Timer
<1>14. CASE User
  BY <1>0, <1>14 DEF User, CanHandleURL, TapDone, Sets, UrlType, tokenVars, credVars, calls
<1>15. CASE Kill
  <2>1. kills' \in Nat /\ faults' \in Nat
    BY <1>0, <1>15 DEF Kill, Sets
  <2>2. abandoned' \in SUBSET Calls
    BY <1>0, <1>15 DEF Kill, Sets, Waiting
  <2> QED
    BY <1>0, <1>15, <2>1, <2>2 DEF Kill, Sets, UrlType
<1>16. CASE UNCHANGED vars
  BY <1>2, <1>16 DEF vars, credVars
<1> QED
  BY <1>6, <1>7, <1>8, <1>9, <1>11, <1>12, <1>13, <1>14, <1>15, <1>16 DEF Next

-----------------------------------------------------------------------------
(* The theorems                                                            *)

LEMMA InitTypes == Init => Types
<1>1. ASSUME Init PROVE Types
  BY <1>1, EmptyIInv DEF Init, Types, Flags, Sets, UrlType
<1> QED
  BY <1>1

\* Every variable of the managers keeps its type, whatever the server, APNs,
\* the keychain and the user do.
THEOREM TypeCorrect == Spec => []TypeOK
<1>1. Init => Types /\ CredInv
  <2>1. ASSUME Init PROVE Types
    BY <2>1, InitTypes
  <2>2. ASSUME Init PROVE CredInv
    BY <2>2, MaxPendingAssumption DEF Init, CredInv, Kept, NoDup
  <2> QED
    BY <2>1, <2>2
<1>2. Types /\ [Next]_vars => Types'
  BY NextHeldType, NextFlags, NextSets DEF Types
<1>3. CredInv /\ [Next]_vars => CredInv'
  BY NextCredInv
<1>4. Types /\ CredInv => TypeOK
  BY DEF Types, Flags, Sets, UrlType, HeldType, CredInv, Kept, TypeOK
<1> QED
  BY <1>1, <1>2, <1>3, <1>4, PTL DEF Spec

\* Whenever the last access to the keychain succeeded, a kill costs no
\* credential and no pending receipt, and the list never exceeds its maximum.
THEOREM KeychainCorrect == Spec => []KeychainUpToDate
<1>1. Init => CredInv
  BY MaxPendingAssumption DEF Init, CredInv, Kept, NoDup
<1>2. CredInv /\ [Next]_vars => CredInv'
  BY NextCredInv
<1>3. CredInv => KeychainUpToDate
  BY DEF CredInv, Kept, NoDup, KeychainUpToDate
<1> QED
  BY <1>1, <1>2, <1>3, PTL DEF Spec

\* Provided the reCAPTCHA page comes back with a token or an error, every
\* completion block that has not run is held in exactly one place.
THEOREM BlocksHeldOnce ==
  ASSUME "bare" \notin PageUrls
  PROVE  Spec => []HeldOnce
<1>1. Init => IInv
  BY InitIInv
<1>2. IInv /\ [Next]_vars => IInv'
  BY NextIInv
<1>3. IInv => HeldOnce
  BY DEF IInv, Unique, HeldOnce
<1> QED
  BY <1>1, <1>2, <1>3, PTL DEF Spec

\* On the same condition, whoever waits for the probe, a token, a push or a
\* page has a timer or a page that will wake it.
THEOREM WaitersWoken ==
  ASSUME "bare" \notin PageUrls
  PROVE  Spec => []WaitersAreWoken
<1>1. Init => IInv
  BY InitIInv
<1>2. IInv /\ [Next]_vars => IInv'
  BY NextIInv
<1>3. IInv => WaitersAreWoken
  BY DEF IInv
<1> QED
  BY <1>1, <1>2, <1>3, PTL DEF Spec

\* A verdict on notification forwarding is final until the process ends.
THEOREM VerdictIsFinal == Spec => VerdictSticks
<1> DEFINE Final == checked /\ held["probe"] = {} /\ kills' = kills => forwarded' = forwarded
<1>1. Init => Types
  BY InitTypes
<1>2. Types /\ [Next]_vars => Types'
  BY NextHeldType, NextFlags, NextSets DEF Types
<1>3. Types /\ [Next]_vars => [Final]_vars
  <2>1. SUFFICES ASSUME Types, Next PROVE Final
    OBVIOUS
  <2>2. forwarded \in BOOLEAN /\ kills \in Nat
    BY <2>1 DEF Types, Flags, Sets
  <2>3. CASE forwarded' = forwarded
    BY <2>3
  <2>4. CASE ProberArrives
    BY <2>2, <2>4 DEF ProberArrives
  <2>5. CASE Kill
    BY <2>2, <2>5 DEF Kill
  <2>6. ASSUME NEW a \in Attempts, Block(a) \/ Reply(a) PROVE forwarded' = forwarded
    BY <2>6 DEF Block, Reply, MissingPhoneNumber, CheckForwarding, AlreadyPresented,
         ShowPage, SafariDidFinish, FinishBlock, Complete, ClientRejected,
         DidStartVerification, DomainFails, PresentURL, SendAnswered, SendRejected,
         probeVars
  <2>7. CASE \/ \E c \in Calls : VerifyPhoneNumber(c)
             \/ \E r \in Attempts, secret \in BOOLEAN : ReceivePush(r, secret)
             \/ DidRegister \/ DidFailToRegister \/ Timer \/ User
    BY <2>3, <2>7 DEF VerifyPhoneNumber, ReceivePush, DidRegister, DidFailToRegister,
         Timer, ProbeTimeout, TokenTimeout, ReceiptTimeout, User, CanHandleURL, TapDone,
         probeVars
  <2> HIDE DEF Final
  <2> QED
    BY <2>1, <2>3, <2>4, <2>5, <2>6, <2>7 DEF Next
<1> QED
  BY <1>1, <1>2, <1>3, PTL DEF Spec, VerdictSticks

\* A timer that outlived its array of token callbacks moves no block.
THEOREM StaleTimer == Spec => StaleTimerIsHarmless
<1> DEFINE Harmless == \A b \in tokenTimers \ tokenTimers' :
                         b # batch /\ kills' = kills => held' = held
<1>1. Init => Types
  BY InitTypes
<1>2. Types /\ [Next]_vars => Types'
  BY NextHeldType, NextFlags, NextSets DEF Types
<1>3. Types /\ [Next]_vars => [Harmless]_vars
  <2>1. SUFFICES ASSUME Types, Next PROVE Harmless
    OBVIOUS
  <2>2. CASE tokenTimers \subseteq tokenTimers'
    BY <2>2
  <2>3. CASE Kill
    <3>1. kills' # kills
      BY <2>1, <2>3 DEF Types, Sets, Kill
    <3> QED
      BY <3>1
  <2>4. ASSUME NEW b \in tokenTimers, TokenTimeout(b) PROVE Harmless
    BY <2>4 DEF TokenTimeout
  <2>5. ASSUME NEW place, NewBatch(place) PROVE tokenTimers \subseteq tokenTimers'
    BY <2>5 DEF NewBatch
  <2>6. ASSUME NEW verdict, CallBack(verdict) PROVE tokenTimers \subseteq tokenTimers'
    BY <2>5, <2>6 DEF CallBack, VerifyClient, tokenVars
  <2>7. ASSUME NEW a \in Attempts, Block(a) \/ Reply(a)
        PROVE  tokenTimers \subseteq tokenTimers'
    <3>1. CASE CheckForwarding(a) \/ SendRejected(a)
      BY <2>5, <3>1 DEF CheckForwarding, SendRejected, VerifyClient, tokenVars
    <3>2. CASE ~(CheckForwarding(a) \/ SendRejected(a))
      BY <2>7, <3>2 DEF Block, Reply, MissingPhoneNumber, AlreadyPresented, ShowPage,
           SafariDidFinish, FinishBlock, Complete, ClientRejected, DidStartVerification,
           DomainFails, PresentURL, SendAnswered, tokenVars
    <3> QED
      BY <3>1, <3>2
  <2>8. CASE ProberArrives \/ ProbeTimeout
    BY <2>2, <2>6, <2>8 DEF ProberArrives, ProbeTimeout
  <2>9. CASE \/ \E c \in Calls : VerifyPhoneNumber(c)
             \/ \E r \in Attempts, secret \in BOOLEAN : ReceivePush(r, secret)
             \/ \E r \in receiptTimers : ReceiptTimeout(r)
             \/ DidRegister \/ DidFailToRegister \/ User
    BY <2>2, <2>9 DEF VerifyPhoneNumber, ReceivePush, DidRegister, DidFailToRegister,
         ReceiptTimeout, User, CanHandleURL, TapDone, tokenVars
  <2> HIDE DEF Harmless
  <2> QED
    BY <2>1, <2>2, <2>3, <2>4, <2>7, <2>8, <2>9 DEF Next, Timer
<1> QED
  BY <1>1, <1>2, <1>3, PTL DEF Spec, StaleTimerIsHarmless

\* verifyPhoneNumber implements AsyncCalls: behind the queues, the managers, the
\* page and the retry, every call is answered at most once, and only a kill
\* takes a call away without an answer.
THEOREM OneAnswerPerCall ==
  ASSUME "bare" \notin PageUrls
  PROVE  Spec => ImplementsAsyncCalls
<1>1. Init => IInv
  BY InitIInv
<1>2. IInv /\ [Next]_vars => IInv'
  BY NextIInv
<1>3. Init => Async!Init
  <2>1. ASSUME Init PROVE Async!Init
    BY <2>1, EmptyIInv DEF Init, Async!Init
  <2> QED
    BY <2>1
<1>4. IInv /\ IInv' /\ [Next]_vars => [Async!Next]_(Async!vars)
  <2>1. SUFFICES ASSUME IInv, IInv', [Next]_vars
                 PROVE  [Async!Next]_(Async!vars)
    OBVIOUS
  <2>2. InFlight = Waiting /\ InFlight' = Waiting'
    BY <2>1 DEF IInv
  <2>3. ASSUME NEW c \in Calls, VerifyPhoneNumber(c) PROVE Async!Call(c)
    <3>1. c \notin InFlight /\ c \notin answered /\ c \notin abandoned
      BY <2>1, <2>2, <2>3 DEF VerifyPhoneNumber, IInv, Served, Waiting
    <3>2. InFlight' = InFlight \cup {c}
      BY <2>1, <2>3, CallsEffect
    <3> QED
      BY <2>3, <3>1, <3>2 DEF VerifyPhoneNumber, Async!Call
  <2>4. ASSUME NEW a \in Attempts, Complete(a) PROVE Async!Answer(a[1])
    BY <2>1, <2>4, CallsEffect DEF Complete, Async!Answer
  <2>5. CASE Kill
    <3>1. InFlight' = {} /\ abandoned' = abandoned \cup InFlight /\ answered' = answered
      BY <2>2, <2>5 DEF Kill, Waiting
    <3> QED
      BY <3>1 DEF Async!Next, Async!Kill
  <2>6. CASE UNCHANGED calls
    <3>1. InFlight' = InFlight
      BY <2>2, <2>6 DEF calls, Waiting
    <3> QED
      BY <2>6, <3>1 DEF calls, Async!vars
  <2>7. ASSUME NEW a \in Attempts, Block(a) \/ Reply(a), ~Complete(a)
        PROVE  UNCHANGED calls
    BY <2>7 DEF Block, Reply, MissingPhoneNumber, CheckForwarding, AlreadyPresented,
         ShowPage, SafariDidFinish, FinishBlock, ClientRejected, DidStartVerification,
         DomainFails, PresentURL, SendAnswered, SendRejected
  <2>8. CASE \/ \E r \in Attempts, secret \in BOOLEAN : ReceivePush(r, secret)
             \/ ProberArrives \/ DidRegister \/ DidFailToRegister \/ Timer \/ User
    BY <2>6, <2>8 DEF ReceivePush, ProberArrives, DidRegister, DidFailToRegister,
         Timer, ProbeTimeout, TokenTimeout, ReceiptTimeout, User, CanHandleURL, TapDone
  <2>9. CASE UNCHANGED vars
    BY <2>6, <2>9 DEF vars
  <2>10. \A a \in Attempts : a[1] \in Calls
    BY DEF Attempts
  <2> QED
    BY <2>1, <2>3, <2>4, <2>5, <2>6, <2>7, <2>8, <2>9, <2>10 DEF Next, Async!Next
<1> QED
  BY <1>1, <1>2, <1>3, <1>4, PTL DEF Spec, ImplementsAsyncCalls, Async!Spec
=============================================================================
