# Verification of InventoryApp

TLA+ models of the iOS app in `src/InventoryApp/InventoryApp`: a household
inventory (sections of products with a quantity and remaining days) behind a
Google or phone sign-in, and of the two parts of the vendored Firebase Auth library
(`src/InventoryApp/Pods/FirebaseAuth`) that its sign-in stands on. `PROJECT.json` maps every definition that models code to
its lines, and lists runs, mutants, findings, hazards and theorems.

## 1. The system

All of the app's own code runs on the main thread. Concurrency comes from completion
handlers of Firebase and Google, `DispatchQueue.main.async`/`asyncAfter` blocks and a
`Timer`: their order, and what the user does meanwhile, is free. Nothing but Core Data,
`UserDefaults` and what Firebase keeps in the keychain outlives the process. Firebase Auth
runs its blocks on one serial work queue and answers on the main queue.

| Component | State | Operations | Talks to |
|---|---|---|---|
| Core Data model, `CoreDataStack` | context, store | `saveContext` (a failure is `fatalError`), deletion rules | everything below |
| `UserRepository`, `SectionRepository`, `ProductRepository` | none | create, fetch, update, delete, `setSectionSortingRule` | `CoreDataStack` |
| `UserMetadata`, `MainViewController` | none | first-run user and two sections, tabs | repositories |
| `UserViewModel`, `InventoryViewController` | the user | fetch user and sections, build the section views | repositories |
| `SectionViewModel`, `SectionViewController` | a copy of the section, two arrows | sort taps, add, update | `SectionRepository`, collection view |
| `StorageCollectionViewController`, cell, card controllers, `CardViewModel` | cells, cards, one listener slot | reuse, flip, +/- buttons | section's `Product` objects |
| `AppDelegate`, `LocalState` | root view controller, `hasOnboarded` | launch, `didLogin`, `didFinishOnboarding`, `didLogout` | login screens |
| `LoginViewController` | none | Google and phone buttons | GoogleSignIn, FirebaseAuth |
| `AuthManager` | `verificationId` | `startAuth`, `verifyCode` | FirebaseAuth |
| Phone-number, country and verification screens | navigation stack, form fields, Submit, countdown | Next, Back, Submit, Resend, typing | `AuthManager` |
| Onboarding, recipe tab | page | paging, close, logout | `AppDelegate` |
| `FIRPhoneAuthProvider`, `FIRAuthNotificationManager`, `FIRAuthAPNSTokenManager`, `FIRAuthAppCredentialManager`, `FIRAuthURLPresenter` | pending callbacks, APNs token, app credential and receipts (keychain), the page shown | `verifyPhoneNumber`: probe, APNs token, push, reCAPTCHA page, SMS request, one retry | called by `AuthManager.startAuth`; server, APNs, UIKit |
| `FIRAuth`, `FIRUser`, `FIRSecureTokenService`, `FIRAuthSerialTaskQueue` | current user (keychain), token, task queue, refresh timers | sign-in, sign-out, `getTokenForcingRefresh`, automatic refresh, load at launch and at unlock | `Auth.auth().currentUser` in `AppDelegate`; server, keychain |

Hard behaviours, by component, and what makes the component correct:

* **Store.** A process may end between the creation of objects and their save, and
  between the three saves of the first run; `Int16()` traps. Correct: no dangling
  reference, what a method returned from is stored, nothing stored is lost except a
  user that is deleted.
* **Inventory screen.** The section on screen is a copy of the store; either fetch of a
  sort tap may throw; `sorted(by:)` over a `Set` may order ties differently each time.
  Correct: every product once, in the order of the rule shown; rule, arrows and store
  agree; the first run happens once.
* **Cards.** Three controllers write one listener slot and a cell builds its card twice;
  cells are reused. Correct: both faces follow the product, edits reach the section.
* **Sign-in.** Answers arrive when their screen is popped, covered or replaced, in any
  order, several in flight. Correct: the main screen needs a signed-in user,
  onboarding is shown once, the code asked for is the code checked.
* **Code entry.** Refreshes run 0.1 s late. Correct: Submit and borders settle on the
  fields' contents; the resend button comes back.
* **Phone verification.** A completion block is handed through four managers, two queues,
  three requests and three kinds of timers, and through all of it again after a rejected
  credential. Timers outlive what they were set for, pushes come late, twice or never,
  Done races the page's callback. Correct: every call is answered exactly once, everyone
  who waits will be woken, a kill costs no receipt.
* **Session.** Answers arrive for user objects that are no longer current, the keychain
  fails, timers fire in the background, the device is locked at launch. Correct: memory,
  keychain and listeners agree, a refresh is always coming, token calls are answered.

## 2. Modules

| Module | Models | Composition |
|---|---|---|
| `CoreDataModel` | the object graph of `AppDataModel`, what each write does to it | |
| `Repositories` | context, store, `saveContext`, all repository calls that write | extends `CoreDataModel` |
| `RepositoriesProofs` | proofs | extends `Repositories` |
| `Inventory` | first run, building the screen, sort taps, card edits, failed fetches | `Repo == INSTANCE Repositories`: a refinement |
| `InventoryProofs` | proofs, the refinement's included | extends `Inventory` |
| `SectionApi` | the view-model operations no screen calls yet | extends `Inventory` |
| `SectionApiProofs` | proofs | extends `SectionApi` and `InventoryProofs` |
| `ProductCard` | cells, cards, listener slot, flip | its own; the section's fetch is a free choice |
| `ProductCardProofs` | proofs | extends `ProductCard` |
| `LoginFlow` | roots, navigation stack, Firebase and Google calls, logout | its own |
| `LoginFlowProofs` | proofs | extends `LoginFlow` |
| `CodeEntry` | the fields of the verification screen, Submit, countdown | its own |
| `CodeEntryProofs` | proofs | extends `CodeEntry` |
| `AsyncCalls` | abstract: a call is answered once, or the process is killed first | |
| `PhoneAuth` | `verifyPhoneNumber` of Firebase Auth | `Async == INSTANCE AsyncCalls`: a refinement |
| `PhoneAuthProofs` | proofs, the refinement's included | extends `PhoneAuth` |
| `AuthSession` | current user, keychain, tokens and automatic refresh of Firebase Auth | `Async == INSTANCE AsyncCalls`: a refinement |
| `AuthSessionProofs` | proofs, the refinement's included | extends `AuthSession` |
| `MC*` | constants for TLC | extend the above |

### Repositories
`ctx` is the `NSManagedObjectContext`, `disk` the SQLite store, `pc` is `"down"` (no
process), `"idle"` or `"saving"` (inside a method, before `saveContext()`). A repository method
is a `Write` to `ctx` followed by `SaveContext`, which makes `disk` equal to `ctx`, or,
when Core Data throws, ends the process. A value that `Int16()` rejects ends the process
(`Die`). The deletion rules of the data model are Nullify, so `deleteUser` leaves the
sections without a user. Both the rules and `createSection`, which inserts products
before the save, are applied as one write because no other code runs between.

### Inventory
`task` says what the handler in progress does after its pending save; `view[s]` is the
`Section` object held by the section's view model (title, rule, sorting rule, products) plus
the two arrows. `Product` is a
class, so a card edits the object in `view[s]` and nothing else: `didSet` of
`CardViewModel.product` observes the reference and is not called. A fetch that throws
(`Fault`) goes the way of the `catch` of that method. `UsesRepositories` says that every
step is one of `Repositories`, or leaves the store alone.

### ProductCard
`cell[c]` carries the cell's row, the object of its card view model, who owns
`onProductUpdated`, and the card. `Dequeued` is the whole of `cellForItemAt` for a
product: `prepareForReuse`, `didSet` and the explicit second build. Each build runs the
two faces' `viewDidLoad`, then the card's; a replaced controller is only weakly held by
the slot (`"gone"`). External: the collection view shows a row in one cell at a time and
calls `cellForItemAt` for pooled cells only.

### LoginFlow
`pending` holds the Firebase calls without an answer and the blocks queued by answers.
External: Firebase answers a call at most once, each SMS has its own verification id,
whose code only it accepts. SMS are numbered when they are sent (`SmsSent`), which is not the
order in which the app hears of them: with two `startAuth` requests in flight the answers may
come the other way round. A call without an SMS is answered by an error, one with an SMS by
its id. Also external: UIKit drops a navigation controller and what it presents
when the root is replaced, and refuses to present over a presented controller.
Reachability is a free choice at each test. That `startAuth` is answered at most once, and
answered unless the page brings a malformed URL, is what `PhoneAuth` shows; that the
account survives a kill (here by construction) is the part of `AuthSession` without keychain errors. The app
itself never asks for a token, so no forced sign-out is in `LoginFlow`.

### CodeEntry
`shouldChangeCharactersIn` changes a field and schedules a refresh 0.1 s later;
`delayed` counts refreshes not yet run, per field. The `editingChanged` event that UIKit
may or may not send for a text set in code is a choice.

### PhoneAuth
`held[p]` is the set of completion blocks that place `p` retains: a callback array of a
manager, the handler of a request, a block on a queue. A call has up to two attempts, as
`retryOnInvalidAppCredential` allows one retry, and a block is named by its attempt. Every
block of code between two waits is one action, which moves blocks from place to place and
updates the manager's fields: `checked` and `forwarded` for the probe, `token`, `batch` and
`tokenTimers` for the APNs token (a timer compares the array it was set for with the
current one: `batch` names the array), `credential`, `pendingReceipts` and `receiptTimers`
for the push, `presenting`, `safari`, `url` and `doneBlocks` for the page. `SaveData` may
fail and the code ignores it (`synced` records it). Order on the queues is abstracted to
any order. External: server, APNs (free to answer or not), keychain, user. Each attempt
gets a receipt of its own from the server.

### AuthSession
A `FIRUser` object is a number, so one account may have several; `tasks[o]` is its serial
task queue, whose head may have a request in flight, repeated once (`"retry"`) after a token
about to expire. `current`, `keychain` and `lastNotified` are what memory, disk and
listeners hold. A keychain call may fail (`ok`); what follows is the code's: a sign-in or
sign-out is refused, a new token stays in memory, a forced sign-out goes through all the
same. `timers[t]` counts the pending timers set for token `t`; they fire at any time.
`signOutByForceWithUserID` compares the ID strings by address: each object has its own
string, so only the current object itself can be signed out. `Relaunch` is a kill followed by
`protectedDataInitialization`, `ProtectedDataDidBecomeAvailable` the second attempt after a
keychain that could not be read.

## 3. Runs

| Run | Question | Bounds |
|---|---|---|
| `repositories` | do calls, traps, failed saves and kills keep the store well formed, durable and complete? | 2 users, 2 sections, 2 products, Int16 narrowed so that a value can fall outside |
| `inventory` | does the screen agree with the store, and what becomes of a first run cut short? | 2 users (a second first run after a fault), 2 sections per user of 0 to 3 products with `Limit` 2, equal sort keys included, 1 edit, 1 fault |
| `inventory_sort` | finding: an edit is lost on sorting | no faults |
| `section_api` | does the whole tab, unused view-model calls included, use the repositories as they allow, undo nothing by writing a cached section back, and complete its first run? | 1 user, 2 sections, 3 products, `Limit` 1, 1 call and 1 fault |
| `product_card` | do cards follow their products? | 2 cells, 2 rows, 4 objects (old and new fetch), stock at the colour limits, 2 edits |
| `login` | are the right screens shown in every interleaving, when is a sign-in left without a main screen, and when is the right SMS id kept? | 4 calls in all, 4 screens |
| `login_resend` | finding: the resent code is not the one checked | small |
| `code_entry` | do Submit and countdown settle? | 3 fields (of 6), countdown 2 (of 15 s), 2 refreshes per field |
| `phone_auth` | is every `verifyPhoneNumber` answered once, does everyone who waits have a timer, does a kill lose a receipt? | 2 calls (4 attempts), 1 pending receipt (of 32), 1 fault; the page brings a token or an error |
| `phone_auth_lost` | finding: a page may leave a call unanswered | 1 call, no faults, the page may bring neither |
| `auth_session` | do memory, keychain and listeners agree, is a refresh coming, are token calls answered? | 2 accounts, 2 user objects, 3 tokens, 1 call, 1 activation, 1 fault |
| `auth_session_timer` | finding: the scheduled flag without a timer | 1 account, 2 tokens, 1 fault |

Why the bounds are enough to meet the hard cases: two of each object is what a dangling
or shared reference needs; `Limit` is compared with the number of products on both
sides; four calls let two SMS requests, a resend and a sign-in overlap in every order,
and four screens let a late answer push over a screen opened since; three fields have a
first, a middle and a last; two delayed refreshes of one field can both be outdated. In
`phone_auth` two calls share the probe, the token array, the credential and the page, and
one receipt is evicted by the other; one fault is a kill, a failed save, a push without
its secret or a rejected credential, each at every point. In `auth_session` two objects are
what a late answer needs, of one account or of two; three tokens let a timer be outdated by
a refresh that is followed by another; the proofs cover every other value.

**Fairness.** `Inventory`: weak fairness of the main thread's own steps: a handler runs
to its end unless the process ends. `LoginFlow`: none, its properties are safety
properties. `CodeEntry`:
the `asyncAfter` blocks and the repeating `Timer`. `PhoneAuth`: the queues run their
blocks, `dispatch_after` timers fire, a request is answered (the network layer times out),
and a page that is shown is left in the end, by its callback or by Done; nothing is assumed
of pushes, of APNs or of the system. `AuthSession`: queues run their blocks and a request
is answered; timers, activations and the keychain are free. Apart from the page, no
fairness is assumed of the user.

Deadlock is checked in every run but the two of `phone_auth`, where all calls may be over.

## 4. Findings

Each is a run that TLC refutes; the quoted lines are in `PROJECT.json`.

1. `SortOnlyReorders`: card edits never reach the store, sorting the section drops them.
2. `LastCodeIsAccepted`: the id of a resent SMS is dropped. A resend is not the only cause:
   without one, Next, Back and Next again put two requests in flight, and when their answers
   come in the other order than their SMS were sent `AuthManager` keeps the older id.
   `CodesInTurn`, checked and proved, says that these two are all the causes: with no resend and
   one request at a time, the id kept is that of the last SMS.
3. `EveryCallAnswered` (`phone_auth_lost`): a reCAPTCHA callback with neither token nor error
   makes no request and runs no completion.
4. `ScheduledMeansTimer`: after a token the keychain did not take, `_autoRefreshScheduled` can
   be set with no timer left, although the comment says another refresh must have been
   scheduled; the next activation then schedules none.

Bad outcomes that a passing run states exactly, since no line of the repository claims
otherwise:

* `FirstRunIsNotResumed`: the user and its two sections are stored by three saves. When the
  process ends in between, or the fetch of `createSection` throws, the stored user makes
  `userExists()` true for good, and it never gets the missing sections.
  `StoredSectionsAreShown` is the good half: what was stored is all shown.
* `StrandedOnlyByCover`: a signed-in user is left on the login screens, with no main screen to
  come, only when the block of an answer runs and its verification screen is popped, covered
  by another one or under an alert; UIKit then refuses to present.

Seen while modelling, without a run:

* `SectionViewModel.addProduct` and `updateProduct(at:with:)`, which no screen calls yet, end in
  `updateSection`, which stores the section's own attributes only: their product is gone
  after the next fetch.
* `isVerificationSent` is never set (`PhoneNumberViewController.swift:58-70`): Back and Next
  send another SMS.
* `didLogout` (`AppDelegate.swift:128`) keeps the Firebase session, so the next launch is signed
  in, and leaves the login screen without a navigation controller: its phone button
  (`LoginViewController.swift:64`) does nothing.
* `canHandleNotification:` checks the class of the receipt twice and never that of the secret
  (`FIRAuthNotificationManager.m:164`); the model has pushes without a secret for this.
* A main queue that is blocked for a second makes the forwarding verdict NO until the
  process ends (`FIRAuthNotificationManager.m:134`).
* `webContextAlreadyPresented` is reported from the main queue (`FIRAuthURLPresenter.m:83`), all
  other completions from the work queue.
* `LateAnswerIsHarmless` rests on the comparison of two strings by address at `FIRAuth.m:1632`,
  while `FIRAuth_Internal.h:115` speaks of "the ID of the user": were the strings compared by
  content, a late answer of an old object would sign out a new object of the same account.
* A forced sign-out whose keychain removal fails comes back signed in at the next launch
  (`FIRAuth.m:1635`), and a reload after a failed load leaves a refresh of the replaced object
  behind: its token is not saved. Activations between failing refreshes add timers.

## 5. Proofs

**`RepositoriesProofs`**: for any sets of users, sections, products and any width of
integers. `IInv` says: the context and the store are typed and closed under references,
they are equal while idle, and while the process runs everything on disk is in the
context, with its owner. The last part is what makes the action property
`StoredObjectsAreKept` provable: a save replaces `disk` by `ctx`, so the store can only
keep what the context still has. Theorems: `TypeCorrect`, `NoDanglingReferences`,
`Durable`, `StoredObjectsStay`.

**`InventoryProofs`**: for any store, seed, display limit and bounds. A view is compared
with the context, so its properties are not inductive. `IInv` is about rules and arrows: it
adds that the screen is empty while a first run or a load is in progress (no section is
created under a view), and, for the time between the save and the fetch of a tap, when the
screen is behind the context, that the context's rule is one of the tapped button's
(`RuleInv`), so that the arrows the tap sets are the ones `viewDidAppear` would set.
`ProductsInv` is about the products shown: a sort tap changes a rule and no product, and until
a card is edited the objects on screen say what the store says. `FirstRunInv` relates the seed
still to be stored with what context and store hold: sections are whole in both because
section and products enter the context in one write, and a first run has found no user unless
a fetch threw. `SeedInv` counts the sections of the user a first run has created, and says
that every section has a stored user. `OthersKept` says what a pending save is about: of every
user but the one being set up, context and store hold the same sections. `ShownInv`, that a
screen with any section has all of the context's, needs the one user of `FirstRunInv` and the
owners of `SeedInv`. Theorems:

* of the screen: `TypeCorrect`, `SortedPermutation`, `RuleOnScreen`, `ArrowsOnScreen`,
  `RowContent`, `LoadHasUser`, `SectionsAreShown`; of the first run: `WholeSections`,
  `OneFirstRun`, and `CutShortForGood`: one that was cut short is never completed;
* `Refinement`: every step is a step of `Repositories` or leaves the store alone; and with it
  `StoreIsKept`: an instance of `RepositoriesProofs` carries `StoredObjectsAreKept` and
  `NoDanglingReference` over to the inventory tab (the instance's copies of the definitions are
  shown equal to `Repo`'s, its assumptions follow from this module's);
* `UneditedSortsReorder`: before the first edit every sort only reorders. `SortOnlyReorders`
  is refuted (section 4); this pins the cause to the edits that never reach the store;
* the safe half of `FirstRunCompletes`: `HandlersAreShort` (every step of a handler lowers
  `StepsLeft`, which is at most six, and nothing comes in between) and `FirstRunStoresBoth` (a first run that gets to
  its load has stored both sections of its user).

Integers of a card are unbounded here (Swift's `Int`, one step per tap).

**`SectionApiProofs`**: the same generality, with every call of the view models made at
any time. `IInv` survives these calls. `updateSection()` writes title, rule and sorting rule
of the cached `Section` back. That title and rule still are the context's is part of `IInv`
(`GoodView`); the sorting rule is as long as no fetch throws. A write-back reaches the store
one step after the call that caused it, so `ApiSave` adds that a save pending outside any handler changes no section.
`ApiInv` is both. Theorems: `ApiInvariance`; `WriteBacksAreSafe`; `ApiRefinement`, for which a
write-back, whose object need not be one of `SectionValues`, is shown to be a
`SetSectionSortingRule` step of the repositories, hence `StoreIsKeptUnderCalls`;
`ScreenUnderCalls`, `FirstRunUnderCalls`, `CutShortUnderCalls` and `HandlersAreShortUnderCalls`, the inventory tab's
own theorems under these calls. `addProduct` shows a product that is in no store, so
`ProductsInv` does not hold here; `StoredProductsShown` says what is left of it: every stored
product of a section on screen is shown once, and the stored ones among the cards are in order.

**`ProductCardProofs`**: for any cells, rows, objects and stock. `FacesShowProduct` is
not inductive: an edit is told to one listener, so the invariant adds that the card of
every cell on screen holds the slot and that no two cells show the same row, and
`Arrays` that no two rows hold the same object. Theorems: `FacesFollowProduct`,
`EditsAreKept`, `FlipsAreWhole`.

**`CodeEntryProofs`**: for any number of fields, any countdown and any bound on pending
refreshes. `SubmitSettles` is not inductive: it says nothing while refreshes are pending.
`Covered` adds that a Submit button that is out of date has a refresh pending, which is
what every edit but the refused one leaves behind. Theorems: `CompleteCodes`,
`SubmitIsRight`, `BordersAreRight`, `SingleCountdown`, and `CountdownEnds`, the safe half of
`ResendComesBack`: a disabled button has a timer, and `TicksLeft`, at most `Countdown + 1`, goes
down by one with every tick and by nothing else.

**`LoginFlowProofs`**: for any bound on calls and screens. `MainNeedsUser` is not
inductive, as an answer shows the main screen in a later block: `Signed` adds that a block
queued to present the main screen has a signed-in account behind it, and `NavOnly` that
pushed and presented screens exist only over the navigation controller and that it is
never the root again once a main screen is loaded, which is what keeps a presented main
screen off a root that is one. Theorems: `TypeCorrect`, `MainIsSignedIn`,
`OnboardingIsShownOnce`, `OneMainScreen`; `SignInsAreShown` (`StrandedOnlyByCover`) and
`SignInIsNotLost`: with the screen that signed in in front, the block that presents the main
screen stays queued until it has shown it; and `CodesAreAccepted` (`CodesInTurn`), whose
invariant `LastSms` says that the last SMS is the one whose id is kept or belongs to the only
request in flight. `LastCodeIsAccepted` is refuted (section 4); this pins down its causes.

**`PhoneAuthProofs`**: for any finite set of calls, any maximum of receipts and any number of
faults. `HeldOnce` and `WaitersAreWoken` are inductive only together (`IInv`): a step that
finishes a page moves whatever `held["page"]` has, and that this is one block, and the
right one, is `PageIsHeld`; that an expired timer leaves nobody behind needs each block to
be in one place. `Served` adds that only calls that were made are answered or abandoned. `BlocksHeldOnce`, `WaitersWoken` and `OneAnswerPerCall`
(the refinement of `AsyncCalls`) assume that the page brings a token or an error
(`"bare" \notin PageUrls`), without which the third finding refutes them; `TypeCorrect`,
`KeychainCorrect`, `VerdictIsFinal` and `StaleTimer` do not.

**`AuthSessionProofs`**: for any users, calls and bounds. `SessionInv` ties keychain,
`lastNotified` and the current object together; it adds `KnownTokens`, so that a token that
is issued differs from the one last announced and is announced in its turn, and
`ObserverNeedsFault`, so that without faults no reload replaces the user. `RefreshIsComing`
is inductive with these. `OneAnswerPerTokenCall` (the refinement of `AsyncCalls`) rests on
`CallInv`: a call is in one task queue, at one place, or on the main queue. Theorems:
`TypeCorrect`, `SessionPersists`, `ListenersInformed`, `LateAnswers`, `RefreshComes`,
`OneAnswerPerTokenCall`; `FlagIsRightWithoutFaults`: without faults `ScheduledMeansTimer`, which
is refuted with them (section 4), holds, by `RefreshIsComing` and `NoTimerYet` (before automatic
refresh is on there is no timer and no task that would set one); and `TasksMoveOn`, the safe
half of `EveryTokenCallAnswered`: a step of an object's token service finishes the first task of
its queue or lowers `Wait` of all, at most three per task, and no other step but a kill
disturbs the queue.

Assumptions are those of the modules that declare the constants; TLC evaluates them in
every run.

Only model-checked: all liveness (`FirstRunCompletes`, `ResendComesBack`, `EveryCallAnswered`, `EveryTokenCallAnswered`), which needs fairness and
ENABLED. What can be said without them is proved: that nothing is lost and that the steps left
go down (`HandlersAreShort`, `FirstRunStoresBoth`, `CountdownEnds`, `TasksMoveOn`), and for `EveryCallAnswered` that a call's block is always held by a place that
will be served (`BlocksHeldOnce`, `WaitersWoken`). TLC adds that fairness then brings the end.
Every invariant and action property of a passing run is a theorem.

## 6. Not modelled

* The rest of the Pods: Firestore, gRPC, BoringSSL, AppAuth, GoogleSignIn and others. They are
  third-party libraries, most of the repository's lines, and the app calls none of them
  but GoogleSignIn, an external action of `LoginFlow`.
* In Firebase Auth: the simulator path and `isAppVerificationDisabledForTesting`, multi-factor
  sessions, tenants and shared access groups, e-mail, OAuth, anonymous and link operations.
  The app uses none of them. The network layer (`FIRAuthBackend`) is external.
* Colours, fonts, layout and animation; screens nothing creates (`PhoneViewController`,
  `SMSCodeViewController`, `MainTabBarController`, profile screens); buttons that only print.
* The phone-number form, the country picker's search and the paging of onboarding, beyond
  their place among the screens.

## 7. Plan

Done, in this order: `Repositories`, `Inventory` with the refinement, `SectionApi`,
`LoginFlow`, `CodeEntry`, `ProductCard`, then `PhoneAuth` and `AuthSession` with `AsyncCalls`;
proofs of all of them.

Left:

1. `PhoneForm`: number length (at least 9 for Next, at most 25), country picker with its
   search and the global `countryCode` that outlives a screen; properties: a form shows the
   country chosen last, also in a picker that was searched; a verification screen pushed by
   a late answer shows the number of its request, however the form was edited since.
2. `Onboarding`: paging of the container, which pages are reachable, close.
