----------------------------- MODULE Inventory -----------------------------
(***************************************************************************)
(* The inventory tab as the app wires it: MainViewController and           *)
(* UserMetadata (first-run data), UserViewModel, InventoryViewController,  *)
(* SectionViewModel, SectionViewController, StorageCollectionViewController*)
(* and the edits of CardViewModel, over the repositories of Repositories.  *)
(*                                                                         *)
(*   ctx, disk, pc   the state of Repositories                             *)
(*   task      the main-thread handler in progress, by what it does after  *)
(*             the pending saveContext(): "seed1"/"seed2" create the first *)
(*             and second section, "load" fetches and builds the views,    *)
(*             "refetch" ends a sort tap, "none" no handler                *)
(*   seedUser  the user UserMetadata.init() has just created               *)
(*   sorting   the section and button of the sort tap in progress          *)
(*   view      per section: the Section object its SectionViewModel holds  *)
(*             and the arrows of its two sort buttons, Nil when not shown  *)
(*   faults    how many fetch requests have thrown                         *)
(*   edits     how many times a card has been edited                       *)
(*                                                                         *)
(* Product is a class, so a card edits the very object its section holds.  *)
(***************************************************************************)
EXTENDS CoreDataModel

CONSTANTS
  DefaultName,   \* see Repositories
  SeedName,      \* "Dajun Xian", the name UserMetadata gives the first user
  Seed,          \* the sections UserMetadata builds for a new user
  Limit,         \* products shown before the "Show More" cell (8)
  MaxFaults,     \* bound on faults
  MaxEdits       \* bound on edits

ASSUME BoundsAssumption == MaxFaults \in Nat /\ MaxEdits \in Nat

ASSUME LimitAssumption == Limit \in Nat

ASSUME NamesAssumption == SeedName \in Titles /\ DefaultName \in Titles

ASSUME SortingAssumption == Nil \notin [section : Sections, button : {"date", "quantity"}]

\* There are 2^128 UUIDs.
ASSUME FiniteAssumption == IsFiniteSet(Products)

\* The literals of createOneSection1/2 fit in Int16; every id is a new UUID().
ASSUME SeedAssumption ==
  /\ Seed \in [Users -> SectionValues \X SectionValues]
  /\ \A u, v \in Users : \A i, j \in {1, 2} :
       LET a == Seed[u][i]  b == Seed[v][j]
       IN /\ SectionFits(a)
          /\ <<u, i>> # <<v, j>> =>
               /\ a.id # b.id
               /\ \A x \in a.products, y \in b.products : x.id # y.id

VARIABLES ctx, disk, pc, task, seedUser, sorting, view, faults, edits

Repo == INSTANCE Repositories

store == <<ctx, disk, pc>>
vars  == <<ctx, disk, pc, task, seedUser, sorting, view, faults, edits>>

Tasks   == {"none", "seed1", "seed2", "load", "refetch"}
Buttons == {"date", "quantity"}
Arrow   == {"up", "down", "gray"}

\* class Product as a card has it; a Section with its view's arrows.
ProductObject == [id : Products, quantity : Int, remainingDays : Int]

SectionObject == [title : Titles, rule : Int,
                  sortingRule : SortingRule, products : Seq(ProductObject),
                  arrows : [date : Arrow, quantity : Arrow]]

ASSUME ViewAssumption == Nil \notin SectionObject

NoViews == [s \in Sections |-> Nil]

Init == /\ Repo!Init
        /\ task = "none" /\ seedUser = Nil /\ sorting = Nil
        /\ view = NoViews
        /\ faults = 0 /\ edits = 0

\* A fetch request that throws: every caller catches and goes on without it.
Fault == faults < MaxFaults /\ faults' = faults + 1

----------------------------------------------------------------------------
(* SectionRepository.mapCDSectionToSection: the products, in an order that *)
(* is sorted by the rule.  sorted(by:) starts from a Set, so products that *)
(* compare equal come in any order.                                        *)

\* The comparator: may y come right after x?
InOrder(rule, x, y) ==
  CASE rule = "newestToOldest"    -> x.remainingDays >= y.remainingDays
    [] rule = "oldestToNewest"    -> x.remainingDays <= y.remainingDays
    [] rule = "quantityLowToHigh" -> x.quantity <= y.quantity
    [] rule = "quantityHighToLow" -> x.quantity >= y.quantity

\* Mutant: the products are not sorted.
OrderingsUnsorted(g, s, rule) ==
  LET ps == ProductsOf(g, s)
      n  == Cardinality(ps)
  IN {f \in [1..n -> ps] : \A p \in ps : \E i \in 1..n : f[i] = p}

Orderings(g, s, rule) ==
  LET ps == ProductsOf(g, s)
      n  == Cardinality(ps)
  IN {f \in [1..n -> ps] :
        /\ \A p \in ps : \E i \in 1..n : f[i] = p
        /\ \A i, j \in 1..n : i < j =>
             f[i] # f[j] /\ InOrder(rule, g.products[f[i]], g.products[f[j]])}

AsProduct(g, p) == [id |-> p, quantity |-> g.products[p].quantity,
                    remainingDays |-> g.products[p].remainingDays]

\* The Section objects fetchSectionById may return.
FetchSectionById(g, s) ==
  LET cd == g.sections[s]
  IN {[title |-> cd.title, rule |-> cd.rule, sortingRule |-> cd.sortingRule,
       products |-> [i \in DOMAIN f |-> AsProduct(g, f[i])]] :
         f \in Orderings(g, s, cd.sortingRule)}

----------------------------------------------------------------------------
(* SectionViewController: the two sort buttons. *)

DateArrow(rule)     == IF rule = "newestToOldest" THEN "up" ELSE "down"
QuantityArrow(rule) == IF rule = "quantityLowToHigh" THEN "up" ELSE "down"

DateRules == {"newestToOldest", "oldestToNewest"}

\* updateButtonAppearanceAndSymbols, on viewDidLoad and viewDidAppear.
ArrowsFor(rule) ==
  IF rule \in DateRules
  THEN [date |-> DateArrow(rule), quantity |-> "gray"]
  ELSE [date |-> "gray", quantity |-> QuantityArrow(rule)]

\* Mutant: the two images of the quantity button are swapped.
TappedArrowsSwapped(b, rule) ==
  IF b = "date" THEN [date |-> DateArrow(rule), quantity |-> "gray"]
  ELSE [date |-> "gray", quantity |-> IF rule = "quantityLowToHigh" THEN "down"
                                                                   ELSE "up"]

\* What the end of a tap sets: the tapped button is active in any case.
TappedArrows(b, rule) ==
  IF b = "date" THEN [date |-> DateArrow(rule), quantity |-> "gray"]
                ELSE [date |-> "gray", quantity |-> QuantityArrow(rule)]

\* The rule a tap asks for, computed from the rule the view model holds.
Toggled(b, rule) ==
  CASE b = "date" /\ rule = "newestToOldest" -> "oldestToNewest"
    [] b = "date" /\ rule # "newestToOldest" -> "newestToOldest"
    [] b = "quantity" /\ rule = "quantityLowToHigh" -> "quantityHighToLow"
    [] b = "quantity" /\ rule # "quantityLowToHigh" -> "quantityLowToHigh"

\* What a SectionViewController holds: its view model's Section, its buttons.
Shown(section, arrows) == [title |-> section.title, rule |-> section.rule,
                           sortingRule |-> section.sortingRule,
                           products |-> section.products,
                           arrows |-> arrows]

----------------------------------------------------------------------------
(* StorageCollectionViewController: rows 0 .. NumberOfItems(n) - 1. *)

\* Mutant: the number of items is not capped.
NumberOfItemsUncapped(n) == n + 1

NumberOfItems(n) == IF n > Limit THEN Limit + 1 ELSE n + 1

IsShowMore(n, row) == (n > Limit /\ row = Limit) \/ (n <= Limit /\ row = n)

\* The rows whose cell is a product card.
CardRows(n) == {row \in 0..(NumberOfItems(n) - 1) : ~IsShowMore(n, row)}

----------------------------------------------------------------------------
(* The process *)

Launch == /\ Repo!LoadPersistentStores
          /\ UNCHANGED <<task, seedUser, sorting, view, faults, edits>>

\* Whatever was in memory goes with the process.
Forget == /\ task' = "none" /\ seedUser' = Nil /\ sorting' = Nil
          /\ view' = NoViews
          /\ UNCHANGED <<faults, edits>>

Kill == Repo!Kill /\ Forget

\* saveContext() returns and the handler goes on, or fatalError().
SaveContext ==
  /\ Repo!SaveContext
  /\ \/ pc' = "idle" /\ UNCHANGED <<task, seedUser, sorting, view, faults, edits>>
     \/ pc' = "down" /\ Forget

----------------------------------------------------------------------------
(* MainViewController.viewDidLoad *)

\* Mutant: userExists() is not asked.
MainViewDidLoadUnchecked ==
  /\ pc = "idle" /\ task = "none"
  /\ view' = NoViews
  /\ \E u \in Users : Repo!CreateUser(u, SeedName) /\ seedUser' = u
  /\ task' = "seed1"
  /\ UNCHANGED <<sorting, faults, edits>>

\* Mutant: no first-run data.
MainViewDidLoadUnseeded ==
  /\ pc = "idle" /\ task = "none"
  /\ view' = NoViews
  /\ task' = "load"
  /\ UNCHANGED <<ctx, disk, pc, seedUser, sorting, faults, edits>>

\* Mutant: an existing user without sections is given them again (the call
\* commented out at the end of UserMetadata.init()).
MainViewDidLoadReseeds ==
  /\ pc = "idle" /\ task = "none"
  /\ view' = NoViews
  /\ \E u \in Users :
       /\ seedUser' = u
       /\ \/ UsersIn(ctx) = {} /\ Repo!CreateUser(u, SeedName) /\ task' = "seed1"
          \/ /\ u \in UsersIn(ctx)
             /\ task' = IF SectionsOf(ctx, u) = {} THEN "seed1" ELSE "load"
             /\ UNCHANGED store
  /\ UNCHANGED <<sorting, faults, edits>>

\* UserMetadata.init(): userExists() is false when its count request throws.
\* A second MainViewController may be loaded by the same process (one is
\* presented by the phone login, the app delegate has its own).
MainViewDidLoad ==
  /\ pc = "idle" /\ task = "none"
  /\ view' = NoViews
  /\ \/ /\ UsersIn(ctx) # {}
        /\ task' = "load"
        /\ UNCHANGED <<ctx, disk, pc, seedUser, faults>>
     \/ /\ \/ UsersIn(ctx) = {} /\ UNCHANGED faults
           \/ UsersIn(ctx) # {} /\ Fault
        /\ \E u \in Users : Repo!CreateUser(u, SeedName) /\ seedUser' = u
        /\ task' = "seed1"
  /\ UNCHANGED <<sorting, edits>>

\* Mutant: the second section is not created.
AfterSeedSkips(k) == "load"

AfterSeed(k) == IF k = 1 THEN "seed2" ELSE "load"

\* createSection(for: user.id!, with: ...): nothing is created when the fetch
\* of the user throws.
SeedSection(k) ==
  /\ pc = "idle"
  /\ task = (IF k = 1 THEN "seed1" ELSE "seed2")
  /\ \/ Repo!CreateSection(seedUser, Seed[seedUser][k]) /\ UNCHANGED faults
     \/ Fault /\ UNCHANGED store
  /\ task' = AfterSeed(k)
  /\ UNCHANGED <<seedUser, sorting, view, edits>>

\* Mutant: a view for only one of the sections.
LoadSectionsFirst ==
  /\ pc = "idle" /\ task = "load"
  /\ \E u \in UsersIn(ctx) :
       \/ /\ SectionsOf(ctx, u) = {}
          /\ view' = NoViews
       \/ \E s \in SectionsOf(ctx, u) : \E sec \in FetchSectionById(ctx, s) :
            view' = [NoViews EXCEPT ![s] = Shown(sec, ArrowsFor(sec.sortingRule))]
  /\ task' = "none" /\ seedUser' = Nil
  /\ UNCHANGED <<ctx, disk, pc, sorting, faults, edits>>

\* InventoryViewController.viewDidLoad: fetchUser() returns any one user, the
\* user's sections are fetched and a view built for each.  A fetch that throws
\* leaves the screen empty.
LoadSections ==
  /\ pc = "idle" /\ task = "load"
  /\ \/ \E u \in UsersIn(ctx) :
          LET ss == SectionsOf(ctx, u) IN
          \E sec \in [ss -> UNION {FetchSectionById(ctx, s) : s \in ss}] :
            /\ \A s \in ss : sec[s] \in FetchSectionById(ctx, s)
            /\ view' = [s \in Sections |->
                 IF s \in ss THEN Shown(sec[s], ArrowsFor(sec[s].sortingRule))
                             ELSE Nil]
            /\ UNCHANGED faults
     \/ Fault /\ view' = NoViews
  /\ task' = "none" /\ seedUser' = Nil
  /\ UNCHANGED <<ctx, disk, pc, sorting, edits>>

----------------------------------------------------------------------------
(* SectionViewController *)

\* A sort button: setSectionSortingRule; nothing is set when its fetch throws.
SortButtonTapped(s, b) ==
  /\ pc = "idle" /\ task = "none" /\ view[s] # Nil
  /\ \/ /\ Repo!SetSectionSortingRule(s, Toggled(b, view[s].sortingRule))
        /\ UNCHANGED faults
     \/ Fault /\ UNCHANGED store
  /\ sorting' = [section |-> s, button |-> b]
  /\ task' = "refetch"
  /\ UNCHANGED <<seedUser, view, edits>>

\* Mutant: sortProducts does not fetch the section again.
FetchUpdatedSectionMissing ==
  /\ pc = "idle" /\ task = "refetch"
  /\ task' = "none" /\ sorting' = Nil
  /\ UNCHANGED <<ctx, disk, pc, seedUser, view, faults, edits>>

\* The rest of the tap: fetchUpdatedSection (the old Section object stays when
\* the fetch throws), the arrows, reloadData.
FetchUpdatedSection ==
  /\ pc = "idle" /\ task = "refetch"
  /\ LET s == sorting.section  b == sorting.button IN
     \/ \E sec \in FetchSectionById(ctx, s) :
          /\ view' = [view EXCEPT ![s] =
                        Shown(sec, TappedArrows(b, sec.sortingRule))]
          /\ UNCHANGED faults
     \/ /\ Fault
        /\ view' = [view EXCEPT ![s] =
                      Shown(view[s], TappedArrows(b, view[s].sortingRule))]
  /\ task' = "none" /\ sorting' = Nil
  /\ UNCHANGED <<ctx, disk, pc, seedUser, edits>>

\* viewDidAppear, each time the inventory tab is selected again.
ViewDidAppear(s) ==
  /\ pc = "idle" /\ task = "none" /\ view[s] # Nil
  /\ view' = [view EXCEPT ![s] = Shown(view[s], ArrowsFor(view[s].sortingRule))]
  /\ UNCHANGED <<ctx, disk, pc, task, seedUser, sorting, faults, edits>>

----------------------------------------------------------------------------
(* CardViewModel: the +/- buttons on the back of a card.  Its didSet, which *)
(* would call ProductRepository.updateProduct, observes the reference and   *)
(* so never runs: an edit changes the object in memory only.                *)

Edit(s, row, x) ==
  /\ pc = "idle" /\ task = "none" /\ edits < MaxEdits
  /\ view' = [view EXCEPT ![s].products[row + 1] = x]
  /\ edits' = edits + 1
  /\ UNCHANGED <<ctx, disk, pc, task, seedUser, sorting, faults>>

ProductAt(s, row) == view[s].products[row + 1]

AddDays(x, d) == [id |-> x.id, quantity |-> x.quantity,
                  remainingDays |-> x.remainingDays + d]

AddQuantity(x, d) == [id |-> x.id, quantity |-> x.quantity + d,
                      remainingDays |-> x.remainingDays]

DecreaseDays(s, row) == Edit(s, row, AddDays(ProductAt(s, row), -1))
IncreaseDays(s, row) == Edit(s, row, AddDays(ProductAt(s, row), 1))

DecreaseQuantity(s, row) == /\ ProductAt(s, row).quantity > 0
                            /\ Edit(s, row, AddQuantity(ProductAt(s, row), -1))
IncreaseQuantity(s, row) == Edit(s, row, AddQuantity(ProductAt(s, row), 1))

CardEdit(s) ==
  /\ view[s] # Nil
  /\ \E row \in CardRows(Len(view[s].products)) :
       \/ DecreaseDays(s, row) \/ IncreaseDays(s, row)
       \/ DecreaseQuantity(s, row) \/ IncreaseQuantity(s, row)

----------------------------------------------------------------------------

\* What the main thread goes on with by itself.
MainThread == \/ SaveContext
              \/ \E k \in {1, 2} : SeedSection(k)
              \/ LoadSections
              \/ FetchUpdatedSection

Next == \/ Launch \/ Kill \/ MainThread \/ MainViewDidLoad
        \/ \E s \in Sections : \/ \E b \in Buttons : SortButtonTapped(s, b)
                               \/ ViewDidAppear(s)
                               \/ CardEdit(s)

Spec == Init /\ [][Next]_vars

----------------------------------------------------------------------------
(* Properties *)

\* Every variable has its type; a handler in progress knows its user or section.
TypeOK ==
  /\ Repo!TypeOK
  /\ task \in Tasks
  /\ seedUser \in Users \cup {Nil}
  /\ sorting \in [section : Sections, button : Buttons] \cup {Nil}
  /\ view \in [Sections -> SectionObject \cup {Nil}]
  /\ faults \in 0..MaxFaults /\ edits \in 0..MaxEdits
  /\ task \in {"seed1", "seed2"} => seedUser \in Users
  /\ task = "refetch" <=> sorting # Nil

ShowsItsProducts(s) ==
  LET ps == view[s].products IN
  /\ \A p \in ProductsOf(ctx, s) : \E i \in DOMAIN ps : ps[i].id = p
  /\ \A i, j \in DOMAIN ps : i # j => ps[i].id # ps[j].id
  /\ \A i \in DOMAIN ps : ps[i].id \in ProductsOf(ctx, s)

ShowsThemInOrder(s) ==
  LET ps == view[s].products IN
  \A i, j \in DOMAIN ps : i < j =>
    InOrder(view[s].sortingRule, ctx.products[ps[i].id], ctx.products[ps[j].id])

\* A section on screen shows each of its stored products exactly once, in an
\* order sorted by the rule it holds and the stored values, through taps,
\* edits, failed fetches and both main screens (SectionRepository.swift:84).
ViewIsSortedPermutation ==
  \A s \in Sections : view[s] # Nil =>
    s \in SectionsIn(ctx) /\ ShowsItsProducts(s) /\ ShowsThemInOrder(s)

\* Unless a fetch has thrown, between handlers the rule on screen is the rule
\* in the store, so the order the user chose is the one the next launch shows.
ViewFollowsStore ==
  (faults = 0 /\ pc = "idle" /\ task = "none") =>
    \A s \in Sections : view[s] # Nil =>
      view[s].sortingRule = disk.sections[s].sortingRule

\* Unless a fetch has thrown, the arrows are those of the rule on screen: the
\* three places that set them agree (SectionViewController.swift:150-174).
ArrowsMatchRule ==
  faults = 0 => \A s \in Sections : view[s] # Nil =>
    view[s].arrows = ArrowsFor(view[s].sortingRule)

\* Every section on screen ends in exactly one "Show More" cell and every other
\* cell has a product to show (StorageCollectionViewController.swift:51-73).
EveryRowHasContent ==
  \A s \in Sections : view[s] # Nil =>
    LET n == Len(view[s].products)
        rows == 0..(NumberOfItems(n) - 1)
    IN /\ \E row \in rows : IsShowMore(n, row)
       /\ \A row \in rows : IsShowMore(n, row) => row = NumberOfItems(n) - 1
       /\ \A row \in CardRows(n) : row + 1 \in DOMAIN view[s].products

\* A stored section always holds all the products UserMetadata gave it: a
\* crash between the saves of the first run never leaves one half filled.
SectionsAreWhole ==
  \A u \in Users, k \in {1, 2} :
    LET sec == Seed[u][k] IN
    sec.id \in SectionsIn(disk) =>
      ProductsOf(disk, sec.id) = {x.id : x \in sec.products}

\* Unless a fetch has thrown there is never a second user, over any number of
\* main screens, crashes and launches, and sections come in their order.
FirstRunHappensOnce ==
  faults = 0 =>
    /\ Cardinality(UsersIn(disk)) <= 1
    /\ \A u \in Users : Seed[u][2].id \in SectionsIn(disk) =>
                          Seed[u][1].id \in SectionsIn(disk)

\* A stored user whose first run is over without having stored both sections.
CutShort(u) ==
  /\ u \in UsersIn(disk) /\ seedUser # u
  /\ SectionsOf(disk, u) # {Seed[u][1].id, Seed[u][2].id}

\* A first run that a crash or a thrown fetch has cut short is never taken up
\* again: the user it stored makes userExists() true for good, and stays
\* without the missing sections over all later launches (UserMetadata.swift:14).
FirstRunIsNotResumed ==
  [][\A u \in Users : CutShort(u) => CutShort(u)']_vars

\* Unless a fetch has thrown, a main screen that shows any section shows every
\* stored one, over all crashes and launches: no section is left with a user
\* that fetchUser() does not return (InventoryViewController.swift:62).
StoredSectionsAreShown ==
  (faults = 0 /\ pc = "idle" /\ task = "none" /\ view # NoViews) =>
    \A s \in SectionsIn(disk) : view[s] # Nil

\* When InventoryViewController fetches the user there is one, even after a
\* crash in the first run: fetchUser() never creates its "Ray" here.
LoadFindsUser == (pc = "idle" /\ task = "load") => UsersIn(ctx) # {}

\* The inventory only ever uses the repositories as Repositories allows.
UsesRepositories == Repo!Spec

\* The first run stores both sections of its user, unless the process ends or
\* a fetch throws.
FirstRunCompletes ==
  \A u \in Users :
    (task = "seed1" /\ seedUser = u) ~>
       \/ SectionsOf(disk, u) = {Seed[u][1].id, Seed[u][2].id}
       \/ pc = "down" \/ faults > 0

\* The cards of section s say after the end of a sort what they said before.
SortKeepsCards(s) ==
  (task = "refetch" /\ view[s] # Nil /\ view'[s] # Nil) =>
    \A i \in DOMAIN view[s].products : \E j \in DOMAIN view'[s].products :
      view'[s].products[j] = view[s].products[i]

\* Sorting a section only reorders it: what a card says of a product does not
\* change.  CardViewModel hands every edit to productRepository.updateProduct
\* (CardViewModel.swift:12), so the objects a sort fetches should agree.
SortOnlyReorders == [][\A s \in Sections : SortKeepsCards(s)]_vars

=============================================================================
