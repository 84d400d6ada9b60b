-------------------------- MODULE SectionApiProofs --------------------------
(***************************************************************************)
(* Proofs about SectionApi, for every store, seed, limit and bound.        *)
(*                                                                         *)
(* The invariant of the inventory tab, IInv, is about the rules and arrows *)
(* on screen and survives calls of the view models from outside; so do the *)
(* invariants of the first run.  Two things are new.  A write-back stores  *)
(* the Section object of a view model, whatever was stored since it was    *)
(* fetched, and the store only shows it one step later, when saveContext() *)
(* replaces the store by the context: ApiSave says that a save pending     *)
(* outside any handler changes no section.  And addProduct shows a product *)
(* that is nowhere in the store, so what holds of the products on screen   *)
(* holds of the stored ones among them.                                    *)
(***************************************************************************)
EXTENDS SectionApi, InventoryProofs

ApiSave == (pc = "saving" /\ task = "none" /\ faults = 0) => ctx.sections = disk.sections

ApiInv == IInv /\ ApiSave

\* The steps that are not the screens' own.
ApiCall ==
  \/ \E u \in Users, name \in Titles : UpdateUser(u, name)
  \/ \E s \in Sections :
       \/ \E x \in ProductValues : AddProduct(s, x)
       \/ \E x \in ProductValues, i \in 1..Cardinality(Products) :
            UpdateProductAt(s, i, x)
       \/ \E row \in 0..Limit : \/ UpdateProductCard(s, row)
                                \/ UpdateRemainingDays(s, row)
                                \/ UpdateQuantity(s, row)

LEMMA ApiSteps == ApiNext <=> Next \/ ApiCall
BY DEF ApiNext, ApiCall

-----------------------------------------------------------------------------
(* What the calls do                                                       *)

\* A user renamed: the same users, the same sections and products.
LEMMA UpdateUserEffect ==
  ASSUME ctx \in Graph, NEW u \in Users, NEW name \in Titles, Repo!UpdateUser(u, name)
  PROVE  /\ ctx' \in Graph /\ pc' = "saving" /\ disk' = disk
         /\ ctx'.sections = ctx.sections /\ ctx'.products = ctx.products
         /\ UsersIn(ctx') = UsersIn(ctx)
<1> DEFINE x == [name |-> name]
<1>1. x \in CDUser /\ x # Nil
  BY NilAssumption DEF CDUser
<1>2. /\ ctx' = [ctx EXCEPT !.users[u] = x] /\ pc' = "saving" /\ disk' = disk
      /\ u \in UsersIn(ctx)
  BY DEF Repo!UpdateUser, Repo!Write, Repo!WithUser, Repo!UsersIn, UsersIn
<1> HIDE DEF x
<1>3. /\ ctx' \in Graph /\ ctx'.sections = ctx.sections /\ ctx'.products = ctx.products
      /\ ctx'.users = [ctx.users EXCEPT ![u] = x] /\ ctx.users \in [Users -> CDUser \cup {Nil}]
  BY <1>1, <1>2 DEF Graph
<1> QED
  BY <1>1, <1>2, <1>3 DEF UsersIn

\* updateSection() writes title, rule and sorting rule of the cached Section back.
\* The first two still are the context's, so to the repository it does what
\* setSectionSortingRule does, unless its fetch throws and nothing is written.
LEMMA WriteBackIsSort ==
  ASSUME ctx \in Graph, NEW s \in Sections, GoodView(ctx, s, view[s]), UpdateSection(s)
  PROVE  \/ Repo!SetSectionSortingRule(s, view[s].sortingRule) /\ UNCHANGED faults
         \/ Fault /\ UNCHANGED store
<1>1. /\ view[s].title = ctx.sections[s].title /\ view[s].rule = ctx.sections[s].rule
      /\ ctx.sections[s].rule \in Int16
  BY DEF GoodView, SectionsIn, Graph, CDSection
<1>2. Repo!UpdateSection([id |-> s, title |-> view[s].title, rule |-> view[s].rule,
                          sortingRule |-> view[s].sortingRule])
        => Repo!SetSectionSortingRule(s, view[s].sortingRule)
  BY <1>1 DEF Repo!UpdateSection, Repo!SetSectionSortingRule, Repo!Int16, Int16,
     Repo!Write, Repo!WithSectionAttributes, Repo!WithSortingRule
<1> QED
  BY <1>2 DEF UpdateSection

\* addProduct and updateProduct(at:with:) give one view other products and write
\* its section back.
LEMMA ProductCall ==
  ASSUME IInv, NEW s \in Sections, NEW x \in ProductValues,
         AddProduct(s, x) \/ \E i \in 1..Cardinality(Products) : UpdateProductAt(s, i, x)
  PROVE  /\ Call(s) /\ UpdateSection(s)
         /\ \E qs \in Seq(ProductObject) :
              /\ view' = [view EXCEPT ![s] = [view[s] EXCEPT !.products = qs]]
              /\ \/ /\ qs = Append(view[s].products, AsObject(x))
                    /\ x.id \notin ProductsIn(ctx)
                    /\ \A i \in DOMAIN view[s].products : view[s].products[i].id # x.id
                 \/ \E i \in 1..Len(view[s].products) :
                      /\ view[s].products[i].id = AsObject(x).id
                      /\ qs = [view[s].products EXCEPT ![i] = AsObject(x)]
<1> DEFINE ps == view[s].products
<1>1. Call(s) /\ UpdateSection(s) /\ view[s] # Nil
  BY DEF AddProduct, UpdateProductAt, Call
<1>2. view[s] \in SectionObject /\ ps \in Seq(ProductObject)
  BY <1>1 DEF IInv, ViewInv, SectionObject
<1>3. AsObject(x) \in ProductObject /\ AsObject(x).id = x.id
  BY ValuesAssumption DEF AsObject, ProductObject, Product
<1>4. CASE AddProduct(s, x)
  <2>1. Append(ps, AsObject(x)) \in Seq(ProductObject)
    BY <1>2, <1>3
  <2>2. view' = [view EXCEPT ![s] = [view[s] EXCEPT !.products = Append(ps, AsObject(x))]]
    BY <1>4 DEF AddProduct
  <2>3. /\ x.id \notin ProductsIn(ctx)
        /\ \A i \in DOMAIN ps : ps[i].id # x.id
    BY <1>4 DEF AddProduct
  <2> QED
    BY <1>1, <2>1, <2>2, <2>3
<1>5. ASSUME NEW i, UpdateProductAt(s, i, x)
      PROVE  \E qs \in Seq(ProductObject) :
               /\ view' = [view EXCEPT ![s] = [view[s] EXCEPT !.products = qs]]
               /\ \E j \in 1..Len(ps) : /\ ps[j].id = AsObject(x).id
                                        /\ qs = [ps EXCEPT ![j] = AsObject(x)]
  <2> DEFINE qs == [ps EXCEPT ![i] = AsObject(x)]
  <2>1. i \in 1..Len(ps) /\ ps[i].id = x.id
    BY <1>2, <1>5 DEF UpdateProductAt
  <2>2. qs \in Seq(ProductObject)
    BY <1>2, <1>3, <2>1, EditedProducts
  <2>3. view' = [view EXCEPT ![s] = [view[s] EXCEPT !.products = qs]]
    BY <1>5 DEF UpdateProductAt
  <2> QED
    BY <1>3, <2>1, <2>2, <2>3
<1> QED
  BY <1>1, <1>4, <1>5

\* The setters of CardViewModel are edits of a card with the id kept.
LEMMA SetterIsEdit ==
  ASSUME IInv, NEW s \in Sections, NEW r \in 0..Limit,
         \/ UpdateProductCard(s, r) \/ UpdateRemainingDays(s, r) \/ UpdateQuantity(s, r)
  PROVE  /\ view[s] # Nil
         /\ \E row \in CardRows(Len(view[s].products)), x \in ProductObject :
              x.id = ProductAt(s, row).id /\ Edit(s, row, x)
<1> DEFINE y == ProductAt(s, r)
           ps == view[s].products
<1>1. view[s] # Nil /\ r \in CardRows(Len(ps))
  BY DEF UpdateProductCard, UpdateRemainingDays, UpdateQuantity, SetStock
<1>2. ps \in Seq(ProductObject) /\ Len(ps) \in Nat
  BY <1>1 DEF IInv, ViewInv, SectionObject
<1>3. r + 1 \in 1..Len(ps)
  BY <1>1, <1>2, RowsHaveContent
<1>4. y \in ProductObject
  BY <1>2, <1>3 DEF ProductAt
<1>5. y.id \in Products /\ y.quantity \in Int /\ y.remainingDays \in Int
  BY <1>4 DEF ProductObject
<1>6. 0..Int16Max \subseteq Int
  BY Int16Assumption
<1>7. PICK q \in Int, d \in Int : SetStock(s, r, q, d)
  BY <1>5, <1>6 DEF UpdateProductCard, UpdateRemainingDays, UpdateQuantity
<1> DEFINE x == [id |-> y.id, quantity |-> q, remainingDays |-> d]
<1>8. Edit(s, r, x)
  BY <1>7 DEF SetStock
<1>9. x \in ProductObject /\ x.id = y.id
  BY <1>5 DEF ProductObject
<1> HIDE DEF x
<1> QED
  BY <1>1, <1>8, <1>9

\* What every call leaves alone: it comes between handlers, creates, deletes and
\* moves nothing, and leaves the store to the save.
CallKeeps ==
  /\ pc = "idle" /\ task = "none"
  /\ UNCHANGED <<task, seedUser, sorting, disk>>
  /\ ctx' \in Graph
  /\ pc' = "saving" \/ (pc' = "idle" /\ ctx' = ctx)
  /\ ctx'.products = ctx.products
  /\ UsersIn(ctx') = UsersIn(ctx) /\ SectionsIn(ctx') = SectionsIn(ctx)
  /\ \A s \in SectionsIn(ctx) : ctx'.sections[s].user = ctx.sections[s].user
  /\ SameLabels(ctx, ctx')
  /\ faults' = 0 => faults = 0 /\ ctx'.sections = ctx.sections
  /\ faults' \in 0..MaxFaults /\ edits' \in 0..MaxEdits

\* While no fetch has thrown the rule written back is the one stored.
LEMMA WriteBackEffect ==
  ASSUME IInv, NEW s \in Sections, Call(s), UpdateSection(s)
  PROVE  CallKeeps
<1>1. /\ pc = "idle" /\ task = "none" /\ view[s] # Nil /\ edits < MaxEdits
      /\ edits' = edits + 1 /\ UNCHANGED <<task, seedUser, sorting>>
  BY DEF Call
<1>2. /\ ctx \in Graph /\ s \in SectionsIn(ctx) /\ view[s].sortingRule \in SortingRule
      /\ GoodView(ctx, s, view[s])
      /\ faults = 0 => view[s].sortingRule = ctx.sections[s].sortingRule
  BY <1>1 DEF IInv, StoreInv, ViewInv, GoodView, SectionObject, RuleInv
<1>3. faults \in 0..MaxFaults /\ edits' \in 0..MaxEdits
  BY <1>1, BoundsAssumption DEF IInv, TaskInv
<1>4. CASE Repo!SetSectionSortingRule(s, view[s].sortingRule) /\ UNCHANGED faults
  <2> DEFINE r == view[s].sortingRule
  <2>1. r \in SortingRule /\ Repo!SetSectionSortingRule(s, r)
    BY <1>2, <1>4
  <2> HIDE DEF r
  <2>2. /\ ctx' \in Graph /\ pc' = "saving" /\ disk' = disk
        /\ ctx'.users = ctx.users /\ ctx'.products = ctx.products
        /\ SectionsIn(ctx') = SectionsIn(ctx)
        /\ ctx'.sections[s].user = ctx.sections[s].user
        /\ SameLabels(ctx, ctx')
        /\ \A t \in Sections : t # s => ctx'.sections[t] = ctx.sections[t]
    BY <1>2, <2>1, SetSortingRuleEffect
  <2>3. UsersIn(ctx') = UsersIn(ctx)
    BY <2>2 DEF UsersIn
  <2>4. \A t \in SectionsIn(ctx) : ctx'.sections[t].user = ctx.sections[t].user
    BY <2>2 DEF SectionsIn
  <2>5. r = ctx.sections[s].sortingRule => ctx'.sections = ctx.sections
    BY <1>2, <2>1, SameRuleWrite
  <2> QED
    BY <1>1, <1>2, <1>3, <1>4, <2>2, <2>3, <2>4, <2>5 DEF CallKeeps, r
<1>5. CASE Fault /\ UNCHANGED store
  <2>1. faults' \in 0..MaxFaults /\ faults' # 0
    BY <1>5, FaultEffect DEF IInv
  <2> QED
    BY <1>1, <1>2, <1>3, <1>5, <2>1 DEF CallKeeps, SameLabels, store
<1> QED
  BY <1>2, <1>4, <1>5, WriteBackIsSort

LEMMA CallEffect ==
  ASSUME IInv, ApiCall
  PROVE  CallKeeps
<1>1. /\ ctx \in Graph
      /\ faults \in 0..MaxFaults /\ edits \in 0..MaxEdits
  BY DEF IInv, StoreInv, TaskInv
<1>2. ASSUME NEW u \in Users, NEW name \in Titles, UpdateUser(u, name)
      PROVE  CallKeeps
  <2>1. /\ pc = "idle" /\ task = "none" /\ Repo!UpdateUser(u, name)
        /\ UNCHANGED <<task, seedUser, sorting, view, faults, edits>>
    BY <1>2 DEF UpdateUser
  <2>2. /\ ctx' \in Graph /\ pc' = "saving" /\ disk' = disk
        /\ ctx'.sections = ctx.sections /\ ctx'.products = ctx.products
        /\ UsersIn(ctx') = UsersIn(ctx)
    BY <1>1, <2>1, UpdateUserEffect
  <2>3. SectionsIn(ctx') = SectionsIn(ctx)
    BY <2>2 DEF SectionsIn
  <2> QED
    BY <1>1, <2>1, <2>2, <2>3 DEF CallKeeps, SameLabels
<1>3. ASSUME NEW s \in Sections, NEW x \in ProductValues,
             \/ AddProduct(s, x)
             \/ \E i \in 1..Cardinality(Products) : UpdateProductAt(s, i, x)
      PROVE  CallKeeps
  BY <1>3, ProductCall, WriteBackEffect
<1>4. ASSUME NEW s \in Sections, NEW row \in 0..Limit,
             \/ UpdateProductCard(s, row) \/ UpdateRemainingDays(s, row)
             \/ UpdateQuantity(s, row)
      PROVE  CallKeeps
  <2>1. PICK r \in CardRows(Len(view[s].products)), x \in ProductObject : Edit(s, r, x)
    BY <1>4, SetterIsEdit
  <2> QED
    BY <1>1, <2>1, BoundsAssumption DEF Edit, CallKeeps, SameLabels
<1> QED
  BY <1>2, <1>3, <1>4 DEF ApiCall

-----------------------------------------------------------------------------
(* The invariants                                                          *)

\* A view with other products, written back by updateSection().
LEMMA WrittenBack ==
  ASSUME IInv, CallKeeps, NEW s \in Sections, view[s] # Nil,
         NEW qs \in Seq(ProductObject),
         view' = [view EXCEPT ![s] = [view[s] EXCEPT !.products = qs]]
  PROVE  ViewInv' /\ RuleInv'
<1> DEFINE v == [view[s] EXCEPT !.products = qs]
<1>1. GoodView(ctx, s, view[s]) /\ view[s] \in SectionObject
  BY DEF IInv, ViewInv, GoodView
<1>2. /\ GoodView(ctx, s, v)
      /\ v.sortingRule = view[s].sortingRule /\ v.arrows = view[s].arrows
  BY <1>1, ViewWithProducts DEF GoodView
<1>3. view' = [view EXCEPT ![s] = v]
  OBVIOUS
<1> HIDE DEF v
<1>4. /\ pc = "idle" /\ pc' # "down" /\ task = "none" /\ task' = "none"
      /\ SectionsIn(ctx') = SectionsIn(ctx) /\ SameLabels(ctx, ctx')
      /\ faults' = 0 => faults = 0 /\ ctx'.sections = ctx.sections
  BY DEF CallKeeps
<1>5. faults = 0 => /\ view[s].arrows = ArrowsFor(view[s].sortingRule)
                    /\ view[s].sortingRule = ctx.sections[s].sortingRule
  BY <1>4 DEF IInv, RuleInv
<1> QED
  BY <1>2, <1>3, <1>4, <1>5, ReplacedView DEF Loading

\* A renamed user leaves the screen alone.
LEMMA SameViews ==
  ASSUME IInv, CallKeeps, view' = view
  PROVE  ViewInv' /\ RuleInv'
<1>1. ViewInv'
  BY DEF IInv, ViewInv, CallKeeps, GoodView, SameLabels, Loading
<1>2. RuleInv'
  BY DEF IInv, RuleInv, CallKeeps
<1> QED
  BY <1>1, <1>2

\* What a call does to the screen: nothing, or other products in one view.
LEMMA CallViews ==
  ASSUME IInv, ApiCall
  PROVE  \/ view' = view
         \/ \E s \in Sections : \E qs \in Seq(ProductObject) :
              /\ view[s] # Nil
              /\ view' = [view EXCEPT ![s] = [view[s] EXCEPT !.products = qs]]
<1>1. ASSUME NEW s \in Sections, NEW x \in ProductValues,
             \/ AddProduct(s, x)
             \/ \E i \in 1..Cardinality(Products) : UpdateProductAt(s, i, x)
      PROVE  \E qs \in Seq(ProductObject) :
               /\ view[s] # Nil
               /\ view' = [view EXCEPT ![s] = [view[s] EXCEPT !.products = qs]]
  BY <1>1, ProductCall DEF Call
<1>2. ASSUME NEW s \in Sections, NEW row \in 0..Limit,
             \/ UpdateProductCard(s, row) \/ UpdateRemainingDays(s, row)
             \/ UpdateQuantity(s, row)
      PROVE  \E qs \in Seq(ProductObject) :
               /\ view[s] # Nil
               /\ view' = [view EXCEPT ![s] = [view[s] EXCEPT !.products = qs]]
  <2>1. view[s] # Nil
    BY <1>2, SetterIsEdit
  <2>2. PICK r \in CardRows(Len(view[s].products)), x \in ProductObject :
          x.id = ProductAt(s, r).id /\ Edit(s, r, x)
    BY <1>2, SetterIsEdit
  <2> QED
    BY <2>1, <2>2, EditEffect
<1> QED
  BY <1>1, <1>2 DEF ApiCall, UpdateUser

LEMMA CallApi ==
  ASSUME IInv, ApiCall
  PROVE  ApiInv'
<1>1. CallKeeps
  BY CallEffect
<1>2. ViewInv' /\ RuleInv'
  BY <1>1, CallViews, WrittenBack, SameViews
<1>3. StoreInv'
  BY <1>1 DEF IInv, StoreInv, CallKeeps
<1>4. TaskInv'
  BY <1>1 DEF IInv, TaskInv, CallKeeps
<1>5. ApiSave'
  BY <1>1 DEF IInv, StoreInv, ApiSave, CallKeeps
<1> QED
  BY <1>2, <1>3, <1>4, <1>5 DEF IInv, ApiInv

\* A handler that leaves a save pending is still in progress, and a save outside
\* any handler is one that a call has left.
LEMMA NextSave ==
  ASSUME IInv, ApiSave, [Next]_vars
  PROVE  ApiSave'
<1> SUFFICES ASSUME pc' = "saving", task' = "none", faults' = 0
             PROVE  ctx'.sections = disk'.sections
  BY DEF ApiSave
<1>1. ~ (Launch \/ Kill \/ SaveContext \/ MainViewDidLoad)
  BY DEF Launch, Kill, SaveContext, MainViewDidLoad, Repo!LoadPersistentStores,
     Repo!Kill, Repo!Die
<1>2. ~ (LoadSections \/ FetchUpdatedSection)
  BY DEF LoadSections, FetchUpdatedSection
<1>3. ~ \E k \in {1, 2} : SeedSection(k)
  BY DEF SeedSection, AfterSeed
<1>4. ASSUME NEW s \in Sections
      PROVE  /\ ~ \E b \in Buttons : SortButtonTapped(s, b)
             /\ ~ ViewDidAppear(s) /\ ~ CardEdit(s)
  BY DEF SortButtonTapped, ViewDidAppear, CardEdit, DecreaseDays, IncreaseDays,
     DecreaseQuantity, IncreaseQuantity, Edit
<1>5. UNCHANGED vars
  BY <1>1, <1>2, <1>3, <1>4 DEF Next, MainThread
<1> QED
  BY <1>5 DEF vars, ApiSave

\* The rules and arrows on screen, and what a pending save may change, with every
\* call of the view models made at any time.
THEOREM ApiInvariance == ApiSpec => []ApiInv
<1>1. Init => ApiInv
  BY InitIInv DEF Init, Repo!Init, ApiInv, ApiSave
<1>2. ApiInv /\ [ApiNext]_vars => ApiInv'
  BY StepIInv, NextSave, CallApi, ApiSteps DEF ApiInv
<1> QED
  BY <1>1, <1>2, PTL DEF ApiSpec

-----------------------------------------------------------------------------
(* The store                                                               *)

\* Only saveContext() changes the store.
LEMMA OnlySavesStore ==
  ASSUME ApiInv, [ApiNext]_vars, ~ SaveContext
  PROVE  disk' = disk
<1>1. CASE ApiCall
  BY <1>1, CallEffect DEF ApiInv, CallKeeps
<1>2. CASE [Next]_vars
  BY <1>2, ScreensOnlySave
<1> QED
  BY <1>1, <1>2, ApiSteps

\* SectionViewModel.updateSection() writes a whole Section object back, yet
\* undoes no title and no rule stored since the object was fetched, unless a
\* fetch has thrown: no step outside a sort tap or the first run changes a stored section.
THEOREM WriteBacksAreSafe == ApiSpec => WriteBackLosesNothing
<1> DEFINE Safe == \A s \in SectionsIn(disk) : (faults' = 0 /\ task = "none") =>
                     disk'.sections[s] = disk.sections[s]
<1>1. ApiInv /\ [ApiNext]_vars => [Safe]_vars
  <2> SUFFICES ASSUME ApiInv, [ApiNext]_vars PROVE Safe
    OBVIOUS
  <2>1. CASE SaveContext
    <3>1. CASE pc' = "down"
      BY <2>1, <3>1 DEF SaveContext, Repo!SaveContext, Repo!Die
    <3>2. CASE pc' # "down"
      <4>1. pc = "saving" /\ disk' = ctx /\ UNCHANGED faults
        BY <2>1, <3>2 DEF SaveContext, Repo!SaveContext, Repo!Die
      <4> QED
        BY <4>1 DEF ApiInv, ApiSave
    <3> QED
      BY <3>1, <3>2
  <2>2. CASE ~ SaveContext
    BY <2>2, OnlySavesStore
  <2> QED
    BY <2>1, <2>2
<1> QED
  BY <1>1, ApiInvariance, PTL DEF ApiSpec, WriteBackLosesNothing

\* Every call of the view models is a call of the repositories or none.
LEMMA CallRefines ==
  ASSUME IInv, ApiCall
  PROVE  Repo!Next \/ UNCHANGED store
<1>1. ASSUME NEW u \in Users, NEW name \in Titles, UpdateUser(u, name)
      PROVE  Repo!Next
  BY <1>1 DEF UpdateUser, Repo!Next, Repo!UserStep
<1>2. ASSUME NEW s \in Sections, Call(s), UpdateSection(s)
      PROVE  Repo!Next \/ UNCHANGED store
  <2>1. /\ ctx \in Graph /\ GoodView(ctx, s, view[s]) /\ view[s].sortingRule \in SortingRule
    BY <1>2 DEF Call, IInv, StoreInv, ViewInv, GoodView, SectionObject
  <2>2. CASE Repo!SetSectionSortingRule(s, view[s].sortingRule)
    BY <2>1, <2>2 DEF Repo!Next, Repo!SectionStep, Repo!SortingRule, SortingRule
  <2> QED
    BY <1>2, <2>1, <2>2, WriteBackIsSort
<1>3. ASSUME NEW s \in Sections, NEW row,
             \/ UpdateProductCard(s, row) \/ UpdateRemainingDays(s, row)
             \/ UpdateQuantity(s, row)
      PROVE  UNCHANGED store
  BY <1>3 DEF UpdateProductCard, UpdateRemainingDays, UpdateQuantity, SetStock,
     Edit, store
<1> QED
  BY <1>1, <1>2, <1>3 DEF ApiCall, AddProduct, UpdateProductAt

\* With every call of the view models made at any time the store is still used as
\* Repositories allows, so that what is proved there holds here: a write-back is
\* to the repository a step it may take anyway, with the context's own attributes.
THEOREM ApiRefinement == ApiSpec => UsesRepositories
<1>1. Init => Repo!Init
  BY DEF Init
<1>2. ApiInv /\ [ApiNext]_vars => [Repo!Next]_(Repo!vars)
  <2> SUFFICES ASSUME ApiInv, [ApiNext]_vars PROVE [Repo!Next]_(Repo!vars)
    OBVIOUS
  <2>1. CASE ApiCall
    BY <2>1, CallRefines DEF ApiInv, Repo!vars, store
  <2>2. CASE [Next]_vars
    BY <2>2, StepRefines
  <2> QED
    BY <2>1, <2>2, ApiSteps
<1> QED
  BY <1>1, <1>2, ApiInvariance, PTL DEF ApiSpec, UsesRepositories, Repo!Spec

\* Hence no call of a view model, whenever it is made, costs a stored section or
\* product, moves one, or leaves a reference to an object that is gone.
THEOREM StoreIsKeptUnderCalls ==
  ApiSpec => Repo!StoredObjectsAreKept /\ []Repo!NoDanglingReference
BY ApiRefinement, UsersKeepObjects, UsersKeepLinks, PTL

-----------------------------------------------------------------------------
(* The properties of the inventory tab, with calls from outside            *)

\* Calls of addProduct, updateProduct(at:with:), the setters of a card and
\* updateUser, at any time, disturb neither the rule nor the arrows on screen
\* while no fetch throws, and leave every row with something to show.
THEOREM ScreenUnderCalls ==
  ApiSpec => [](TypeOK /\ ViewFollowsStore /\ ArrowsMatchRule /\ EveryRowHasContent)
<1>1. ApiInv => TypeOK /\ ViewFollowsStore /\ ArrowsMatchRule /\ EveryRowHasContent
  BY Typed, RuleIsShown, ArrowsAreShown, RowsAreFilled DEF ApiInv
<1> QED
  BY <1>1, ApiInvariance, PTL

LEMMA CallFirstRun ==
  ASSUME IInv, FirstRunInv, SeedInv, ApiCall
  PROVE  FirstRunInv' /\ SeedInv'
<1>1. CallKeeps
  BY CallEffect
<1>2. /\ task' = "none" /\ disk' = disk /\ seedUser' = seedUser
      /\ faults' = 0 => faults = 0
  BY <1>1 DEF CallKeeps
<1>3. Whole(ctx) => Whole(ctx')
  BY <1>1, WholeStays DEF CallKeeps
<1>4. Once(ctx) => Once(ctx')
  BY <1>1, OnceStays DEF CallKeeps
<1>5. Owned(ctx) => Owned(ctx')
  BY <1>1, OwnersStay DEF CallKeeps
<1>6. FirstRunInv'
  BY <1>2, <1>3, <1>4 DEF FirstRunInv
<1>7. SeedInv'
  BY <1>1, <1>2, <1>5 DEF SeedInv, CallKeeps
<1> QED
  BY <1>6, <1>7

\* Nor do such calls disturb the first run: it is made once, is stored whole, and
\* the load that follows finds a user.
THEOREM FirstRunUnderCalls ==
  ApiSpec => [](/\ SectionsAreWhole /\ FirstRunHappensOnce
                /\ FirstRunIsStored /\ LoadFindsUser)
<1>1. Init => FirstRunInv /\ SeedInv
  BY InitFirstRun, InitSeed
<1>2. ApiInv /\ FirstRunInv /\ SeedInv /\ [ApiNext]_vars => FirstRunInv' /\ SeedInv'
  BY StepFirstRun, StepSeed, CallFirstRun, ApiSteps DEF ApiInv
<1>3. ApiSpec => [](FirstRunInv /\ SeedInv)
  BY <1>1, <1>2, ApiInvariance, PTL DEF ApiSpec
<1>4. ApiInv /\ FirstRunInv /\ SeedInv =>
        /\ SectionsAreWhole /\ FirstRunHappensOnce
        /\ FirstRunIsStored /\ LoadFindsUser
  BY SectionsWhole, OneUser, UserIsThere
     DEF ApiInv, IInv, StoreInv, SeedInv, FirstRunIsStored
<1> QED
  BY <1>3, <1>4, ApiInvariance, PTL

\* And a first run that was cut short stays so: no call of the view models makes
\* up for the sections its user is without.
THEOREM CutShortUnderCalls == ApiSpec => FirstRunIsNotResumed
<1>1. ASSUME IInv, OthersKept, ApiCall
      PROVE  OthersKept' /\ \A u \in Users : CutShort(u) => CutShort(u)'
  <2>1. CallKeeps
    BY <1>1, CallEffect
  <2>2. pc = "idle" /\ disk = ctx /\ disk' = disk /\ seedUser' = seedUser
    BY <1>1, <2>1 DEF CallKeeps, IInv, StoreInv
  <2>3. UsersIn(ctx') = UsersIn(ctx) /\ \A u : SectionsOf(ctx', u) = SectionsOf(ctx, u)
    BY <2>1, OwnersStay DEF CallKeeps
  <2> QED
    BY <2>2, <2>3 DEF OthersKept, CutShort
<1>2. Init => OthersKept
  BY DEF Init, Repo!Init, OthersKept
<1>3. ApiInv /\ OthersKept /\ [ApiNext]_vars => OthersKept'
  BY <1>1, StepOthers, ApiSteps DEF ApiInv
<1>4. ApiInv /\ OthersKept /\ [ApiNext]_vars =>
        [\A u \in Users : CutShort(u) => CutShort(u)']_vars
  BY <1>1, CutShortStays, ApiSteps DEF ApiInv
<1> QED
  BY <1>2, <1>3, <1>4, ApiInvariance, PTL DEF ApiSpec, FirstRunIsNotResumed

\* No call is made in the middle of a handler: it still ends within six steps.
THEOREM HandlersAreShortUnderCalls ==
  ApiSpec => [][task # "none" => StepsLeft \in 1..6 /\ StepsLeft' < StepsLeft]_vars
<1>1. ASSUME IInv, task # "none" PROVE StepsLeft \in 1..6
  BY <1>1 DEF IInv, StoreInv, TaskInv, Tasks, StepsLeft
<1>2. ASSUME IInv, ApiCall PROVE task = "none"
  BY <1>2, CallEffect DEF CallKeeps
<1>3. ApiInv /\ [ApiNext]_vars =>
        [task # "none" => StepsLeft \in 1..6 /\ StepsLeft' < StepsLeft]_vars
  BY <1>1, <1>2, StepsDecrease, ApiSteps DEF ApiInv
<1> QED
  BY <1>3, ApiInvariance, PTL DEF ApiSpec

-----------------------------------------------------------------------------
(* The stored products on screen                                           *)

\* ps has each product of section s in g once, and those of them that are stored
\* are sorted by rule.
StoredShown(g, s, rule, ps) ==
  /\ \A p \in ProductsOf(g, s) : \E i \in DOMAIN ps : ps[i].id = p
  /\ \A i, j \in DOMAIN ps : i # j => ps[i].id # ps[j].id
  /\ \A i, j \in DOMAIN ps :
       (i < j /\ ps[i].id \in ProductsOf(g, s) /\ ps[j].id \in ProductsOf(g, s)) =>
         InOrder(rule, g.products[ps[i].id], g.products[ps[j].id])

\* A section on screen shows every stored product of it exactly once, and the
\* stored ones in the order of the rule it holds: a product of addProduct, which
\* is stored nowhere, comes on top of them and displaces none.
ViewShowsStored ==
  \A s \in Sections : view[s] # Nil =>
    StoredShown(ctx, s, view[s].sortingRule, view[s].products)

\* What a fetch returns is all stored.
LEMMA AllStored ==
  ASSUME NEW g, NEW s, NEW rule, NEW ps, Permutes(g, s, ps), Sorted(g, rule, ps)
  PROVE  StoredShown(g, s, rule, ps)
BY DEF Permutes, Sorted, StoredShown

\* Only the products of the graph matter.
LEMMA StoredStays ==
  ASSUME NEW g, NEW h, h.products = g.products, NEW s, NEW rule, NEW ps,
         StoredShown(g, s, rule, ps)
  PROVE  StoredShown(h, s, rule, ps)
<1>1. ProductsOf(h, s) = ProductsOf(g, s)
  BY DEF ProductsOf, ProductsIn
<1> QED
  BY <1>1 DEF StoredShown

\* A product edited or replaced by one with its id.
LEMMA EditedStored ==
  ASSUME NEW g, NEW s, NEW rule, NEW ps \in Seq(ProductObject), NEW i \in 1..Len(ps),
         NEW x, x.id = ps[i].id, StoredShown(g, s, rule, ps)
  PROVE  StoredShown(g, s, rule, [ps EXCEPT ![i] = x])
<1> DEFINE qs == [ps EXCEPT ![i] = x]
<1>1. DOMAIN qs = DOMAIN ps /\ \A j \in DOMAIN ps : qs[j].id = ps[j].id
  OBVIOUS
<1> HIDE DEF qs
<1> QED
  BY <1>1 DEF StoredShown, qs

\* A product that is not stored, added at the end.
LEMMA AppendedStored ==
  ASSUME NEW g, NEW s, NEW rule, NEW ps \in Seq(ProductObject), NEW x,
         x.id \notin ProductsIn(g), \A i \in DOMAIN ps : ps[i].id # x.id,
         StoredShown(g, s, rule, ps)
  PROVE  StoredShown(g, s, rule, Append(ps, x))
<1> DEFINE qs == Append(ps, x)
           n  == Len(ps)
<1>1. /\ n \in Nat /\ DOMAIN ps = 1..n /\ DOMAIN qs = 1..(n + 1)
      /\ \A i \in 1..n : qs[i] = ps[i]
      /\ qs[n + 1] = x
  OBVIOUS
<1> HIDE DEF qs, n
<1>2. \A i \in DOMAIN qs : (i \in DOMAIN ps /\ qs[i] = ps[i]) \/ (i = n + 1 /\ qs[i] = x)
  BY <1>1
<1>3. DOMAIN ps \subseteq DOMAIN qs /\ x.id \notin ProductsOf(g, s)
  BY <1>1 DEF ProductsOf
<1>4. \A p \in ProductsOf(g, s) : \E i \in DOMAIN qs : qs[i].id = p
  BY <1>1, <1>3 DEF StoredShown
<1>5. ASSUME NEW i \in DOMAIN qs, NEW j \in DOMAIN qs, i # j
      PROVE  qs[i].id # qs[j].id
  BY <1>2, <1>5 DEF StoredShown
<1>6. ASSUME NEW i \in DOMAIN qs, NEW j \in DOMAIN qs, i < j,
             qs[i].id \in ProductsOf(g, s), qs[j].id \in ProductsOf(g, s)
      PROVE  InOrder(rule, g.products[qs[i].id], g.products[qs[j].id])
  <2>1. i \in DOMAIN ps /\ j \in DOMAIN ps /\ qs[i] = ps[i] /\ qs[j] = ps[j]
    BY <1>2, <1>3, <1>6
  <2> QED
    BY <1>6, <2>1 DEF StoredShown
<1> QED
  BY <1>4, <1>5, <1>6 DEF StoredShown, qs

\* One view is replaced, over the same products.
LEMMA ReplacedStored ==
  ASSUME IInv, ViewShowsStored, NEW s \in Sections, NEW v,
         view' = [view EXCEPT ![s] = v], ctx'.products = ctx.products,
         StoredShown(ctx, s, v.sortingRule, v.products)
  PROVE  ViewShowsStored'
<1> SUFFICES ASSUME NEW t \in Sections, view'[t] # Nil
             PROVE  StoredShown(ctx', t, view'[t].sortingRule, view'[t].products)
  BY DEF ViewShowsStored
<1>1. view'[s] = v /\ (t # s => view'[t] = view[t])
  BY DEF IInv, ViewInv
<1>2. StoredShown(ctx, t, view'[t].sortingRule, view'[t].products)
  BY <1>1 DEF ViewShowsStored
<1> QED
  BY <1>2, StoredStays

\* One view gets other products of the same ids, over the same products.
LEMMA OtherProductsStored ==
  ASSUME IInv, ViewShowsStored, NEW s \in Sections, view[s] # Nil,
         NEW qs \in Seq(ProductObject), ctx'.products = ctx.products,
         view' = [view EXCEPT ![s] = [view[s] EXCEPT !.products = qs]],
         StoredShown(ctx, s, view[s].sortingRule, qs)
  PROVE  ViewShowsStored'
<1> DEFINE v == [view[s] EXCEPT !.products = qs]
<1>1. view[s] \in SectionObject
  BY DEF IInv, ViewInv
<1>2. v.products = qs /\ v.sortingRule = view[s].sortingRule
  BY <1>1, ViewWithProducts
<1> HIDE DEF v
<1> QED
  BY <1>2, ReplacedStored DEF v

\* An edit of any kind keeps the ids.
LEMMA EditStored ==
  ASSUME IInv, ViewShowsStored, NEW s \in Sections, view[s] # Nil,
         NEW row \in CardRows(Len(view[s].products)), NEW x \in ProductObject,
         x.id = ProductAt(s, row).id, Edit(s, row, x)
  PROVE  ViewShowsStored'
<1> DEFINE ps == view[s].products
<1>1. /\ ctx' = ctx
      /\ \E i \in 1..Len(ps) :
           LET qs == [ps EXCEPT ![i] = x]
           IN /\ x.id = ps[i].id
              /\ qs \in Seq(ProductObject)
              /\ view' = [view EXCEPT ![s] = [view[s] EXCEPT !.products = qs]]
  BY EditEffect
<1>2. PICK i \in 1..Len(ps) :
        /\ x.id = ps[i].id
        /\ [ps EXCEPT ![i] = x] \in Seq(ProductObject)
        /\ view' = [view EXCEPT ![s] = [view[s] EXCEPT !.products = [ps EXCEPT ![i] = x]]]
  BY <1>1
<1>3. ps \in Seq(ProductObject) /\ StoredShown(ctx, s, view[s].sortingRule, ps)
  BY DEF IInv, ViewInv, SectionObject, ViewShowsStored
<1>4. StoredShown(ctx, s, view[s].sortingRule, [ps EXCEPT ![i] = x])
  BY <1>2, <1>3, EditedStored
<1> QED
  BY <1>1, <1>2, <1>4, OtherProductsStored

LEMMA CallStored ==
  ASSUME IInv, ViewShowsStored, ApiCall
  PROVE  ViewShowsStored'
<1>1. ctx'.products = ctx.products
  BY CallEffect DEF CallKeeps
<1>2. ASSUME NEW u, NEW name, UpdateUser(u, name)
      PROVE  ViewShowsStored'
  BY <1>1, <1>2, StoredStays DEF UpdateUser, ViewShowsStored
<1>3. ASSUME NEW s \in Sections, NEW x \in ProductValues,
             \/ AddProduct(s, x)
             \/ \E i \in 1..Cardinality(Products) : UpdateProductAt(s, i, x)
      PROVE  ViewShowsStored'
  <2> DEFINE ps == view[s].products
             y  == AsObject(x)
  <2>1. PICK qs \in Seq(ProductObject) :
          /\ view' = [view EXCEPT ![s] = [view[s] EXCEPT !.products = qs]]
          /\ \/ /\ qs = Append(ps, y)
                /\ x.id \notin ProductsIn(ctx)
                /\ \A i \in DOMAIN ps : ps[i].id # x.id
             \/ \E i \in 1..Len(ps) : ps[i].id = y.id /\ qs = [ps EXCEPT ![i] = y]
    BY <1>3, ProductCall
  <2>2. view[s] # Nil
    BY <1>3 DEF AddProduct, UpdateProductAt, Call
  <2>3. ps \in Seq(ProductObject) /\ StoredShown(ctx, s, view[s].sortingRule, ps)
    BY <2>2 DEF IInv, ViewInv, SectionObject, ViewShowsStored
  <2>4. y.id = x.id
    BY DEF AsObject
  <2> HIDE DEF y, ps
  <2>5. StoredShown(ctx, s, view[s].sortingRule, qs)
    <3>1. CASE /\ qs = Append(ps, y) /\ x.id \notin ProductsIn(ctx)
               /\ \A i \in DOMAIN ps : ps[i].id # x.id
      <4>1. y.id \notin ProductsIn(ctx) /\ \A i \in DOMAIN ps : ps[i].id # y.id
        BY <2>4, <3>1
      <4> QED
        BY <2>3, <3>1, <4>1, AppendedStored
    <3>2. CASE \E i \in 1..Len(ps) : ps[i].id = y.id /\ qs = [ps EXCEPT ![i] = y]
      <4>1. PICK i \in 1..Len(ps) : y.id = ps[i].id /\ qs = [ps EXCEPT ![i] = y]
        BY <3>2
      <4>2. StoredShown(ctx, s, view[s].sortingRule, [ps EXCEPT ![i] = y])
        BY <2>3, <4>1, EditedStored
      <4> QED
        BY <4>1, <4>2
    <3> QED
      BY <2>1, <3>1, <3>2
  <2> QED
    BY <1>1, <2>1, <2>2, <2>5, OtherProductsStored
<1>4. ASSUME NEW s \in Sections, NEW row \in 0..Limit,
             \/ UpdateProductCard(s, row) \/ UpdateRemainingDays(s, row)
             \/ UpdateQuantity(s, row)
      PROVE  ViewShowsStored'
  BY <1>4, SetterIsEdit, EditStored
<1> QED
  BY <1>2, <1>3, <1>4 DEF ApiCall

LEMMA NextStored ==
  ASSUME IInv, ViewShowsStored, [Next]_vars
  PROVE  ViewShowsStored'
<1>1. ASSUME view' = NoViews PROVE ViewShowsStored'
  BY <1>1 DEF ViewShowsStored, NoViews
<1>2. ASSUME view' = view, ctx'.products = ctx.products PROVE ViewShowsStored'
  BY <1>2, StoredStays DEF ViewShowsStored
<1>3. CASE Launch
  <2>1. view' = NoViews
    BY <1>3 DEF Launch, Repo!LoadPersistentStores, IInv, ViewInv
  <2> QED
    BY <1>1, <2>1
<1>4. CASE Kill \/ MainViewDidLoad
  BY <1>1, <1>4 DEF Kill, Forget, MainViewDidLoad
<1>5. CASE SaveContext
  <2>1. CASE pc' = "down"
    BY <1>1, <1>5, <2>1 DEF SaveContext, Forget
  <2>2. CASE pc' # "down"
    BY <1>2, <1>5, <2>2 DEF SaveContext, Repo!SaveContext, Repo!Die
  <2> QED
    BY <2>1, <2>2
<1>6. ASSUME NEW k \in {1, 2}, SeedSection(k)
      PROVE  ViewShowsStored'
  <2>1. task \in Loading /\ view' = view
    BY <1>6 DEF SeedSection, Loading
  <2> QED
    BY <1>1, <2>1 DEF IInv, ViewInv
<1>7. CASE LoadSections
  <2>1. ProductsInv'
    BY <1>7, LoadSectionsProducts
  <2> QED
    BY <2>1, AllStored DEF ProductsInv, GoodProducts, ViewShowsStored
<1>8. CASE FetchUpdatedSection
  <2> DEFINE s == sorting.section
  <2>1. /\ ctx' = ctx /\ s \in Sections /\ view[s] # Nil
        /\ \E v : /\ view' = [view EXCEPT ![s] = v]
                  /\ \/ /\ v.products = view[s].products
                        /\ v.sortingRule = view[s].sortingRule
                     \/ /\ Permutes(ctx, s, v.products)
                        /\ Sorted(ctx, v.sortingRule, v.products)
    BY <1>8, TapEnds
  <2>2. StoredShown(ctx, s, view[s].sortingRule, view[s].products)
    BY <2>1 DEF ViewShowsStored
  <2> HIDE DEF s
  <2> QED
    BY <2>1, <2>2, AllStored, ReplacedStored
<1>9. ASSUME NEW s \in Sections, NEW b \in Buttons, SortButtonTapped(s, b)
      PROVE  ViewShowsStored'
  <2>1. view' = view
    BY <1>9 DEF SortButtonTapped
  <2>2. ctx'.products = ctx.products
    <3>1. CASE Repo!SetSectionSortingRule(s, Toggled(b, view[s].sortingRule))
      BY <3>1, ToggledRule, SetSortingRuleEffect DEF IInv, StoreInv
    <3> QED
      BY <1>9, <3>1 DEF SortButtonTapped, store
  <2> QED
    BY <1>2, <2>1, <2>2
<1>10. ASSUME NEW s \in Sections, ViewDidAppear(s)
       PROVE  ViewShowsStored'
  <2> DEFINE v == Shown(view[s], ArrowsFor(view[s].sortingRule))
  <2>1. view[s] # Nil /\ view' = [view EXCEPT ![s] = v] /\ ctx' = ctx
    BY <1>10 DEF ViewDidAppear
  <2>2. v.products = view[s].products /\ v.sortingRule = view[s].sortingRule
    BY DEF Shown
  <2> HIDE DEF v
  <2> QED
    BY <2>1, <2>2, ReplacedStored DEF ViewShowsStored
<1>11. ASSUME NEW s \in Sections, CardEdit(s)
       PROVE  ViewShowsStored'
  BY <1>11, CardEditIsEdit, EditStored DEF CardEdit
<1>12. CASE UNCHANGED vars
  BY <1>2, <1>12 DEF vars
<1> QED
  BY <1>3, <1>4, <1>5, <1>6, <1>7, <1>8, <1>9, <1>10, <1>11, <1>12
  DEF Next, MainThread

\* No call of addProduct or updateProduct(at:with:), and no setter of a card, hides,
\* repeats or misplaces a stored product on screen, whatever fetches throw.
THEOREM StoredProductsShown == ApiSpec => []ViewShowsStored
<1>1. Init => ViewShowsStored
  BY DEF Init, ViewShowsStored, NoViews
<1>2. ApiInv /\ ViewShowsStored /\ [ApiNext]_vars => ViewShowsStored'
  BY NextStored, CallStored, ApiSteps DEF ApiInv
<1> QED
  BY <1>1, <1>2, ApiInvariance, PTL DEF ApiSpec

=============================================================================
