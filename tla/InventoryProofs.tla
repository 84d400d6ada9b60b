-------------------------- MODULE InventoryProofs --------------------------
(***************************************************************************)
(* Proofs about Inventory, for every store, seed, display limit and bound. *)
(*                                                                         *)
(* The properties of the screen are not inductive.  A view is compared     *)
(* with the context, so the invariant says what the writes leave alone: a  *)
(* section is only ever created while the screen is empty, and a sort tap  *)
(* changes a rule but no product.  Between the save and the fetch of a tap *)
(* the screen is behind the context; what holds then is that the context's *)
(* rule is one of the tapped button, which makes the arrows the tap sets   *)
(* equal to the ones viewDidAppear would set.                              *)
(*                                                                         *)
(* IInv is about rules and arrows and also holds when the view models are  *)
(* called from outside (SectionApiProofs); ProductsInv, about the products *)
(* shown, holds for the screens alone.                                     *)
(***************************************************************************)
EXTENDS Inventory, FiniteSetTheorems, SequenceTheorems, TLAPS

\* ps lists each product of section s in g exactly once.
Permutes(g, s, ps) ==
  /\ \A p \in ProductsOf(g, s) : \E i \in DOMAIN ps : ps[i].id = p
  /\ \A i, j \in DOMAIN ps : i # j => ps[i].id # ps[j].id
  /\ \A i \in DOMAIN ps : ps[i].id \in ProductsOf(g, s)

\* ps is sorted by rule and the values g has.
Sorted(g, rule, ps) ==
  \A i, j \in DOMAIN ps : i < j =>
    InOrder(rule, g.products[ps[i].id], g.products[ps[j].id])

\* ps says of its products what g has.
Fresh(g, ps) == \A i \in DOMAIN ps : ps[i] = AsProduct(g, ps[i].id)

\* The sections of g have the same title and rule in h.
SameLabels(g, h) == \A s \in SectionsIn(g) : /\ h.sections[s].title = g.sections[s].title
                                            /\ h.sections[s].rule = g.sections[s].rule

\* Row count, "Show More" row and product index agree, for any limit.
LEMMA RowsHaveContent ==
  ASSUME NEW n \in Nat
  PROVE  LET rows == 0..(NumberOfItems(n) - 1) IN
         /\ \E row \in rows : IsShowMore(n, row)
         /\ \A row \in rows : IsShowMore(n, row) => row = NumberOfItems(n) - 1
         /\ \A row \in CardRows(n) : row \in Nat /\ row + 1 \in 1..n
<1>1. CASE n > Limit
  <2>1. Limit \in 0..(NumberOfItems(n) - 1) /\ IsShowMore(n, Limit)
    BY <1>1, LimitAssumption DEF NumberOfItems, IsShowMore
  <2> QED
    BY <1>1, <2>1, LimitAssumption DEF NumberOfItems, IsShowMore, CardRows
<1>2. CASE n <= Limit
  <2>1. n \in 0..(NumberOfItems(n) - 1) /\ IsShowMore(n, n)
    BY <1>2, LimitAssumption DEF NumberOfItems, IsShowMore
  <2> QED
    BY <1>2, <2>1, LimitAssumption DEF NumberOfItems, IsShowMore, CardRows
<1> QED
  BY <1>1, <1>2, LimitAssumption

\* What fetchSectionById returns of a stored section: its attributes, and each
\* of its products once, sorted by its sorting rule.
LEMMA FetchedSection ==
  ASSUME NEW g \in Graph, NEW s \in SectionsIn(g), NEW sec \in FetchSectionById(g, s)
  PROVE  /\ sec.title = g.sections[s].title /\ sec.title \in Titles
         /\ sec.rule = g.sections[s].rule /\ sec.rule \in Int
         /\ sec.sortingRule = g.sections[s].sortingRule
         /\ sec.sortingRule \in SortingRule
         /\ sec.products \in Seq(ProductObject)
         /\ Permutes(g, s, sec.products)
         /\ Sorted(g, sec.sortingRule, sec.products)
         /\ Fresh(g, sec.products)
<1> DEFINE cd   == g.sections[s]
           rule == cd.sortingRule
           ps   == ProductsOf(g, s)
           n    == Cardinality(ps)
<1>1. rule \in SortingRule /\ cd.title \in Titles /\ cd.rule \in Int
  BY Int16Assumption DEF Graph, SectionsIn, CDSection, Int16
<1>2. PICK f \in Orderings(g, s, rule) :
        sec = [title |-> cd.title, rule |-> cd.rule, sortingRule |-> rule,
               products |-> [i \in DOMAIN f |-> AsProduct(g, f[i])]]
  BY DEF FetchSectionById
<1>3. n \in Nat
  <2>1. ps \subseteq Products
    BY DEF ProductsOf, ProductsIn
  <2>2. IsFiniteSet(ps)
    BY <2>1, FiniteAssumption, FS_Subset
  <2> QED
    BY <2>2, FS_CardinalityType
<1> HIDE DEF n
<1>4. /\ f \in [1..n -> ps]
      /\ \A p \in ps : \E i \in 1..n : f[i] = p
      /\ \A i, j \in 1..n : i < j => f[i] # f[j] /\ InOrder(rule, g.products[f[i]], g.products[f[j]])
  BY <1>2 DEF Orderings, n
<1>5. \A p \in ps : AsProduct(g, p) \in ProductObject /\ AsProduct(g, p).id = p
  BY Int16Assumption DEF AsProduct, ProductObject, ProductsOf, ProductsIn, Graph, CDProduct, Int16
<1>6. sec.products = [i \in 1..n |-> AsProduct(g, f[i])]
  BY <1>2, <1>4
<1>7. DOMAIN sec.products = 1..n /\ \A i \in 1..n : sec.products[i].id = f[i]
  BY <1>4, <1>5, <1>6
<1>8. sec.products \in Seq(ProductObject)
  <2>1. sec.products \in [1..n -> ProductObject]
    BY <1>4, <1>5, <1>6
  <2> QED
    BY <2>1, <1>3, SeqDef
<1>9. Permutes(g, s, sec.products)
  <2>1. \A i, j \in 1..n : i # j => f[i] # f[j]
    <3> SUFFICES ASSUME NEW i \in 1..n, NEW j \in 1..n, i # j PROVE f[i] # f[j]
      OBVIOUS
    <3>1. i < j \/ j < i
      BY <1>3
    <3> QED
      BY <1>4, <3>1
  <2> QED
    BY <1>4, <1>7, <2>1 DEF Permutes
<1>10. Sorted(g, rule, sec.products)
  BY <1>4, <1>7 DEF Sorted
<1>11. Fresh(g, sec.products)
  BY <1>6, <1>7 DEF Fresh
<1> QED
  BY <1>1, <1>2, <1>8, <1>9, <1>10, <1>11

\* An edit of one product keeps what the section shows and its order.
LEMMA EditedProducts ==
  ASSUME NEW g, NEW s, NEW rule, NEW ps \in Seq(ProductObject), NEW i \in 1..Len(ps),
         NEW x \in ProductObject, x.id = ps[i].id
  PROVE  LET qs == [ps EXCEPT ![i] = x]
         IN /\ qs \in Seq(ProductObject)
            /\ Permutes(g, s, ps) => Permutes(g, s, qs)
            /\ Sorted(g, rule, ps) => Sorted(g, rule, qs)
<1> DEFINE qs == [ps EXCEPT ![i] = x]
           n  == Len(ps)
<1>1. n \in Nat /\ ps \in [1..n -> ProductObject] /\ DOMAIN ps = 1..n
  OBVIOUS
<1> HIDE DEF n
<1>2. qs \in [1..n -> ProductObject] /\ DOMAIN qs = 1..n
  BY <1>1 
<1>3. \A j \in 1..n : qs[j].id = ps[j].id
  BY <1>1
<1>4. qs \in Seq(ProductObject)
  BY <1>1, <1>2, SeqDef
<1> HIDE DEF qs
<1>5. Permutes(g, s, ps) => Permutes(g, s, qs)
  BY <1>1, <1>2, <1>3 DEF Permutes
<1>6. Sorted(g, rule, ps) => Sorted(g, rule, qs)
  BY <1>1, <1>2, <1>3 DEF Sorted
<1> QED
  BY <1>4, <1>5, <1>6 DEF qs

----------------------------------------------------------------------------
(* What the writes of this module do to the object graph *)

\* createUser: a user more, sections and products as before.
LEMMA CreateUserEffect ==
  ASSUME ctx \in Graph, NEW u \in Users, Repo!CreateUser(u, SeedName)
  PROVE  /\ ctx' \in Graph /\ pc' = "saving" /\ disk' = disk
         /\ UsersIn(ctx') # {}
<1> DEFINE x == [name |-> SeedName]
<1>1. x \in CDUser /\ x # Nil
  BY NamesAssumption, NilAssumption DEF CDUser
<1>2. ctx' = [ctx EXCEPT !.users[u] = x] /\ pc' = "saving" /\ disk' = disk
  BY DEF Repo!CreateUser, Repo!Write, Repo!WithUser
<1> HIDE DEF x
<1>3. ctx' \in Graph /\ ctx'.users[u] = x
  BY <1>1, <1>2 DEF Graph
<1> QED
  BY <1>1, <1>2, <1>3 DEF UsersIn

\* createSection: one section more with its products, the users as before.
LEMMA CreateSectionEffect ==
  ASSUME ctx \in Graph, NEW k \in {1, 2}, Repo!CreateSection(seedUser, Seed[seedUser][k])
  PROVE  /\ ctx' \in Graph /\ pc' = "saving" /\ disk' = disk
         /\ UsersIn(ctx') = UsersIn(ctx)
<1> DEFINE sec == Seed[seedUser][k]
           c == [title |-> sec.title, rule |-> sec.rule,
                 sortingRule |-> sec.sortingRule, user |-> seedUser]
           m == Repo!MapProductsToCDProducts(ctx, sec.products, sec.id)
<1>1. seedUser \in Users
  BY DEF Repo!CreateSection, Repo!UsersIn
<1>2. sec \in SectionValues /\ SectionFits(sec)
  BY <1>1, SeedAssumption
<1>3. sec \in Section /\ sec.products \in SUBSET ProductValues
  BY <1>2, ValuesAssumption DEF Section
<1> HIDE DEF sec
<1>4. ctx' = [ctx EXCEPT !.sections[sec.id] = c, !.products = m]
      /\ pc' = "saving" /\ disk' = disk
  BY <1>2 DEF Repo!CreateSection, Repo!SectionFits, SectionFits, Repo!ProductFits,
     ProductFits, Repo!Int16, Int16, Repo!Write, Repo!WithSection, sec
<1>5. c \in CDSection
  BY <1>1, <1>2, <1>3 DEF CDSection, Section, SectionFits
<1>6. m \in [Products -> CDProduct \cup {Nil}]
  <2> SUFFICES ASSUME NEW p \in Products PROVE m[p] \in CDProduct \cup {Nil}
    BY DEF Repo!MapProductsToCDProducts
  <2>1. CASE \E x \in sec.products : x.id = p
    <3> DEFINE x == CHOOSE x \in sec.products : x.id = p
    <3>1. x \in sec.products
      BY <2>1
    <3>2. m[p] = [title |-> x.title, quantity |-> x.quantity,
                  remainingDays |-> x.remainingDays, section |-> sec.id]
      BY <2>1 DEF Repo!MapProductsToCDProducts, Repo!AsCDProduct
    <3> HIDE DEF x
    <3>3. x \in Product /\ ProductFits(x)
      BY <1>2, <1>3, <3>1, ValuesAssumption DEF SectionFits
    <3> QED
      BY <1>3, <3>2, <3>3 DEF CDProduct, Product, ProductFits, Section
  <2>2. CASE ~ \E x \in sec.products : x.id = p
    BY <2>2 DEF Repo!MapProductsToCDProducts, Graph
  <2> QED
    BY <2>1, <2>2
<1> HIDE DEF c, m
<1>7. ctx' \in Graph /\ ctx'.users = ctx.users
  BY <1>3, <1>4, <1>5, <1>6 DEF Graph, Section
<1> QED
  BY <1>4, <1>7 DEF UsersIn

\* setSectionSortingRule: the rule of one section, nothing else.
LEMMA SetSortingRuleEffect ==
  ASSUME ctx \in Graph, NEW s \in Sections, NEW r \in SortingRule,
         Repo!SetSectionSortingRule(s, r)
  PROVE  /\ ctx' \in Graph /\ pc' = "saving" /\ disk' = disk
         /\ ctx'.users = ctx.users /\ ctx'.products = ctx.products
         /\ SectionsIn(ctx') = SectionsIn(ctx)
         /\ ctx'.sections[s].sortingRule = r
         /\ ctx'.sections[s].user = ctx.sections[s].user
         /\ SameLabels(ctx, ctx')
         /\ \A t \in Sections : t # s => ctx'.sections[t] = ctx.sections[t]
<1> DEFINE c == [title |-> ctx.sections[s].title, rule |-> ctx.sections[s].rule,
                 sortingRule |-> r, user |-> ctx.sections[s].user]
<1>1. s \in SectionsIn(ctx)
  BY DEF Repo!SetSectionSortingRule, Repo!SectionsIn, SectionsIn
<1>2. ctx.sections[s] \in CDSection
  BY <1>1 DEF SectionsIn, Graph
<1>3. /\ c \in CDSection /\ c # Nil /\ c.sortingRule = r /\ c.user = ctx.sections[s].user
      /\ c.title = ctx.sections[s].title /\ c.rule = ctx.sections[s].rule
  <2>1. c \in CDSection
    BY <1>2 DEF CDSection
  <2> QED
    BY <2>1, NilAssumption
<1>4. ctx' = [ctx EXCEPT !.sections[s] = c] /\ pc' = "saving" /\ disk' = disk
  BY DEF Repo!SetSectionSortingRule, Repo!Write, Repo!WithSortingRule
<1> HIDE DEF c
<1>5. /\ ctx' \in Graph /\ ctx'.users = ctx.users /\ ctx'.products = ctx.products
      /\ ctx'.sections = [ctx.sections EXCEPT ![s] = c]
      /\ ctx.sections \in [Sections -> CDSection \cup {Nil}]
  BY <1>3, <1>4 DEF Graph
<1>6. SectionsIn(ctx') = SectionsIn(ctx)
  BY <1>1, <1>3, <1>5 DEF SectionsIn
<1>7. SameLabels(ctx, ctx')
  BY <1>3, <1>5 DEF SameLabels, SectionsIn
<1> QED
  BY <1>3, <1>4, <1>5, <1>6, <1>7

\* Writing the rule that is there changes nothing.
LEMMA SameRuleWrite ==
  ASSUME ctx \in Graph, NEW s \in Sections,
         Repo!SetSectionSortingRule(s, ctx.sections[s].sortingRule)
  PROVE  ctx'.sections = ctx.sections
<1> DEFINE old == ctx.sections[s]
           c == [title |-> old.title, rule |-> old.rule,
                 sortingRule |-> old.sortingRule, user |-> old.user]
<1>1. old \in CDSection
  BY DEF Repo!SetSectionSortingRule, Repo!SectionsIn, Graph
<1>2. c = old
  BY <1>1 DEF CDSection
<1>3. ctx' = [ctx EXCEPT !.sections[s] = c]
  BY DEF Repo!SetSectionSortingRule, Repo!Write, Repo!WithSortingRule
<1> HIDE DEF c
<1> QED
  BY <1>2, <1>3 DEF Graph

----------------------------------------------------------------------------
(* The invariant *)

Loading == {"seed1", "seed2", "load"}

\* v may stand for section s on screen while the context is g: the attributes
\* nothing on screen changes are the context's.
GoodView(g, s, v) == /\ v \in SectionObject /\ s \in SectionsIn(g)
                     /\ v.title = g.sections[s].title /\ v.rule = g.sections[s].rule

\* v shows the products of s in g, in order; their values too, unless edited.
GoodProducts(g, s, v) == /\ Permutes(g, s, v.products)
                         /\ Sorted(g, v.sortingRule, v.products)
                         /\ edits = 0 => Fresh(g, v.products)

StoreInv == /\ ctx \in Graph /\ disk \in Graph /\ pc \in {"down", "idle", "saving"}
            /\ pc = "idle" => disk = ctx

TaskInv == /\ task \in Tasks /\ seedUser \in Users \cup {Nil}
           /\ sorting \in [section : Sections, button : Buttons] \cup {Nil}
           /\ faults \in 0..MaxFaults /\ edits \in 0..MaxEdits
           /\ task \in {"seed1", "seed2"} => seedUser \in Users
           /\ task = "refetch" <=> sorting # Nil
           /\ pc = "down" => task = "none"
           /\ task \in Loading => UsersIn(ctx) # {}

ViewInv == /\ view \in [Sections -> SectionObject \cup {Nil}]
           /\ (pc = "down" \/ task \in Loading) => view = NoViews
           /\ task = "refetch" => view[sorting.section] # Nil
           /\ \A s \in Sections : view[s] # Nil => GoodView(ctx, s, view[s])

RulesOf(b) == IF b = "date" THEN DateRules ELSE SortingRule \ DateRules

\* Between the save and the fetch of a sort tap the view is behind the context,
\* whose rule is then one of the tapped button's.
RuleInv ==
  faults = 0 => \A s \in Sections : view[s] # Nil =>
    /\ view[s].arrows = ArrowsFor(view[s].sortingRule)
    /\ IF task = "refetch" /\ sorting.section = s
       THEN ctx.sections[s].sortingRule \in RulesOf(sorting.button)
       ELSE view[s].sortingRule = ctx.sections[s].sortingRule

IInv == StoreInv /\ TaskInv /\ ViewInv /\ RuleInv

ProductsInv == \A s \in Sections : view[s] # Nil => GoodProducts(ctx, s, view[s])

----------------------------------------------------------------------------
(* Views *)

\* Whatever sets the arrows sets one of the three images on each button.
LEMMA ArrowTypes ==
  ASSUME NEW rule, NEW b
  PROVE  /\ ArrowsFor(rule) \in [date : Arrow, quantity : Arrow]
         /\ TappedArrows(b, rule) \in [date : Arrow, quantity : Arrow]
BY DEF ArrowsFor, TappedArrows, DateArrow, QuantityArrow, Arrow

\* The two ways of setting the arrows agree on a rule of the tapped button.
LEMMA ArrowsAgree ==
  ASSUME NEW b \in Buttons, NEW rule \in RulesOf(b)
  PROVE  TappedArrows(b, rule) = ArrowsFor(rule)
BY DEF Buttons, RulesOf, TappedArrows, ArrowsFor

\* A tap always asks for one of the two rules of its button.
LEMMA ToggledRule ==
  ASSUME NEW b \in Buttons, NEW rule
  PROVE  Toggled(b, rule) \in RulesOf(b) /\ Toggled(b, rule) \in SortingRule
BY DEF Buttons, RulesOf, Toggled, SortingRule, DateRules

\* A fetched section makes a good view, whatever the arrows.
LEMMA FetchedView ==
  ASSUME NEW g \in Graph, NEW s \in SectionsIn(g), NEW sec \in FetchSectionById(g, s),
         NEW a \in [date : Arrow, quantity : Arrow]
  PROVE  /\ GoodView(g, s, Shown(sec, a))
         /\ Shown(sec, a).arrows = a
         /\ Shown(sec, a).sortingRule = g.sections[s].sortingRule
<1>1. /\ sec.title = g.sections[s].title /\ sec.title \in Titles
      /\ sec.rule = g.sections[s].rule /\ sec.rule \in Int
      /\ sec.sortingRule = g.sections[s].sortingRule
      /\ sec.sortingRule \in SortingRule
      /\ sec.products \in Seq(ProductObject)
  BY FetchedSection
<1> QED
  BY <1>1 DEF GoodView, Shown, SectionObject

\* So does a view with its arrows set again.
LEMMA ReshownView ==
  ASSUME NEW g, NEW s, NEW v, GoodView(g, s, v), NEW a \in [date : Arrow, quantity : Arrow]
  PROVE  /\ GoodView(g, s, Shown(v, a))
         /\ Shown(v, a).arrows = a
         /\ Shown(v, a).sortingRule = v.sortingRule
BY DEF GoodView, Shown, SectionObject

----------------------------------------------------------------------------
(* The steps *)

\* A thrown fetch is remembered.
LEMMA FaultEffect ==
  ASSUME TaskInv, Fault
  PROVE  faults' \in 0..MaxFaults /\ faults' # 0
BY BoundsAssumption DEF TaskInv, Fault

\* An empty screen is right whatever the store.
LEMMA EmptyScreen ==
  ASSUME view' = NoViews, task' # "refetch"
  PROVE  ViewInv' /\ RuleInv'
BY DEF ViewInv, RuleInv, NoViews

\* Nothing is on screen before the first launch.
LEMMA InitIInv == Init => IInv
<1> SUFFICES ASSUME Init PROVE IInv
  OBVIOUS
<1>1. EmptyGraph \in Graph /\ ctx = EmptyGraph /\ disk = EmptyGraph /\ pc = "down"
  BY DEF Init, Repo!Init, Repo!EmptyGraph, EmptyGraph, Graph
<1>2. StoreInv
  BY <1>1 DEF StoreInv
<1>3. TaskInv
  BY <1>1, BoundsAssumption DEF Init, TaskInv, Tasks, Loading
<1>4. ViewInv /\ RuleInv
  BY <1>3 DEF Init, ViewInv, RuleInv, NoViews
<1> QED
  BY <1>2, <1>3, <1>4 DEF IInv

\* A process that ends takes the screen and the handler with it.
LEMMA ForgetIInv ==
  ASSUME IInv, pc' = "down", ctx' = ctx, disk' = disk, Forget
  PROVE  IInv'
<1>1. StoreInv'
  BY DEF IInv, StoreInv
<1>2. TaskInv'
  BY DEF IInv, TaskInv, Forget, Tasks, Loading
<1>3. ViewInv' /\ RuleInv'
  BY EmptyScreen DEF Forget
<1> QED
  BY <1>1, <1>2, <1>3 DEF IInv

\* The start and the end of the process, and a save.
LEMMA ProcessIInv ==
  ASSUME IInv, Launch \/ Kill \/ SaveContext
  PROVE  IInv'
<1>1. CASE Launch
  <2>1. pc = "down" /\ ctx' = disk /\ disk' = disk /\ pc' = "idle"
    BY <1>1 DEF Launch, Repo!LoadPersistentStores
  <2>2. UNCHANGED <<task, seedUser, sorting, view, faults, edits>>
    BY <1>1 DEF Launch
  <2>3. task = "none" /\ view = NoViews
    BY <2>1 DEF IInv, TaskInv, ViewInv
  <2>4. StoreInv'
    BY <2>1 DEF IInv, StoreInv
  <2>5. TaskInv'
    BY <2>1, <2>2, <2>3 DEF IInv, TaskInv, Loading
  <2>6. ViewInv' /\ RuleInv'
    BY <2>2, <2>3, EmptyScreen
  <2> QED
    BY <2>4, <2>5, <2>6 DEF IInv
<1>2. CASE Kill
  BY <1>2, ForgetIInv DEF Kill, Repo!Kill, Repo!Die
<1>3. CASE SaveContext
  <2>1. CASE pc' = "down"
    <3>1. ctx' = ctx /\ disk' = disk /\ Forget
      BY <1>3, <2>1 DEF SaveContext, Repo!SaveContext, Repo!Die
    <3> QED
      BY <2>1, <3>1, ForgetIInv
  <2>2. CASE pc' # "down"
    <3>1. pc = "saving" /\ pc' = "idle" /\ disk' = ctx /\ ctx' = ctx
      BY <1>3, <2>2 DEF SaveContext, Repo!SaveContext, Repo!Die
    <3>2. UNCHANGED <<task, seedUser, sorting, view, faults, edits>>
      BY <1>3, <2>2 DEF SaveContext
    <3>3. StoreInv'
      BY <3>1 DEF IInv, StoreInv
    <3>4. TaskInv'
      BY <3>1, <3>2 DEF IInv, TaskInv
    <3>5. ViewInv' /\ RuleInv'
      BY <3>1, <3>2 DEF IInv, ViewInv, RuleInv
    <3> QED
      BY <3>3, <3>4, <3>5 DEF IInv
  <2> QED
    BY <2>1, <2>2
<1> QED
  BY <1>1, <1>2, <1>3

\* A main screen starts empty and with a user: the one it found or created.
LEMMA MainViewDidLoadIInv ==
  ASSUME IInv, MainViewDidLoad
  PROVE  IInv'
<1>1. /\ pc = "idle" /\ task = "none" /\ view' = NoViews
      /\ sorting' = sorting /\ edits' = edits
  BY DEF MainViewDidLoad
<1>2. sorting = Nil
  BY <1>1 DEF IInv, TaskInv
<1>3. CASE /\ UsersIn(ctx) # {} /\ task' = "load"
           /\ UNCHANGED <<ctx, disk, pc, seedUser, faults>>
  <2>1. StoreInv'
    BY <1>3 DEF IInv, StoreInv
  <2>2. TaskInv'
    BY <1>1, <1>2, <1>3 DEF IInv, TaskInv, Tasks, Loading
  <2> QED
    BY <1>1, <1>3, <2>1, <2>2, EmptyScreen DEF IInv
<1>4. CASE /\ UNCHANGED faults \/ Fault
           /\ \E u \in Users : Repo!CreateUser(u, SeedName) /\ seedUser' = u
           /\ task' = "seed1"
  <2>1. PICK u \in Users : Repo!CreateUser(u, SeedName) /\ seedUser' = u
    BY <1>4
  <2>2. /\ ctx' \in Graph /\ pc' = "saving" /\ disk' = disk
        /\ UsersIn(ctx') # {}
    BY <2>1, CreateUserEffect DEF IInv, StoreInv
  <2>3. StoreInv'
    BY <2>2 DEF IInv, StoreInv
  <2>4. faults' \in 0..MaxFaults
    BY <1>4, FaultEffect DEF IInv, TaskInv
  <2>5. TaskInv'
    BY <1>1, <1>2, <1>4, <2>1, <2>2, <2>4 DEF IInv, TaskInv, Tasks, Loading
  <2> QED
    BY <1>1, <1>4, <2>3, <2>5, EmptyScreen DEF IInv
<1> QED
  BY <1>3, <1>4 DEF MainViewDidLoad

\* A section of the first run, created or not, comes before anything is shown.
LEMMA SeedSectionIInv ==
  ASSUME IInv, NEW k \in {1, 2}, SeedSection(k)
  PROVE  IInv'
<1>1. /\ pc = "idle" /\ task \in {"seed1", "seed2"} /\ task' \in {"seed2", "load"}
      /\ UNCHANGED <<seedUser, sorting, view, edits>>
  BY DEF SeedSection, AfterSeed
<1>2. sorting = Nil /\ view = NoViews /\ seedUser \in Users /\ UsersIn(ctx) # {}
  BY <1>1 DEF IInv, TaskInv, ViewInv, Loading
<1>3. ViewInv' /\ RuleInv'
  BY <1>1, <1>2, EmptyScreen
<1>4. CASE Repo!CreateSection(seedUser, Seed[seedUser][k]) /\ UNCHANGED faults
  <2>1. /\ ctx' \in Graph /\ pc' = "saving" /\ disk' = disk
        /\ UsersIn(ctx') = UsersIn(ctx)
    BY <1>4, CreateSectionEffect DEF IInv, StoreInv
  <2>2. StoreInv'
    BY <2>1 DEF IInv, StoreInv
  <2>3. TaskInv'
    BY <1>1, <1>2, <1>4, <2>1 DEF IInv, TaskInv, Tasks, Loading
  <2> QED
    BY <1>3, <2>2, <2>3 DEF IInv
<1>5. CASE Fault /\ UNCHANGED store
  <2>1. StoreInv'
    BY <1>5 DEF IInv, StoreInv, store
  <2>2. faults' \in 0..MaxFaults
    BY <1>5, FaultEffect DEF IInv
  <2>3. TaskInv'
    BY <1>1, <1>2, <1>5, <2>2 DEF IInv, TaskInv, Tasks, Loading, store
  <2> QED
    BY <1>3, <2>1, <2>3 DEF IInv
<1> QED
  BY <1>4, <1>5 DEF SeedSection

\* The load builds one view per section of the user it found, or none.
LEMMA LoadSectionsIInv ==
  ASSUME IInv, LoadSections
  PROVE  IInv'
<1>1. /\ pc = "idle" /\ task = "load" /\ task' = "none" /\ seedUser' = Nil
      /\ UNCHANGED <<ctx, disk, pc, sorting, edits>>
  BY DEF LoadSections
<1>2. StoreInv'
  BY <1>1 DEF IInv, StoreInv
<1>3. CASE \E u \in UsersIn(ctx) : \E sec \in [SectionsOf(ctx, u) ->
             UNION {FetchSectionById(ctx, s) : s \in SectionsOf(ctx, u)}] :
             /\ \A s \in SectionsOf(ctx, u) : sec[s] \in FetchSectionById(ctx, s)
             /\ view' = [s \in Sections |->
                  IF s \in SectionsOf(ctx, u)
                  THEN Shown(sec[s], ArrowsFor(sec[s].sortingRule)) ELSE Nil]
             /\ UNCHANGED faults
  <2>1. PICK u \in UsersIn(ctx) : \E sec \in [SectionsOf(ctx, u) ->
             UNION {FetchSectionById(ctx, s) : s \in SectionsOf(ctx, u)}] :
             /\ \A s \in SectionsOf(ctx, u) : sec[s] \in FetchSectionById(ctx, s)
             /\ view' = [s \in Sections |->
                  IF s \in SectionsOf(ctx, u)
                  THEN Shown(sec[s], ArrowsFor(sec[s].sortingRule)) ELSE Nil]
             /\ UNCHANGED faults
    BY <1>3
  <2>2. PICK sec :
             /\ \A s \in SectionsOf(ctx, u) : sec[s] \in FetchSectionById(ctx, s)
             /\ view' = [s \in Sections |->
                  IF s \in SectionsOf(ctx, u)
                  THEN Shown(sec[s], ArrowsFor(sec[s].sortingRule)) ELSE Nil]
             /\ UNCHANGED faults
    BY <2>1
  <2>3. ASSUME NEW s \in SectionsOf(ctx, u)
        PROVE  LET v == Shown(sec[s], ArrowsFor(sec[s].sortingRule))
               IN /\ GoodView(ctx, s, v)
                  /\ v.sortingRule = ctx.sections[s].sortingRule
                  /\ v.arrows = ArrowsFor(v.sortingRule)
    <3>1. s \in SectionsIn(ctx) /\ ctx \in Graph /\ sec[s] \in FetchSectionById(ctx, s)
      BY <2>2 DEF SectionsOf, IInv, StoreInv
    <3>2. ArrowsFor(sec[s].sortingRule) \in [date : Arrow, quantity : Arrow]
      BY ArrowTypes
    <3>3. sec[s].sortingRule = ctx.sections[s].sortingRule
      BY <3>1, FetchedSection
    <3> QED
      BY <3>1, <3>2, <3>3, FetchedView
  <2>4. \A s \in Sections :
          /\ view'[s] \in SectionObject \cup {Nil}
          /\ view'[s] # Nil => /\ GoodView(ctx, s, view'[s])
                               /\ view'[s].sortingRule = ctx.sections[s].sortingRule
                               /\ view'[s].arrows = ArrowsFor(view'[s].sortingRule)
    BY <2>2, <2>3 DEF GoodView
  <2>5. view' \in [Sections -> SectionObject \cup {Nil}]
    BY <2>2, <2>4
  <2>6. TaskInv'
    BY <1>1, <2>2 DEF IInv, TaskInv, Tasks, Loading
  <2>7. ViewInv'
    BY <1>1, <2>4, <2>5 DEF ViewInv, Loading
  <2>8. RuleInv'
    BY <1>1, <2>4 DEF RuleInv
  <2> QED
    BY <1>2, <2>6, <2>7, <2>8 DEF IInv
<1>4. CASE Fault /\ view' = NoViews
  <2>1. faults' \in 0..MaxFaults
    BY <1>4, FaultEffect DEF IInv
  <2>2. TaskInv'
    BY <1>1, <2>1 DEF IInv, TaskInv, Tasks, Loading
  <2> QED
    BY <1>1, <1>2, <1>4, <2>2, EmptyScreen DEF IInv
<1> QED
  BY <1>3, <1>4 DEF LoadSections

\* A tap leaves the views alone and puts one of the button's rules in the context.
LEMMA SortButtonTappedIInv ==
  ASSUME IInv, NEW s \in Sections, NEW b \in Buttons, SortButtonTapped(s, b)
  PROVE  IInv'
<1>1. /\ pc = "idle" /\ task = "none" /\ view[s] # Nil
      /\ sorting' = [section |-> s, button |-> b] /\ task' = "refetch"
      /\ UNCHANGED <<seedUser, view, edits>>
  BY DEF SortButtonTapped
<1>2. /\ sorting' \in [section : Sections, button : Buttons] /\ sorting' # Nil
      /\ sorting'.section = s /\ sorting'.button = b
  BY <1>1, SortingAssumption DEF Buttons
<1>3. CASE /\ Repo!SetSectionSortingRule(s, Toggled(b, view[s].sortingRule))
           /\ UNCHANGED faults
  <2> DEFINE r == Toggled(b, view[s].sortingRule)
  <2>1. r \in RulesOf(b) /\ r \in SortingRule
    BY ToggledRule
  <2> HIDE DEF r
  <2>2. /\ ctx' \in Graph /\ pc' = "saving" /\ disk' = disk
        /\ ctx'.users = ctx.users /\ ctx'.products = ctx.products
        /\ SectionsIn(ctx') = SectionsIn(ctx)
        /\ ctx'.sections[s].sortingRule = r
        /\ SameLabels(ctx, ctx')
        /\ \A t \in Sections : t # s => ctx'.sections[t] = ctx.sections[t]
    BY <1>3, <2>1, SetSortingRuleEffect DEF r, IInv, StoreInv
  <2>3. StoreInv'
    BY <2>2 DEF IInv, StoreInv
  <2>4. TaskInv'
    BY <1>1, <1>2, <1>3, <2>2 DEF IInv, TaskInv, Tasks, Loading
  <2>5. \A t \in Sections : view[t] # Nil => GoodView(ctx', t, view[t])
    BY <2>2 DEF IInv, ViewInv, GoodView, SameLabels
  <2>6. ViewInv'
    BY <1>1, <1>2, <2>2, <2>5 DEF IInv, ViewInv, Loading
  <2>7. RuleInv'
    BY <1>1, <1>2, <1>3, <2>1, <2>2 DEF IInv, RuleInv
  <2> QED
    BY <2>3, <2>4, <2>6, <2>7 DEF IInv
<1>4. CASE Fault /\ UNCHANGED store
  <2>1. faults' \in 0..MaxFaults /\ faults' # 0
    BY <1>4, FaultEffect DEF IInv
  <2>2. StoreInv' /\ RuleInv'
    BY <1>4, <2>1 DEF IInv, StoreInv, RuleInv, store
  <2>3. TaskInv'
    BY <1>1, <1>2, <1>4, <2>1 DEF IInv, TaskInv, Tasks, Loading, store
  <2>4. ViewInv'
    BY <1>1, <1>2, <1>4 DEF IInv, ViewInv, Loading, store
  <2> QED
    BY <2>2, <2>3, <2>4 DEF IInv
<1> QED
  BY <1>3, <1>4 DEF SortButtonTapped

\* Replacing the view of one section by a good one.  The rule part is needed
\* only while no fetch has thrown; until then a write that comes with it may
\* change no section.
LEMMA ReplacedView ==
  ASSUME IInv, NEW s \in Sections, NEW v, view' = [view EXCEPT ![s] = v],
         pc = "idle", pc' # "down", task \notin Loading, task' = "none",
         SectionsIn(ctx') = SectionsIn(ctx), SameLabels(ctx, ctx'), GoodView(ctx, s, v),
         faults' = 0 => /\ faults = 0
                        /\ ctx'.sections = ctx.sections
                        /\ v.sortingRule = ctx.sections[s].sortingRule
                        /\ v.arrows = ArrowsFor(v.sortingRule)
                        /\ task = "refetch" => sorting.section = s
  PROVE  ViewInv' /\ RuleInv'
<1>1. /\ view \in [Sections -> SectionObject \cup {Nil}]
      /\ \A t \in Sections : view[t] # Nil => GoodView(ctx, t, view[t])
  BY DEF IInv, ViewInv
<1>2. v \in SectionObject
  BY DEF GoodView
<1>3. /\ view' \in [Sections -> SectionObject \cup {Nil}]
      /\ view'[s] = v /\ \A t \in Sections : t # s => view'[t] = view[t]
  BY <1>1, <1>2
<1>4. ViewInv'
  BY <1>1, <1>3 DEF ViewInv, GoodView, SameLabels, Loading
<1>5. RuleInv'
  <2> SUFFICES ASSUME faults' = 0, NEW t \in Sections, view'[t] # Nil
               PROVE  /\ view'[t].arrows = ArrowsFor(view'[t].sortingRule)
                      /\ view'[t].sortingRule = ctx'.sections[t].sortingRule
    BY DEF RuleInv
  <2>1. CASE t = s
    BY <1>3, <2>1
  <2>2. CASE t # s
    BY <1>3, <2>2 DEF IInv, RuleInv
  <2> QED
    BY <2>1, <2>2
<1> QED
  BY <1>4, <1>5

\* The end of a tap: what was fetched is the context's, and so are its arrows.
LEMMA FetchUpdatedSectionIInv ==
  ASSUME IInv, FetchUpdatedSection
  PROVE  IInv'
<1> DEFINE s == sorting.section
           b == sorting.button
<1>1. /\ pc = "idle" /\ task = "refetch" /\ task' = "none" /\ sorting' = Nil
      /\ UNCHANGED <<ctx, disk, pc, seedUser, edits>>
  BY DEF FetchUpdatedSection
<1>2. s \in Sections /\ b \in Buttons /\ view[s] # Nil
  BY <1>1 DEF IInv, TaskInv, ViewInv
<1>3. /\ GoodView(ctx, s, view[s]) /\ s \in SectionsIn(ctx) /\ ctx \in Graph
      /\ faults = 0 => ctx.sections[s].sortingRule \in RulesOf(b)
  BY <1>1, <1>2 DEF IInv, StoreInv, ViewInv, RuleInv, GoodView
<1>4. StoreInv'
  BY <1>1 DEF IInv, StoreInv
<1>5. task \notin Loading
  BY <1>1 DEF Loading
<1>6. CASE \E sec \in FetchSectionById(ctx, s) :
             /\ view' = [view EXCEPT ![s] = Shown(sec, TappedArrows(b, sec.sortingRule))]
             /\ UNCHANGED faults
  <2>1. PICK sec \in FetchSectionById(ctx, s) :
             /\ view' = [view EXCEPT ![s] = Shown(sec, TappedArrows(b, sec.sortingRule))]
             /\ UNCHANGED faults
    BY <1>6
  <2> DEFINE a == TappedArrows(b, sec.sortingRule)
             v == Shown(sec, a)
  <2>2. a \in [date : Arrow, quantity : Arrow]
    BY ArrowTypes
  <2>3. sec.sortingRule = ctx.sections[s].sortingRule
    BY <1>3, FetchedSection
  <2>4. faults = 0 => a = ArrowsFor(sec.sortingRule)
    BY <1>2, <1>3, <2>3, ArrowsAgree
  <2> HIDE DEF a
  <2>5. GoodView(ctx, s, v) /\ v.arrows = a /\ v.sortingRule = ctx.sections[s].sortingRule
    BY <1>3, <2>2, FetchedView
  <2>6. view' = [view EXCEPT ![s] = v] /\ faults' = faults
    BY <2>1 DEF a
  <2> HIDE DEF v
  <2>7. ViewInv' /\ RuleInv'
    BY <1>1, <1>2, <1>5, <2>3, <2>4, <2>5, <2>6, ReplacedView DEF SameLabels
  <2>8. TaskInv'
    BY <1>1, <2>6 DEF IInv, TaskInv, Tasks, Loading
  <2> QED
    BY <1>4, <2>7, <2>8 DEF IInv
<1>7. CASE /\ Fault
           /\ view' = [view EXCEPT ![s] =
                         Shown(view[s], TappedArrows(b, view[s].sortingRule))]
  <2> DEFINE a == TappedArrows(b, view[s].sortingRule)
             v == Shown(view[s], a)
  <2>1. faults' \in 0..MaxFaults /\ faults' # 0
    BY <1>7, FaultEffect DEF IInv
  <2>2. a \in [date : Arrow, quantity : Arrow]
    BY ArrowTypes
  <2>3. view' = [view EXCEPT ![s] = v]
    BY <1>7
  <2> HIDE DEF a
  <2>4. GoodView(ctx, s, v)
    BY <1>3, <2>2, ReshownView
  <2> HIDE DEF v
  <2>5. ViewInv' /\ RuleInv'
    BY <1>1, <1>2, <1>5, <2>1, <2>3, <2>4, ReplacedView DEF SameLabels
  <2>6. TaskInv'
    BY <1>1, <2>1 DEF IInv, TaskInv, Tasks, Loading
  <2> QED
    BY <1>4, <2>5, <2>6 DEF IInv
<1> QED
  BY <1>6, <1>7 DEF FetchUpdatedSection

\* Setting the arrows again changes nothing that matters.
LEMMA ViewDidAppearIInv ==
  ASSUME IInv, NEW s \in Sections, ViewDidAppear(s)
  PROVE  IInv'
<1> DEFINE a == ArrowsFor(view[s].sortingRule)
           v == Shown(view[s], a)
<1>1. /\ pc = "idle" /\ task = "none" /\ view[s] # Nil
      /\ view' = [view EXCEPT ![s] = v]
      /\ UNCHANGED <<ctx, disk, pc, task, seedUser, sorting, faults, edits>>
  BY DEF ViewDidAppear
<1>2. a \in [date : Arrow, quantity : Arrow]
  BY ArrowTypes
<1>3. /\ GoodView(ctx, s, view[s])
      /\ faults = 0 => view[s].sortingRule = ctx.sections[s].sortingRule
  BY <1>1 DEF IInv, ViewInv, RuleInv
<1>4. GoodView(ctx, s, v) /\ v.arrows = a /\ v.sortingRule = view[s].sortingRule
  <2> HIDE DEF a
  <2> QED BY <1>2, <1>3, ReshownView
<1>5. v.arrows = ArrowsFor(v.sortingRule)
  BY <1>4
<1> HIDE DEF v
<1>6. ViewInv' /\ RuleInv'
  BY <1>1, <1>3, <1>4, <1>5, ReplacedView DEF Loading, SameLabels
<1>7. StoreInv' /\ TaskInv'
  BY <1>1 DEF IInv, StoreInv, TaskInv
<1> QED
  BY <1>6, <1>7 DEF IInv

\* A view with other products.
LEMMA ViewWithProducts ==
  ASSUME NEW v \in SectionObject, NEW qs \in Seq(ProductObject)
  PROVE  LET w == [v EXCEPT !.products = qs]
         IN /\ w \in SectionObject /\ w.products = qs
            /\ w.title = v.title /\ w.rule = v.rule
            /\ w.sortingRule = v.sortingRule /\ w.arrows = v.arrows
BY DEF SectionObject

\* Every button of a card replaces its product by one with the same id.
LEMMA CardEditIsEdit ==
  ASSUME IInv, NEW s \in Sections, CardEdit(s)
  PROVE  \E row \in CardRows(Len(view[s].products)), x \in ProductObject :
           x.id = ProductAt(s, row).id /\ Edit(s, row, x)
<1> DEFINE ps == view[s].products
<1>1. view[s] \in SectionObject
  BY DEF CardEdit, IInv, ViewInv
<1>2. ps \in Seq(ProductObject) /\ Len(ps) \in Nat
  BY <1>1 DEF SectionObject
<1>3. PICK row \in CardRows(Len(ps)) :
        \/ DecreaseDays(s, row) \/ IncreaseDays(s, row)
        \/ DecreaseQuantity(s, row) \/ IncreaseQuantity(s, row)
  BY DEF CardEdit
<1>4. row + 1 \in 1..Len(ps)
  BY <1>2, RowsHaveContent
<1> DEFINE y == ProductAt(s, row)
<1>5. y \in ProductObject
  BY <1>2, <1>4 DEF ProductAt
<1>6. \A d \in Int : /\ AddDays(y, d) \in ProductObject /\ AddDays(y, d).id = y.id
                     /\ AddQuantity(y, d) \in ProductObject
                     /\ AddQuantity(y, d).id = y.id
  BY <1>5 DEF AddDays, AddQuantity, ProductObject
<1>7. PICK d \in {-1, 1} : Edit(s, row, AddDays(y, d)) \/ Edit(s, row, AddQuantity(y, d))
  BY <1>3 DEF DecreaseDays, IncreaseDays, DecreaseQuantity, IncreaseQuantity
<1> QED
  BY <1>6, <1>7

\* An edit replaces one product of one view in memory.
LEMMA EditEffect ==
  ASSUME IInv, NEW s \in Sections, view[s] # Nil,
         NEW row \in CardRows(Len(view[s].products)), NEW x \in ProductObject,
         x.id = ProductAt(s, row).id, Edit(s, row, x)
  PROVE  /\ pc = "idle" /\ task = "none" /\ edits < MaxEdits /\ edits' = edits + 1
         /\ UNCHANGED <<ctx, disk, pc, task, seedUser, sorting, faults>>
         /\ \E i \in 1..Len(view[s].products) :
              LET qs == [view[s].products EXCEPT ![i] = x]
              IN /\ x.id = view[s].products[i].id
                 /\ qs \in Seq(ProductObject)
                 /\ view' = [view EXCEPT ![s] = [view[s] EXCEPT !.products = qs]]
<1> DEFINE ps == view[s].products
           qs == [ps EXCEPT ![row + 1] = x]
<1>1. ps \in Seq(ProductObject) /\ Len(ps) \in Nat
  BY DEF IInv, ViewInv, SectionObject
<1>2. row + 1 \in 1..Len(ps)
  BY <1>1, RowsHaveContent
<1>3. qs \in Seq(ProductObject)
  BY <1>1, <1>2, EditedProducts DEF ProductAt
<1>4. view' = [view EXCEPT ![s] = [view[s] EXCEPT !.products = qs]]
  BY DEF Edit
<1> HIDE DEF qs
<1> QED
  BY <1>2, <1>3, <1>4 DEF Edit, ProductAt, qs

LEMMA EditIInv ==
  ASSUME IInv, NEW s \in Sections, view[s] # Nil,
         NEW row \in CardRows(Len(view[s].products)), NEW x \in ProductObject,
         x.id = ProductAt(s, row).id, Edit(s, row, x)
  PROVE  IInv'
<1>1. /\ pc = "idle" /\ task = "none" /\ edits < MaxEdits /\ edits' = edits + 1
      /\ UNCHANGED <<ctx, disk, pc, task, seedUser, sorting, faults>>
      /\ \E qs \in Seq(ProductObject) :
           view' = [view EXCEPT ![s] = [view[s] EXCEPT !.products = qs]]
  BY EditEffect
<1>2. PICK qs \in Seq(ProductObject) :
        view' = [view EXCEPT ![s] = [view[s] EXCEPT !.products = qs]]
  BY <1>1
<1> DEFINE v == [view[s] EXCEPT !.products = qs]
<1>3. GoodView(ctx, s, view[s]) /\ view[s] \in SectionObject
  BY DEF IInv, ViewInv, GoodView
<1>4. /\ GoodView(ctx, s, v)
      /\ v.sortingRule = view[s].sortingRule /\ v.arrows = view[s].arrows
  BY <1>3, ViewWithProducts DEF GoodView
<1> HIDE DEF v
<1>5. faults = 0 => /\ view[s].arrows = ArrowsFor(view[s].sortingRule)
                    /\ view[s].sortingRule = ctx.sections[s].sortingRule
  BY <1>1 DEF IInv, RuleInv
<1>6. view' = [view EXCEPT ![s] = v]
  BY <1>2 DEF v
<1>7. ViewInv' /\ RuleInv'
  BY <1>1, <1>4, <1>5, <1>6, ReplacedView DEF Loading, SameLabels
<1>8. StoreInv'
  BY <1>1 DEF IInv, StoreInv
<1>9. TaskInv'
  BY <1>1, BoundsAssumption DEF IInv, TaskInv
<1> QED
  BY <1>7, <1>8, <1>9 DEF IInv

LEMMA CardEditIInv ==
  ASSUME IInv, NEW s \in Sections, CardEdit(s)
  PROVE  IInv'
BY CardEditIsEdit, EditIInv DEF CardEdit

\* Every step of the inventory tab keeps the invariant.
LEMMA StepIInv == IInv /\ [Next]_vars => IInv'
<1> SUFFICES ASSUME IInv, [Next]_vars PROVE IInv'
  OBVIOUS
<1>1. CASE Launch \/ Kill \/ SaveContext
  BY <1>1, ProcessIInv
<1>2. CASE MainViewDidLoad
  BY <1>2, MainViewDidLoadIInv
<1>3. CASE \E k \in {1, 2} : SeedSection(k)
  BY <1>3, SeedSectionIInv
<1>4. CASE LoadSections
  BY <1>4, LoadSectionsIInv
<1>5. CASE FetchUpdatedSection
  BY <1>5, FetchUpdatedSectionIInv
<1>6. CASE \E s \in Sections : \/ \E b \in Buttons : SortButtonTapped(s, b)
                               \/ ViewDidAppear(s) \/ CardEdit(s)
  BY <1>6, SortButtonTappedIInv, ViewDidAppearIInv, CardEditIInv
<1>7. CASE UNCHANGED vars
  BY <1>7 DEF vars, IInv, StoreInv, TaskInv, ViewInv, RuleInv
<1> QED
  BY <1>1, <1>2, <1>3, <1>4, <1>5, <1>6, <1>7 DEF Next, MainThread

\* The invariant of the inventory tab, for every store, seed, limit and bound.
THEOREM Invariance == Spec => []IInv
BY InitIInv, StepIInv, PTL DEF Spec

----------------------------------------------------------------------------
(* The products on screen.  GoodProducts looks at the products of the graph *)
(* only, which no step changes under a view.                                *)

LEMMA ProductsStay ==
  ASSUME ProductsInv, view' = view, ctx'.products = ctx.products,
         edits' = 0 => edits = 0
  PROVE  ProductsInv'
<1> SUFFICES ASSUME NEW s \in Sections, view[s] # Nil
             PROVE  GoodProducts(ctx, s, view[s])'
  BY DEF ProductsInv
<1>1. GoodProducts(ctx, s, view[s]) /\ ProductsOf(ctx', s) = ProductsOf(ctx, s)
  BY DEF ProductsInv, ProductsOf, ProductsIn
<1>2. Permutes(ctx', s, view[s].products)
  BY <1>1 DEF GoodProducts, Permutes
<1>3. Sorted(ctx', view[s].sortingRule, view[s].products)
  BY <1>1 DEF GoodProducts, Sorted
<1>4. edits' = 0 => Fresh(ctx', view[s].products)
  BY <1>1 DEF GoodProducts, Fresh, AsProduct
<1> QED
  BY <1>2, <1>3, <1>4 DEF GoodProducts

\* One view is replaced by one whose products are right.
LEMMA ReplacedProducts ==
  ASSUME ProductsInv, ViewInv, NEW s \in Sections, NEW v,
         view' = [view EXCEPT ![s] = v], ctx' = ctx, edits' = 0 => edits = 0,
         Permutes(ctx, s, v.products), Sorted(ctx, v.sortingRule, v.products),
         edits' = 0 => Fresh(ctx, v.products)
  PROVE  ProductsInv'
<1> SUFFICES ASSUME NEW t \in Sections, view'[t] # Nil
             PROVE  GoodProducts(ctx, t, view[t])'
  BY DEF ProductsInv
<1>1. view'[s] = v /\ (t # s => view'[t] = view[t])
  BY DEF ViewInv
<1>2. CASE t = s
  BY <1>1, <1>2 DEF GoodProducts
<1>3. CASE t # s
  BY <1>1, <1>3 DEF ProductsInv, GoodProducts
<1> QED
  BY <1>2, <1>3

\* A load shows what it has fetched.
LEMMA LoadSectionsProducts ==
  ASSUME IInv, LoadSections
  PROVE  ProductsInv'
<1> SUFFICES ASSUME NEW s \in Sections, view'[s] # Nil
             PROVE  GoodProducts(ctx, s, view[s])'
  BY DEF ProductsInv
<1>1. ctx' = ctx
  BY DEF LoadSections
<1>2. PICK sec : /\ s \in SectionsIn(ctx) /\ sec \in FetchSectionById(ctx, s)
                 /\ view'[s] = Shown(sec, ArrowsFor(sec.sortingRule))
  <2>1. CASE view' = NoViews
    BY <2>1 DEF NoViews
  <2>2. CASE view' # NoViews
    <3>1. PICK u \in UsersIn(ctx) : \E f \in [SectionsOf(ctx, u) ->
               UNION {FetchSectionById(ctx, t) : t \in SectionsOf(ctx, u)}] :
               /\ \A t \in SectionsOf(ctx, u) : f[t] \in FetchSectionById(ctx, t)
               /\ view' = [t \in Sections |->
                    IF t \in SectionsOf(ctx, u)
                    THEN Shown(f[t], ArrowsFor(f[t].sortingRule)) ELSE Nil]
      BY <2>2 DEF LoadSections
    <3>2. PICK f :
               /\ \A t \in SectionsOf(ctx, u) : f[t] \in FetchSectionById(ctx, t)
               /\ view' = [t \in Sections |->
                    IF t \in SectionsOf(ctx, u)
                    THEN Shown(f[t], ArrowsFor(f[t].sortingRule)) ELSE Nil]
      BY <3>1
    <3>3. s \in SectionsOf(ctx, u)
      BY <3>2
    <3> QED
      BY <3>2, <3>3 DEF SectionsOf
  <2> QED
    BY <2>1, <2>2
<1>3. /\ Permutes(ctx, s, sec.products) /\ Fresh(ctx, sec.products)
      /\ Sorted(ctx, sec.sortingRule, sec.products)
  BY <1>2, FetchedSection DEF IInv, StoreInv
<1>4. view'[s].products = sec.products /\ view'[s].sortingRule = sec.sortingRule
  BY <1>2 DEF Shown
<1> QED
  BY <1>1, <1>3, <1>4 DEF GoodProducts

\* So does the end of a sort tap, unless its fetch throws and nothing changes.
LEMMA TapEnds ==
  ASSUME IInv, FetchUpdatedSection
  PROVE  LET s == sorting.section IN
         /\ ctx' = ctx /\ edits' = edits /\ s \in Sections /\ view[s] # Nil
         /\ \E v : /\ view' = [view EXCEPT ![s] = v]
                   /\ \/ /\ v.products = view[s].products
                         /\ v.sortingRule = view[s].sortingRule
                      \/ /\ Permutes(ctx, s, v.products)
                         /\ Sorted(ctx, v.sortingRule, v.products)
                         /\ Fresh(ctx, v.products)
<1> DEFINE s == sorting.section
           b == sorting.button
<1>1. task = "refetch" /\ ctx' = ctx /\ edits' = edits
  BY DEF FetchUpdatedSection
<1>2. s \in Sections /\ view[s] # Nil /\ s \in SectionsIn(ctx) /\ ctx \in Graph
  BY <1>1 DEF IInv, StoreInv, TaskInv, ViewInv, GoodView
<1>3. CASE \E sec \in FetchSectionById(ctx, s) :
             view' = [view EXCEPT ![s] = Shown(sec, TappedArrows(b, sec.sortingRule))]
  <2>1. PICK sec \in FetchSectionById(ctx, s) :
             view' = [view EXCEPT ![s] = Shown(sec, TappedArrows(b, sec.sortingRule))]
    BY <1>3
  <2> DEFINE v == Shown(sec, TappedArrows(b, sec.sortingRule))
  <2>2. v.products = sec.products /\ v.sortingRule = sec.sortingRule
    BY DEF Shown
  <2>3. /\ Permutes(ctx, s, sec.products) /\ Fresh(ctx, sec.products)
        /\ Sorted(ctx, sec.sortingRule, sec.products)
    BY <1>2, FetchedSection
  <2>4. view' = [view EXCEPT ![s] = v]
    BY <2>1
  <2> HIDE DEF v
  <2> QED
    BY <1>1, <1>2, <2>2, <2>3, <2>4
<1>4. CASE view' = [view EXCEPT ![s] =
                      Shown(view[s], TappedArrows(b, view[s].sortingRule))]
  <2> DEFINE v == Shown(view[s], TappedArrows(b, view[s].sortingRule))
  <2>1. v.products = view[s].products /\ v.sortingRule = view[s].sortingRule
    BY DEF Shown
  <2>2. view' = [view EXCEPT ![s] = v]
    BY <1>4
  <2> HIDE DEF v
  <2> QED
    BY <1>1, <1>2, <2>1, <2>2
<1> QED
  BY <1>3, <1>4 DEF FetchUpdatedSection

LEMMA FetchUpdatedSectionProducts ==
  ASSUME IInv, ProductsInv, FetchUpdatedSection
  PROVE  ProductsInv'
<1> DEFINE s == sorting.section
<1>1. /\ ctx' = ctx /\ edits' = edits /\ s \in Sections /\ view[s] # Nil
      /\ \E v : /\ view' = [view EXCEPT ![s] = v]
                /\ \/ /\ v.products = view[s].products
                      /\ v.sortingRule = view[s].sortingRule
                   \/ /\ Permutes(ctx, s, v.products)
                      /\ Sorted(ctx, v.sortingRule, v.products)
                      /\ Fresh(ctx, v.products)
  BY TapEnds
<1>2. GoodProducts(ctx, s, view[s])
  BY <1>1 DEF ProductsInv
<1> HIDE DEF s
<1> QED
  BY <1>1, <1>2, ReplacedProducts DEF IInv, GoodProducts

\* viewDidAppear leaves the products alone.
LEMMA ViewDidAppearProducts ==
  ASSUME IInv, ProductsInv, NEW s \in Sections, ViewDidAppear(s)
  PROVE  ProductsInv'
<1> DEFINE v == Shown(view[s], ArrowsFor(view[s].sortingRule))
<1>1. /\ view[s] # Nil /\ view' = [view EXCEPT ![s] = v]
      /\ UNCHANGED <<ctx, edits>>
  BY DEF ViewDidAppear
<1>2. v.products = view[s].products /\ v.sortingRule = view[s].sortingRule
  BY DEF Shown
<1>3. GoodProducts(ctx, s, view[s])
  BY <1>1 DEF ProductsInv
<1> HIDE DEF v
<1> QED
  BY <1>1, <1>2, <1>3, ReplacedProducts DEF IInv, GoodProducts

\* An edit is counted, and keeps the ids.
LEMMA EditKeepsProducts ==
  ASSUME IInv, ProductsInv, NEW s \in Sections, view[s] # Nil,
         NEW row \in CardRows(Len(view[s].products)), NEW x \in ProductObject,
         x.id = ProductAt(s, row).id, Edit(s, row, x)
  PROVE  ProductsInv'
<1>1. /\ edits' = edits + 1 /\ ctx' = ctx
      /\ \E i \in 1..Len(view[s].products) :
           LET qs == [view[s].products EXCEPT ![i] = x]
           IN /\ x.id = view[s].products[i].id
              /\ qs \in Seq(ProductObject)
              /\ view' = [view EXCEPT ![s] = [view[s] EXCEPT !.products = qs]]
  BY EditEffect
<1> DEFINE ps == view[s].products
<1>2. PICK i \in 1..Len(ps) :
        /\ x.id = ps[i].id
        /\ view' = [view EXCEPT ![s] = [view[s] EXCEPT !.products = [ps EXCEPT ![i] = x]]]
  BY <1>1
<1> DEFINE qs == [ps EXCEPT ![i] = x]
           v  == [view[s] EXCEPT !.products = qs]
<1>3. view[s] \in SectionObject /\ ps \in Seq(ProductObject)
  BY DEF IInv, ViewInv, SectionObject
<1>4. GoodProducts(ctx, s, view[s])
  BY DEF ProductsInv
<1>5. /\ qs \in Seq(ProductObject) /\ Permutes(ctx, s, qs)
      /\ Sorted(ctx, view[s].sortingRule, qs)
  BY <1>2, <1>3, <1>4, EditedProducts DEF GoodProducts
<1> HIDE DEF qs
<1>6. v.products = qs /\ v.sortingRule = view[s].sortingRule
  BY <1>3, <1>5, ViewWithProducts
<1>7. edits' # 0
  BY <1>1 DEF IInv, TaskInv
<1>8. view' = [view EXCEPT ![s] = v]
  BY <1>2 DEF qs
<1> HIDE DEF v
<1> QED
  BY <1>1, <1>5, <1>6, <1>7, <1>8, ReplacedProducts DEF IInv

\* Every step of the inventory tab keeps the products on screen right.
LEMMA StepProducts == IInv /\ ProductsInv /\ [Next]_vars => ProductsInv'
<1> SUFFICES ASSUME IInv, ProductsInv, [Next]_vars PROVE ProductsInv'
  OBVIOUS
<1>1. ASSUME view' = NoViews PROVE ProductsInv'
  BY <1>1 DEF ProductsInv, NoViews
<1>2. CASE Launch
  <2>1. view' = NoViews
    BY <1>2 DEF Launch, Repo!LoadPersistentStores, IInv, ViewInv
  <2> QED
    BY <1>1, <2>1
<1>3. CASE Kill \/ MainViewDidLoad
  BY <1>1, <1>3 DEF Kill, Forget, MainViewDidLoad
<1>4. CASE SaveContext
  <2>1. CASE pc' = "down"
    BY <1>1, <1>4, <2>1 DEF SaveContext, Forget
  <2>2. CASE pc' # "down"
    BY <1>4, <2>2, ProductsStay DEF SaveContext, Repo!SaveContext, Repo!Die
  <2> QED
    BY <2>1, <2>2
<1>5. ASSUME NEW k \in {1, 2}, SeedSection(k)
      PROVE  ProductsInv'
  <2>1. task \in Loading /\ view' = view
    BY <1>5 DEF SeedSection, Loading
  <2> QED
    BY <1>1, <2>1 DEF IInv, ViewInv
<1>6. CASE LoadSections
  BY <1>6, LoadSectionsProducts
<1>7. CASE FetchUpdatedSection
  BY <1>7, FetchUpdatedSectionProducts
<1>8. ASSUME NEW s \in Sections, NEW b \in Buttons, SortButtonTapped(s, b)
      PROVE  ProductsInv'
  <2>1. view' = view /\ edits' = edits
    BY <1>8 DEF SortButtonTapped
  <2>2. ctx'.products = ctx.products
    <3>1. CASE Repo!SetSectionSortingRule(s, Toggled(b, view[s].sortingRule))
      BY <3>1, ToggledRule, SetSortingRuleEffect DEF IInv, StoreInv
    <3> QED
      BY <1>8, <3>1 DEF SortButtonTapped, store
  <2> QED
    BY <2>1, <2>2, ProductsStay
<1>9. ASSUME NEW s \in Sections, ViewDidAppear(s)
      PROVE  ProductsInv'
  BY <1>9, ViewDidAppearProducts
<1>10. ASSUME NEW s \in Sections, CardEdit(s)
       PROVE  ProductsInv'
  BY <1>10, CardEditIsEdit, EditKeepsProducts DEF CardEdit
<1>11. CASE UNCHANGED vars
  BY <1>11, ProductsStay DEF vars
<1> QED
  BY <1>2, <1>3, <1>4, <1>5, <1>6, <1>7, <1>8, <1>9, <1>10, <1>11 DEF Next, MainThread

\* What the screens show of a section's products, over every load, tap and edit.
THEOREM ProductsOnScreen == Spec => []ProductsInv
<1>1. Init => ProductsInv
  BY DEF Init, ProductsInv, NoViews
<1> QED
  BY <1>1, StepProducts, Invariance, PTL DEF Spec

----------------------------------------------------------------------------
(* The properties of the runs *)

\* The invariant has the types.
LEMMA Typed == IInv => TypeOK
<1>1. Repo!Graph = Graph
  BY DEF Repo!Graph, Graph, Repo!CDUser, CDUser, Repo!CDSection, CDSection,
     Repo!CDProduct, CDProduct, Repo!SortingRule, SortingRule, Repo!Int16, Int16
<1> QED
  BY <1>1 DEF IInv, StoreInv, TaskInv, ViewInv, TypeOK, Repo!TypeOK

\* Every reachable state is of its type, which includes that every write of
\* the tab keeps the object graph well formed.
THEOREM TypeCorrect == Spec => []TypeOK
BY Typed, Invariance, PTL

\* mapCDSectionToSection and the card edits: a section on screen shows each of
\* its stored products once and in the order of its rule, whatever fetches throw.
THEOREM SortedPermutation == Spec => []ViewIsSortedPermutation
<1>1. IInv /\ ProductsInv => ViewIsSortedPermutation
  <2> SUFFICES ASSUME IInv, ProductsInv, NEW s \in Sections, view[s] # Nil
               PROVE  s \in SectionsIn(ctx) /\ ShowsItsProducts(s) /\ ShowsThemInOrder(s)
    BY DEF ViewIsSortedPermutation
  <2>1. GoodProducts(ctx, s, view[s]) /\ s \in SectionsIn(ctx)
    BY DEF IInv, ViewInv, GoodView, ProductsInv
  <2>2. ShowsItsProducts(s)
    BY <2>1 DEF GoodProducts, Permutes, ShowsItsProducts
  <2>3. ShowsThemInOrder(s)
    BY <2>1 DEF GoodProducts, Sorted, ShowsThemInOrder
  <2> QED
    BY <2>1, <2>2, <2>3
<1> QED
  BY <1>1, Invariance, ProductsOnScreen, PTL

\* sortProducts: as long as no card has been edited a sort only reorders, whatever
\* fetches throw.  The objects on screen then agree with the store; that an edit
\* never reaches the store is all that makes SortOnlyReorders fail.
THEOREM UneditedSortsReorder ==
  Spec => [][edits = 0 => \A s \in Sections : SortKeepsCards(s)]_vars
<1> DEFINE A == edits = 0 => \A s \in Sections : SortKeepsCards(s)
<1>1. IInv /\ ProductsInv /\ [Next]_vars => [A]_vars
  <2> SUFFICES ASSUME IInv, ProductsInv, [Next]_vars, edits = 0, NEW s \in Sections,
                      task = "refetch", view[s] # Nil, view'[s] # Nil,
                      NEW i \in DOMAIN view[s].products
               PROVE  \E j \in DOMAIN view'[s].products :
                        view'[s].products[j] = view[s].products[i]
    BY DEF SortKeepsCards
  <2> DEFINE same == view'[s].products = view[s].products
  <2>1. CASE same
    BY <2>1
  <2>2. CASE FetchUpdatedSection /\ ~same
    <3>1. sorting.section \in Sections /\ view \in [Sections -> SectionObject \cup {Nil}]
      BY DEF IInv, TaskInv, ViewInv
    <3>2. sorting.section = s
      BY <2>2, <3>1 DEF FetchUpdatedSection
    <3>3. PICK sec \in FetchSectionById(ctx, s) :
            view'[s] = Shown(sec, TappedArrows(sorting.button, sec.sortingRule))
      BY <2>2, <3>1, <3>2 DEF FetchUpdatedSection, Shown
    <3>4. view'[s].products = sec.products
      BY <3>3 DEF Shown
    <3>5. s \in SectionsIn(ctx) /\ ctx \in Graph /\ GoodProducts(ctx, s, view[s])
      BY DEF IInv, StoreInv, ViewInv, GoodView, ProductsInv
    <3>6. Permutes(ctx, s, sec.products) /\ Fresh(ctx, sec.products)
      BY <3>5, FetchedSection
    <3> DEFINE p == view[s].products[i].id
    <3>7. p \in ProductsOf(ctx, s) /\ view[s].products[i] = AsProduct(ctx, p)
      BY <3>5 DEF GoodProducts, Permutes, Fresh
    <3>8. PICK j \in DOMAIN sec.products : sec.products[j].id = p
      BY <3>6, <3>7 DEF Permutes
    <3>9. sec.products[j] = AsProduct(ctx, p)
      BY <3>6, <3>8 DEF Fresh
    <3> QED
      BY <3>4, <3>7, <3>8, <3>9
  <2>3. ~ FetchUpdatedSection => same
    <3> SUFFICES ASSUME ~ FetchUpdatedSection PROVE view' = view
      OBVIOUS
    <3>1. CASE Kill
      BY <3>1 DEF Kill, Forget, NoViews
    <3>2. CASE SaveContext
      BY <3>2 DEF SaveContext, Forget, NoViews
    <3>3. CASE UNCHANGED vars
      BY <3>3 DEF vars
    <3>4. ~ (Launch \/ MainViewDidLoad \/ LoadSections \/ \E k \in {1, 2} : SeedSection(k))
      BY DEF Launch, Repo!LoadPersistentStores, IInv, TaskInv, MainViewDidLoad,
         LoadSections, SeedSection
    <3>5. ASSUME NEW t \in Sections
          PROVE  /\ ~ \E b \in Buttons : SortButtonTapped(t, b)
                 /\ ~ ViewDidAppear(t) /\ ~ CardEdit(t)
      BY DEF SortButtonTapped, ViewDidAppear, CardEdit, DecreaseDays, IncreaseDays,
         DecreaseQuantity, IncreaseQuantity, Edit
    <3> QED
      BY <3>1, <3>2, <3>3, <3>4, <3>5 DEF Next, MainThread
  <2> QED
    BY <2>1, <2>2, <2>3
<1> QED
  BY <1>1, Invariance, ProductsOnScreen, PTL DEF Spec

\* Between handlers the context is the store.
LEMMA RuleIsShown == IInv => ViewFollowsStore
BY DEF IInv, StoreInv, RuleInv, ViewFollowsStore

\* sortProducts and fetchUpdatedSection: between handlers, and with no thrown
\* fetch, the rule on screen is the rule in the store.
THEOREM RuleOnScreen == Spec => []ViewFollowsStore
BY RuleIsShown, Invariance, PTL

\* RuleInv is more than the arrows.
LEMMA ArrowsAreShown == IInv => ArrowsMatchRule
BY DEF IInv, RuleInv, ArrowsMatchRule

\* With no thrown fetch the arrows of a section are those of its rule, whichever
\* of viewDidLoad, viewDidAppear and the two buttons has set them last.
THEOREM ArrowsOnScreen == Spec => []ArrowsMatchRule
BY ArrowsAreShown, Invariance, PTL

\* A view has a sequence of products, and rows come from its length.
LEMMA RowsAreFilled == IInv => EveryRowHasContent
<1> SUFFICES ASSUME IInv, NEW s \in Sections, view[s] # Nil
             PROVE  LET n == Len(view[s].products)
                        rows == 0..(NumberOfItems(n) - 1)
                    IN /\ \E row \in rows : IsShowMore(n, row)
                       /\ \A row \in rows : IsShowMore(n, row) => row = NumberOfItems(n) - 1
                       /\ \A row \in CardRows(n) : row + 1 \in DOMAIN view[s].products
  BY DEF EveryRowHasContent
<1> DEFINE ps == view[s].products
           n  == Len(ps)
<1>1. ps \in Seq(ProductObject)
  BY DEF IInv, ViewInv, GoodView, SectionObject
<1>2. n \in Nat /\ DOMAIN ps = 1..n
  BY <1>1
<1> HIDE DEF n
<1> QED
  BY <1>2, RowsHaveContent DEF n

\* numberOfItemsInSection and cellForItemAt agree, for every display limit and
\* every number of products.
THEOREM RowContent == Spec => []EveryRowHasContent
BY RowsAreFilled, Invariance, PTL

\* A load is under way only over a user.
LEMMA UserIsThere == IInv => LoadFindsUser
BY DEF IInv, TaskInv, Loading, LoadFindsUser

\* UserMetadata.init() against InventoryViewController.viewDidLoad: the load
\* finds a user, whatever crashed or threw before it.
THEOREM LoadHasUser == Spec => []LoadFindsUser
BY UserIsThere, Invariance, PTL

----------------------------------------------------------------------------
\* Every step of the inventory tab is a step of the repositories or none.
LEMMA StepRefines == [Next]_vars => [Repo!Next]_(Repo!vars)
<1> SUFFICES ASSUME [Next]_vars PROVE Repo!Next \/ UNCHANGED store
  BY DEF Repo!vars, store
<1>1. CASE Launch
  BY <1>1 DEF Launch, Repo!Next
<1>2. CASE Kill
  BY <1>2 DEF Kill, Repo!Next
<1>3. CASE SaveContext
  BY <1>3 DEF SaveContext, Repo!Next
<1>4. ASSUME NEW k \in {1, 2}, SeedSection(k)
      PROVE  Repo!Next \/ UNCHANGED store
  <2>1. CASE Repo!CreateSection(seedUser, Seed[seedUser][k])
    <3>1. seedUser \in Users
      BY <2>1 DEF Repo!CreateSection, Repo!UsersIn
    <3>2. Seed[seedUser][k] \in SectionValues
      BY <3>1, SeedAssumption
    <3> QED
      BY <2>1, <3>1, <3>2 DEF Repo!Next, Repo!SectionStep
  <2> QED
    BY <1>4, <2>1 DEF SeedSection
<1>5. CASE LoadSections \/ FetchUpdatedSection
  BY <1>5 DEF LoadSections, FetchUpdatedSection, store
<1>6. CASE MainViewDidLoad
  <2>1. ASSUME NEW u \in Users, Repo!CreateUser(u, SeedName)
        PROVE  Repo!Next
    BY <2>1, NamesAssumption DEF Repo!Next, Repo!UserStep
  <2> QED
    BY <1>6, <2>1 DEF MainViewDidLoad, store
<1>7. ASSUME NEW s \in Sections, NEW b \in Buttons, SortButtonTapped(s, b)
      PROVE  Repo!Next \/ UNCHANGED store
  <2>1. Toggled(b, view[s].sortingRule) \in Repo!SortingRule
    BY DEF Toggled, Repo!SortingRule, Buttons
  <2> QED
    BY <1>7, <2>1 DEF SortButtonTapped, Repo!Next, Repo!SectionStep
<1>8. ASSUME NEW s \in Sections, ViewDidAppear(s) \/ CardEdit(s)
      PROVE  UNCHANGED store
  BY <1>8 DEF ViewDidAppear, CardEdit, DecreaseDays, IncreaseDays,
     DecreaseQuantity, IncreaseQuantity, Edit, store
<1>9. CASE UNCHANGED vars
  BY <1>9 DEF vars, store
<1> QED
  BY <1>1, <1>2, <1>3, <1>4, <1>5, <1>6, <1>7, <1>8, <1>9 DEF Next, MainThread

\* Every step of the inventory tab is a step of the repositories or leaves them
\* alone: what Repositories proves of the store holds under this screen too.
THEOREM Refinement == Spec => UsesRepositories
<1>1. Init => Repo!Init
  BY DEF Init
<1> QED
  BY <1>1, StepRefines, PTL DEF Spec, UsesRepositories, Repo!Spec

----------------------------------------------------------------------------
(* What is proved of the repositories, carried over to their callers.  The  *)
(* theorems are those of RepositoriesProofs for the same constants and      *)
(* variables; its definitions are copies of Repo's.                         *)

RepoProofs == INSTANCE RepositoriesProofs

LEMMA SameRepositories == Repo!Spec => RepoProofs!Spec
<1>1. Repo!Init => RepoProofs!Init
  BY DEF Repo!Init, RepoProofs!Init, Repo!EmptyGraph, RepoProofs!EmptyGraph
<1>2. [Repo!Next]_(Repo!vars) => [RepoProofs!Next]_(RepoProofs!vars)
  BY DEF
    Repo!Next, RepoProofs!Next, Repo!UserStep, RepoProofs!UserStep,
    Repo!SectionStep, RepoProofs!SectionStep, Repo!ProductStep,
    RepoProofs!ProductStep, Repo!LoadPersistentStores,
    RepoProofs!LoadPersistentStores, Repo!SaveContext, RepoProofs!SaveContext,
    Repo!Kill, RepoProofs!Kill, Repo!Die, RepoProofs!Die, Repo!Write,
    RepoProofs!Write, Repo!RemoveAllUsers, RepoProofs!RemoveAllUsers,
    Repo!FetchUser, RepoProofs!FetchUser, Repo!DeleteUser, RepoProofs!DeleteUser,
    Repo!CreateUser, RepoProofs!CreateUser, Repo!UpdateUser, RepoProofs!UpdateUser,
    Repo!CreateSection, RepoProofs!CreateSection, Repo!UpdateSection,
    RepoProofs!UpdateSection, Repo!SetSectionSortingRule,
    RepoProofs!SetSectionSortingRule, Repo!CreateProduct, RepoProofs!CreateProduct,
    Repo!UpdateProduct, RepoProofs!UpdateProduct, Repo!UsersIn, RepoProofs!UsersIn,
    Repo!SectionsIn, RepoProofs!SectionsIn, Repo!ProductsIn, RepoProofs!ProductsIn,
    Repo!WithUser, RepoProofs!WithUser, Repo!WithoutUsers, RepoProofs!WithoutUsers,
    Repo!WithSection, RepoProofs!WithSection, Repo!WithSectionAttributes,
    RepoProofs!WithSectionAttributes, Repo!WithSortingRule,
    RepoProofs!WithSortingRule, Repo!WithProduct, RepoProofs!WithProduct,
    Repo!ProductFits, RepoProofs!ProductFits, Repo!SectionFits,
    RepoProofs!SectionFits, Repo!Int16, RepoProofs!Int16, Repo!SortingRule,
    RepoProofs!SortingRule, Repo!MapProductsToCDProducts,
    RepoProofs!MapProductsToCDProducts, Repo!AsCDProduct, RepoProofs!AsCDProduct,
    Repo!vars, RepoProofs!vars
<1> QED
  BY <1>1, <1>2, PTL DEF Repo!Spec, RepoProofs!Spec

\* The assumptions of RepositoriesProofs hold of this module's constants.
LEMMA RepositoriesKeep == RepoProofs!Spec => RepoProofs!StoredObjectsAreKept
BY RepoProofs!StoredObjectsStay, NilAssumption, Int16Assumption, ValuesAssumption,
   NamesAssumption
DEF CDUser, RepoProofs!CDUser, CDSection, RepoProofs!CDSection, CDProduct,
    RepoProofs!CDProduct, Product, RepoProofs!Product, Section, RepoProofs!Section,
    SortingRule, RepoProofs!SortingRule, Int16, RepoProofs!Int16

LEMMA RepositoriesLinked == RepoProofs!Spec => []RepoProofs!NoDanglingReference
BY RepoProofs!NoDanglingReferences, NilAssumption, Int16Assumption, ValuesAssumption,
   NamesAssumption
DEF CDUser, RepoProofs!CDUser, CDSection, RepoProofs!CDSection, CDProduct,
    RepoProofs!CDProduct, Product, RepoProofs!Product, Section, RepoProofs!Section,
    SortingRule, RepoProofs!SortingRule, Int16, RepoProofs!Int16

\* Whoever only uses the repositories keeps the objects in the store.
LEMMA UsersKeepObjects == UsesRepositories => Repo!StoredObjectsAreKept
<1> DEFINE There == /\ \A s \in Sections : RepoProofs!KeepsSection(s)
                    /\ \A p \in Products : RepoProofs!KeepsProduct(p)
           Here  == /\ \A s \in Sections : Repo!KeepsSection(s)
                    /\ \A p \in Products : Repo!KeepsProduct(p)
<1>1. [There]_(RepoProofs!vars) => [Here]_(Repo!vars)
  BY DEF Repo!KeepsSection, RepoProofs!KeepsSection, Repo!KeepsProduct,
     RepoProofs!KeepsProduct, Repo!SectionsIn, RepoProofs!SectionsIn,
     Repo!ProductsIn, RepoProofs!ProductsIn, Repo!vars, RepoProofs!vars
<1> QED
  BY <1>1, SameRepositories, RepositoriesKeep, PTL
  DEF UsesRepositories, Repo!StoredObjectsAreKept, RepoProofs!StoredObjectsAreKept

\* Whoever only uses the repositories leaves no reference to an object that is
\* gone, in the context or in the store.
LEMMA UsersKeepLinks == UsesRepositories => []Repo!NoDanglingReference
<1>1. RepoProofs!NoDanglingReference => Repo!NoDanglingReference
  BY DEF Repo!NoDanglingReference, RepoProofs!NoDanglingReference, Repo!WellLinked,
     RepoProofs!WellLinked, Repo!UsersIn, RepoProofs!UsersIn, Repo!SectionsIn,
     RepoProofs!SectionsIn, Repo!ProductsIn, RepoProofs!ProductsIn
<1> QED
  BY <1>1, SameRepositories, RepositoriesLinked, PTL DEF UsesRepositories

\* Whatever the user taps, and wherever the app is killed, the inventory tab
\* never loses a stored section or product, moves a product to another section
\* or a section to another user, and leaves no reference dangling.
THEOREM StoreIsKept ==
  Spec => Repo!StoredObjectsAreKept /\ []Repo!NoDanglingReference
BY Refinement, UsersKeepObjects, UsersKeepLinks, PTL

----------------------------------------------------------------------------
(* The first run.  A save replaces the store by the context and a launch    *)
(* the context by the store, so what is said of one is said of both.  That *)
(* the products of a section to be created are new is not enough for        *)
(* SectionsAreWhole: no product may refer to the section beforehand either. *)

Ids(sec) == {x.id : x \in sec.products}

Whole(g) ==
  /\ \A p \in ProductsIn(g) : g.products[p].section \in SectionsIn(g) \cup {Nil}
  /\ \A u \in Users, k \in {1, 2} :
       Seed[u][k].id \in SectionsIn(g) =>
         ProductsOf(g, Seed[u][k].id) = Ids(Seed[u][k])

Once(g) ==
  /\ \A u, v \in UsersIn(g) : u = v
  /\ \A u \in Users : Seed[u][2].id \in SectionsIn(g) => Seed[u][1].id \in SectionsIn(g)

FirstRunInv ==
  /\ Whole(ctx) /\ Whole(disk)
  /\ faults = 0 => /\ Once(ctx) /\ Once(disk)
                   /\ task = "seed2" => Seed[seedUser][1].id \in SectionsIn(ctx)

\* createSection adds the section with its products and touches nothing else.
LEMMA NewSection ==
  ASSUME ctx \in Graph, NEW k \in {1, 2}, Repo!CreateSection(seedUser, Seed[seedUser][k])
  PROVE  LET sec == Seed[seedUser][k] IN
         /\ sec.id \notin SectionsIn(ctx) /\ Ids(sec) \cap ProductsIn(ctx) = {}
         /\ SectionsIn(ctx') = SectionsIn(ctx) \cup {sec.id}
         /\ ProductsIn(ctx') = ProductsIn(ctx) \cup Ids(sec)
         /\ \A p \in Ids(sec) : ctx'.products[p].section = sec.id
         /\ \A p \in ProductsIn(ctx) : ctx'.products[p] = ctx.products[p]
         /\ ctx'.sections[sec.id].user = seedUser
         /\ \A s \in SectionsIn(ctx) : ctx'.sections[s] = ctx.sections[s]
<1> DEFINE sec == Seed[seedUser][k]
           c == [title |-> sec.title, rule |-> sec.rule,
                 sortingRule |-> sec.sortingRule, user |-> seedUser]
           m == Repo!MapProductsToCDProducts(ctx, sec.products, sec.id)
<1>1. seedUser \in Users
  BY DEF Repo!CreateSection, Repo!UsersIn
<1>2. sec \in SectionValues /\ SectionFits(sec)
  BY <1>1, SeedAssumption
<1>3. sec \in Section /\ sec.products \in SUBSET ProductValues
  BY <1>2, ValuesAssumption DEF Section
<1>4. sec.id \notin SectionsIn(ctx) /\ Ids(sec) \cap ProductsIn(ctx) = {}
  BY DEF Repo!CreateSection, Repo!SectionsIn, SectionsIn, Repo!ProductsIn,
     ProductsIn, Ids
<1> HIDE DEF sec
<1>5. ctx' = [ctx EXCEPT !.sections[sec.id] = c, !.products = m]
  BY <1>2 DEF Repo!CreateSection, Repo!SectionFits, SectionFits, Repo!ProductFits,
     ProductFits, Repo!Int16, Int16, Repo!Write, Repo!WithSection, sec
<1>6. c # Nil /\ c.user = seedUser
  <2>1. c \in CDSection
    BY <1>1, <1>2, <1>3 DEF CDSection, Section, SectionFits
  <2> QED
    BY <2>1, NilAssumption
<1>7. \A p \in Ids(sec) : /\ p \in Products /\ m[p] # Nil
                          /\ m[p].section = sec.id
  <2> SUFFICES ASSUME NEW p \in Ids(sec)
               PROVE  p \in Products /\ m[p] # Nil /\ m[p].section = sec.id
    OBVIOUS
  <2>1. p \in Products /\ \E x \in sec.products : x.id = p
    BY <1>3, ValuesAssumption DEF Ids, Product
  <2> DEFINE x == CHOOSE x \in sec.products : x.id = p
  <2>2. x \in sec.products
    BY <2>1
  <2>3. m[p] = [title |-> x.title, quantity |-> x.quantity,
                remainingDays |-> x.remainingDays, section |-> sec.id]
    BY <2>1 DEF Repo!MapProductsToCDProducts, Repo!AsCDProduct
  <2> HIDE DEF x
  <2>4. x \in Product /\ ProductFits(x)
    BY <1>2, <1>3, <2>2, ValuesAssumption DEF SectionFits
  <2>5. m[p] \in CDProduct
    BY <1>3, <2>3, <2>4 DEF CDProduct, Product, ProductFits, Section
  <2> QED
    BY <2>1, <2>3, <2>5, NilAssumption
<1>8. \A p \in Products \ Ids(sec) : m[p] = ctx.products[p]
  BY DEF Repo!MapProductsToCDProducts, Ids
<1> HIDE DEF c, m
<1>9. ctx'.products = m /\ ctx'.sections = [ctx.sections EXCEPT ![sec.id] = c]
  BY <1>5 DEF Graph
<1>10. SectionsIn(ctx') = SectionsIn(ctx) \cup {sec.id}
  BY <1>3, <1>6, <1>9 DEF SectionsIn, Graph, Section
<1>11. ProductsIn(ctx') = ProductsIn(ctx) \cup Ids(sec)
  BY <1>7, <1>8, <1>9 DEF ProductsIn
<1>12. /\ \A p \in Ids(sec) : ctx'.products[p].section = sec.id
       /\ \A p \in ProductsIn(ctx) : ctx'.products[p] = ctx.products[p]
  BY <1>4, <1>7, <1>8, <1>9 DEF ProductsIn
<1>13. /\ ctx'.sections[sec.id].user = seedUser
       /\ \A s \in SectionsIn(ctx) : ctx'.sections[s] = ctx.sections[s]
  BY <1>3, <1>4, <1>6, <1>9 DEF SectionsIn, Graph, Section
<1> QED
  BY <1>4, <1>10, <1>11, <1>12, <1>13 DEF sec

\* A graph with the same users, products and set of sections.
LEMMA WholeStays ==
  ASSUME NEW g, NEW h, h.products = g.products, SectionsIn(h) = SectionsIn(g)
  PROVE  Whole(g) => Whole(h)
BY DEF Whole, ProductsIn, ProductsOf

LEMMA OnceStays ==
  ASSUME NEW g, NEW h, UsersIn(h) = UsersIn(g), SectionsIn(h) = SectionsIn(g)
  PROVE  Once(g) => Once(h)
BY DEF Once

\* A section created by the first run is whole and leaves the others whole.
LEMMA NewSectionWhole ==
  ASSUME ctx \in Graph, Whole(ctx), NEW k \in {1, 2},
         Repo!CreateSection(seedUser, Seed[seedUser][k])
  PROVE  Whole(ctx')
<1> DEFINE sec == Seed[seedUser][k]
<1>1. /\ sec.id \notin SectionsIn(ctx) /\ Ids(sec) \cap ProductsIn(ctx) = {}
      /\ SectionsIn(ctx') = SectionsIn(ctx) \cup {sec.id}
      /\ ProductsIn(ctx') = ProductsIn(ctx) \cup Ids(sec)
      /\ \A p \in Ids(sec) : ctx'.products[p].section = sec.id
      /\ \A p \in ProductsIn(ctx) : ctx'.products[p] = ctx.products[p]
  BY NewSection
<1>2. seedUser \in Users
  BY DEF Repo!CreateSection, Repo!UsersIn
<1>3. sec.id \in Sections
  BY <1>2, SeedAssumption, ValuesAssumption DEF Section
<1>4. \A p \in ProductsIn(ctx') : ctx'.products[p].section \in SectionsIn(ctx') \cup {Nil}
  BY <1>1 DEF Whole
<1>5. ASSUME NEW u \in Users, NEW j \in {1, 2}, Seed[u][j].id \in SectionsIn(ctx')
      PROVE  ProductsOf(ctx', Seed[u][j].id) = Ids(Seed[u][j])
  <2> DEFINE t == Seed[u][j].id
  <2>1. CASE <<u, j>> = <<seedUser, k>>
    <3>1. \A p \in ProductsIn(ctx) : ctx.products[p].section # sec.id
      BY <1>1, <1>3, NilAssumption DEF Whole
    <3>2. ProductsOf(ctx', sec.id) = Ids(sec)
      BY <1>1, <3>1 DEF ProductsOf
    <3> QED
      BY <2>1, <3>2
  <2>2. CASE <<u, j>> # <<seedUser, k>>
    <3>1. t # sec.id
      BY <1>2, <2>2, SeedAssumption
    <3>2. ProductsOf(ctx', t) = ProductsOf(ctx, t)
      BY <1>1, <3>1 DEF ProductsOf
    <3> QED
      BY <1>1, <1>5, <3>1, <3>2 DEF Whole
  <2> QED
    BY <2>1, <2>2
<1> QED
  BY <1>4, <1>5 DEF Whole

LEMMA InitFirstRun == Init => FirstRunInv
<1> SUFFICES ASSUME Init PROVE FirstRunInv
  OBVIOUS
<1>1. /\ ctx = EmptyGraph /\ disk = EmptyGraph /\ task = "none"
  BY DEF Init, Repo!Init, Repo!EmptyGraph, EmptyGraph
<1>2. /\ UsersIn(EmptyGraph) = {} /\ SectionsIn(EmptyGraph) = {}
      /\ ProductsIn(EmptyGraph) = {}
  BY DEF EmptyGraph, UsersIn, SectionsIn, ProductsIn
<1> QED
  BY <1>1, <1>2 DEF FirstRunInv, Whole, Once

\* The process starts from the store, and a save or a kill adds nothing.
LEMMA ProcessFirstRun ==
  ASSUME IInv, FirstRunInv, Launch \/ Kill \/ SaveContext
  PROVE  FirstRunInv'
<1>1. CASE Launch
  <2>1. pc = "down" /\ ctx' = disk /\ disk' = disk /\ UNCHANGED <<task, faults>>
    BY <1>1 DEF Launch, Repo!LoadPersistentStores
  <2>2. task = "none"
    BY <2>1 DEF IInv, TaskInv
  <2> QED
    BY <2>1, <2>2 DEF FirstRunInv
<1>2. CASE Kill
  BY <1>2 DEF Kill, Repo!Kill, Repo!Die, Forget, FirstRunInv
<1>3. CASE SaveContext
  <2>1. CASE pc' = "down"
    BY <1>3, <2>1 DEF SaveContext, Repo!SaveContext, Repo!Die, Forget, FirstRunInv
  <2>2. CASE pc' # "down"
    BY <1>3, <2>2 DEF SaveContext, Repo!SaveContext, Repo!Die, FirstRunInv
  <2> QED
    BY <2>1, <2>2
<1> QED
  BY <1>1, <1>2, <1>3

\* A user is created where there is none, or after a count that threw.
LEMMA MainViewDidLoadFirstRun ==
  ASSUME IInv, FirstRunInv, MainViewDidLoad
  PROVE  FirstRunInv'
<1>1. CASE task' = "load" /\ UNCHANGED <<ctx, disk, faults>>
  BY <1>1 DEF FirstRunInv
<1>2. CASE /\ (UsersIn(ctx) = {} /\ UNCHANGED faults) \/ Fault
           /\ \E u \in Users : Repo!CreateUser(u, SeedName)
           /\ task' = "seed1"
  <2>1. PICK u \in Users : Repo!CreateUser(u, SeedName)
    BY <1>2
  <2> DEFINE x == [name |-> SeedName]
  <2>2. ctx' = [ctx EXCEPT !.users[u] = x] /\ disk' = disk
    BY <2>1 DEF Repo!CreateUser, Repo!Write, Repo!WithUser
  <2> HIDE DEF x
  <2>3. /\ ctx'.products = ctx.products /\ ctx'.sections = ctx.sections
        /\ UsersIn(ctx') \subseteq UsersIn(ctx) \cup {u}
    BY <2>2 DEF IInv, StoreInv, Graph, UsersIn
  <2>4. SectionsIn(ctx') = SectionsIn(ctx)
    BY <2>3 DEF SectionsIn
  <2>5. Whole(ctx') /\ Whole(disk')
    BY <2>2, <2>3, <2>4, WholeStays DEF FirstRunInv
  <2>6. ASSUME faults' = 0
        PROVE  Once(ctx') /\ Once(disk')
    <3>1. UsersIn(ctx) = {} /\ faults = 0
      BY <1>2, <2>6, FaultEffect DEF IInv
    <3>2. Once(ctx')
      BY <2>3, <2>4, <3>1 DEF FirstRunInv, Once
    <3> QED
      BY <2>2, <3>1, <3>2 DEF FirstRunInv
  <2> QED
    BY <1>2, <2>5, <2>6 DEF FirstRunInv
<1> QED
  BY <1>1, <1>2 DEF MainViewDidLoad

\* The second section comes after the first, unless a fetch has thrown.
LEMMA SeedSectionFirstRun ==
  ASSUME IInv, FirstRunInv, NEW k \in {1, 2}, SeedSection(k)
  PROVE  FirstRunInv'
<1>1. /\ task = (IF k = 1 THEN "seed1" ELSE "seed2")
      /\ task' = (IF k = 1 THEN "seed2" ELSE "load")
      /\ UNCHANGED seedUser
  BY DEF SeedSection, AfterSeed
<1>2. CASE Repo!CreateSection(seedUser, Seed[seedUser][k]) /\ UNCHANGED faults
  <2> DEFINE sec == Seed[seedUser][k]
  <2>1. ctx' \in Graph /\ disk' = disk /\ UsersIn(ctx') = UsersIn(ctx)
    BY <1>2, CreateSectionEffect DEF IInv, StoreInv
  <2>2. SectionsIn(ctx') = SectionsIn(ctx) \cup {sec.id}
    BY <1>2, NewSection DEF IInv, StoreInv
  <2>3. seedUser \in Users
    BY <1>2 DEF Repo!CreateSection, Repo!UsersIn
  <2>4. Whole(ctx') /\ Whole(disk')
    BY <1>2, <2>1, NewSectionWhole DEF IInv, StoreInv, FirstRunInv
  <2>5. ASSUME faults' = 0
        PROVE  Once(ctx') /\ Once(disk')
    <3>1. Once(ctx) /\ Once(disk)
      BY <1>2, <2>5 DEF FirstRunInv
    <3>2. ASSUME NEW u \in Users, Seed[u][2].id \in SectionsIn(ctx')
          PROVE  Seed[u][1].id \in SectionsIn(ctx')
      <4>1. CASE Seed[u][2].id \in SectionsIn(ctx)
        BY <2>2, <3>1, <4>1 DEF Once
      <4>2. CASE Seed[u][2].id = sec.id
        <5>1. u = seedUser /\ k = 2
          <6>1. <<u, 2>> = <<seedUser, k>>
            BY <2>3, <4>2, SeedAssumption
          <6> QED
            BY <6>1
        <5> QED
          BY <1>1, <1>2, <2>2, <2>5, <5>1 DEF FirstRunInv
      <4> QED
        BY <2>2, <3>2, <4>1, <4>2
    <3> QED
      BY <2>1, <3>1, <3>2 DEF Once
  <2> QED
    BY <1>1, <2>2, <2>4, <2>5 DEF FirstRunInv
<1>3. CASE Fault /\ UNCHANGED store
  BY <1>3, FaultEffect DEF IInv, FirstRunInv, store
<1> QED
  BY <1>2, <1>3 DEF SeedSection

\* A sort tap changes a rule.
LEMMA SortButtonTappedFirstRun ==
  ASSUME IInv, FirstRunInv, NEW s \in Sections, NEW b \in Buttons, SortButtonTapped(s, b)
  PROVE  FirstRunInv'
<1>1. task' = "refetch"
  BY DEF SortButtonTapped
<1>2. CASE /\ Repo!SetSectionSortingRule(s, Toggled(b, view[s].sortingRule))
           /\ UNCHANGED faults
  <2>1. /\ disk' = disk /\ ctx'.users = ctx.users /\ ctx'.products = ctx.products
        /\ SectionsIn(ctx') = SectionsIn(ctx)
    BY <1>2, ToggledRule, SetSortingRuleEffect DEF IInv, StoreInv
  <2>2. UsersIn(ctx') = UsersIn(ctx)
    BY <2>1 DEF UsersIn
  <2> QED
    BY <1>1, <1>2, <2>1, <2>2, WholeStays, OnceStays DEF FirstRunInv
<1>3. CASE Fault /\ UNCHANGED store
  BY <1>1, <1>3, FaultEffect DEF IInv, FirstRunInv, store
<1> QED
  BY <1>2, <1>3 DEF SortButtonTapped

\* Loading, the end of a tap, viewDidAppear and card edits write nothing.
LEMMA ReadFirstRun ==
  ASSUME IInv, FirstRunInv,
         \/ LoadSections \/ FetchUpdatedSection
         \/ \E s \in Sections : ViewDidAppear(s) \/ CardEdit(s)
  PROVE  FirstRunInv'
<1>1. UNCHANGED <<ctx, disk>> /\ task' = "none" /\ (faults' = 0 => faults = 0)
  <2>1. Fault => faults' # 0
    BY FaultEffect DEF IInv
  <2>2. CASE LoadSections
    BY <2>1, <2>2 DEF LoadSections
  <2>3. CASE FetchUpdatedSection
    BY <2>1, <2>3 DEF FetchUpdatedSection
  <2>4. CASE \E s \in Sections : ViewDidAppear(s)
    BY <2>4 DEF ViewDidAppear
  <2>5. CASE \E s \in Sections : CardEdit(s)
    BY <2>5 DEF CardEdit, DecreaseDays, IncreaseDays, DecreaseQuantity,
       IncreaseQuantity, Edit
  <2> QED
    BY <2>2, <2>3, <2>4, <2>5
<1> QED
  BY <1>1 DEF FirstRunInv

\* No step of the inventory tab stores half a section or starts a second first run.
LEMMA StepFirstRun == IInv /\ FirstRunInv /\ [Next]_vars => FirstRunInv'
<1> SUFFICES ASSUME IInv, FirstRunInv, [Next]_vars PROVE FirstRunInv'
  OBVIOUS
<1>1. CASE Launch \/ Kill \/ SaveContext
  BY <1>1, ProcessFirstRun
<1>2. CASE MainViewDidLoad
  BY <1>2, MainViewDidLoadFirstRun
<1>3. CASE \E k \in {1, 2} : SeedSection(k)
  BY <1>3, SeedSectionFirstRun
<1>4. CASE \/ LoadSections \/ FetchUpdatedSection
           \/ \E s \in Sections : ViewDidAppear(s) \/ CardEdit(s)
  BY <1>4, ReadFirstRun
<1>5. CASE \E s \in Sections, b \in Buttons : SortButtonTapped(s, b)
  BY <1>5, SortButtonTappedFirstRun
<1>6. CASE UNCHANGED vars
  BY <1>6 DEF vars, FirstRunInv
<1> QED
  BY <1>1, <1>2, <1>3, <1>4, <1>5, <1>6 DEF Next, MainThread

\* What the first run stores, however often it is cut short and repeated.
THEOREM FirstRun == Spec => []FirstRunInv
BY InitFirstRun, StepFirstRun, Invariance, PTL DEF Spec

\* The store is whole.
LEMMA SectionsWhole == FirstRunInv => SectionsAreWhole
BY DEF FirstRunInv, Whole, Ids, SectionsAreWhole

\* createSection: a section that reaches the store has all of its products and
\* no others, whenever the process ends.
THEOREM WholeSections == Spec => []SectionsAreWhole
BY SectionsWhole, FirstRun, PTL

\* A set without two elements has at most one.
LEMMA OneUser == FirstRunInv => FirstRunHappensOnce
<1> SUFFICES ASSUME FirstRunInv, faults = 0
             PROVE  /\ Cardinality(UsersIn(disk)) <= 1
                    /\ \A u \in Users : Seed[u][2].id \in SectionsIn(disk) =>
                                          Seed[u][1].id \in SectionsIn(disk)
  BY DEF FirstRunHappensOnce
<1>1. CASE UsersIn(disk) = {}
  BY <1>1, FS_EmptySet DEF FirstRunInv, Once
<1>2. CASE UsersIn(disk) # {}
  <2>1. PICK u : UsersIn(disk) = {u}
    BY <1>2 DEF FirstRunInv, Once
  <2>2. Cardinality(UsersIn(disk)) = 1
    BY <2>1, FS_Singleton
  <2> QED
    BY <2>2 DEF FirstRunInv, Once
<1> QED
  BY <1>1, <1>2

\* userExists(): as long as its count does not throw, no second user is ever
\* created, and no second section without the first.
THEOREM OneFirstRun == Spec => []FirstRunHappensOnce
BY OneUser, FirstRun, PTL

----------------------------------------------------------------------------
(* Handlers.  Liveness is left to TLC; what can be proved of it is that a   *)
(* handler has few steps left, and that the first run has stored what it    *)
(* should have when it is through.                                          *)

\* How many steps the handler in progress may still take.
StepsLeft == CASE task = "seed1" -> IF pc = "saving" THEN 6 ELSE 5
               [] task = "seed2" -> IF pc = "saving" THEN 4 ELSE 3
               [] task \in {"load", "refetch"} -> IF pc = "saving" THEN 2 ELSE 1
               [] OTHER -> 0

\* Only the handler's own steps, and the end of the process, come before its end.
LEMMA HandlerSteps ==
  ASSUME IInv, Next, task # "none"
  PROVE  \/ Kill \/ SaveContext \/ LoadSections \/ FetchUpdatedSection
         \/ \E k \in {1, 2} : SeedSection(k)
<1>1. ~ (Launch \/ MainViewDidLoad)
  BY DEF Launch, Repo!LoadPersistentStores, MainViewDidLoad, IInv, TaskInv
<1>2. ASSUME NEW s \in Sections
      PROVE  /\ ~ \E b \in Buttons : SortButtonTapped(s, b)
             /\ ~ ViewDidAppear(s) /\ ~ CardEdit(s)
  BY DEF SortButtonTapped, ViewDidAppear, CardEdit, DecreaseDays, IncreaseDays,
     DecreaseQuantity, IncreaseQuantity, Edit
<1> QED
  BY <1>1, <1>2 DEF Next, MainThread

LEMMA StepsDecrease ==
  ASSUME IInv, Next, task # "none"
  PROVE  StepsLeft' < StepsLeft
<1>1. task \in {"seed1", "seed2", "load", "refetch"} /\ pc \in {"idle", "saving"}
  BY DEF IInv, StoreInv, TaskInv, Tasks
<1>2. StepsLeft \in 1..6
  BY <1>1 DEF StepsLeft
<1>3. ASSUME task' = "none" PROVE StepsLeft' < StepsLeft
  BY <1>2, <1>3 DEF StepsLeft
<1>4. CASE Kill
  BY <1>3, <1>4 DEF Kill, Forget
<1>5. CASE SaveContext
  <2>1. CASE pc' = "down"
    BY <1>3, <1>5, <2>1 DEF SaveContext, Forget
  <2>2. CASE pc' # "down"
    <3>1. pc = "saving" /\ pc' = "idle" /\ task' = task
      BY <1>5, <2>2 DEF SaveContext, Repo!SaveContext, Repo!Die
    <3> QED
      BY <1>1, <3>1 DEF StepsLeft
  <2> QED
    BY <2>1, <2>2
<1>6. CASE LoadSections \/ FetchUpdatedSection
  BY <1>3, <1>6 DEF LoadSections, FetchUpdatedSection
<1>7. ASSUME NEW k \in {1, 2}, SeedSection(k)
      PROVE  StepsLeft' < StepsLeft
  <2>1. /\ pc = "idle" /\ task = (IF k = 1 THEN "seed1" ELSE "seed2")
        /\ task' = (IF k = 1 THEN "seed2" ELSE "load")
    BY <1>7 DEF SeedSection, AfterSeed
  <2>2. pc' \in {"idle", "saving"}
    BY <1>7, <2>1, CreateSectionEffect DEF SeedSection, IInv, StoreInv, store
  <2> QED
    BY <2>1, <2>2 DEF StepsLeft
<1> QED
  BY <1>4, <1>5, <1>6, <1>7, HandlerSteps

\* The variant behind FirstRunCompletes: every step of a handler, a kill included,
\* leaves it with fewer steps, so it is through after six, whatever fetches throw,
\* and no tap, edit or second main screen comes in between.
THEOREM HandlersAreShort ==
  Spec => [][task # "none" => StepsLeft \in 1..6 /\ StepsLeft' < StepsLeft]_vars
<1>1. ASSUME IInv, task # "none" PROVE StepsLeft \in 1..6
  BY <1>1 DEF IInv, StoreInv, TaskInv, Tasks, StepsLeft
<1>2. IInv /\ [Next]_vars =>
        [task # "none" => StepsLeft \in 1..6 /\ StepsLeft' < StepsLeft]_vars
  BY <1>1, StepsDecrease
<1> QED
  BY <1>2, Invariance, PTL DEF Spec

\* Every section of g has a user of g.
Owned(g) == \A s \in SectionsIn(g) : g.sections[s].user \in UsersIn(g)

\* What the context holds of the sections of the user being set up.
SeedInv ==
  /\ Owned(ctx) /\ Owned(disk)
  /\ task \in {"none", "refetch"} => seedUser = Nil
  /\ faults = 0 =>
       /\ task = "seed1" => SectionsOf(ctx, seedUser) = {}
       /\ task = "seed2" => SectionsOf(ctx, seedUser) = {Seed[seedUser][1].id}
       /\ (task = "load" /\ seedUser # Nil) =>
            SectionsOf(ctx, seedUser) = {Seed[seedUser][1].id, Seed[seedUser][2].id}

\* When the first run goes on to load, the store has both sections of its user
\* and no others, unless a fetch has thrown: the safe half of FirstRunCompletes.
FirstRunIsStored ==
  (pc = "idle" /\ task = "load" /\ seedUser # Nil /\ faults = 0) =>
    SectionsOf(disk, seedUser) = {Seed[seedUser][1].id, Seed[seedUser][2].id}

\* Sections and their users do not change.
LEMMA OwnersStay ==
  ASSUME NEW g, NEW h, UsersIn(h) = UsersIn(g), SectionsIn(h) = SectionsIn(g),
         \A s \in SectionsIn(g) : h.sections[s].user = g.sections[s].user
  PROVE  /\ Owned(g) => Owned(h)
         /\ \A u : SectionsOf(h, u) = SectionsOf(g, u)
BY DEF Owned, SectionsOf

\* The first run starts with a user that has no section: it is new, and no
\* section is left of a user that is not there.
LEMMA MainViewDidLoadSeed ==
  ASSUME IInv, SeedInv, MainViewDidLoad
  PROVE  SeedInv'
<1>1. task = "none" /\ seedUser = Nil
  BY DEF MainViewDidLoad, SeedInv
<1>2. CASE task' = "load" /\ UNCHANGED <<ctx, disk, seedUser, faults>>
  BY <1>1, <1>2 DEF SeedInv
<1>3. CASE /\ \E u \in Users : Repo!CreateUser(u, SeedName) /\ seedUser' = u
           /\ task' = "seed1"
  <2>1. PICK u \in Users : Repo!CreateUser(u, SeedName) /\ seedUser' = u
    BY <1>3
  <2> DEFINE x == [name |-> SeedName]
  <2>2. x # Nil
    BY NamesAssumption, NilAssumption DEF CDUser
  <2>3. ctx.users[u] = Nil /\ ctx' = [ctx EXCEPT !.users[u] = x] /\ disk' = disk
    BY <2>1 DEF Repo!CreateUser, Repo!Write, Repo!WithUser
  <2> HIDE DEF x
  <2>4. ctx'.sections = ctx.sections /\ UsersIn(ctx) \subseteq UsersIn(ctx')
    BY <2>2, <2>3 DEF IInv, StoreInv, Graph, UsersIn
  <2>5. Owned(ctx') /\ Owned(disk')
    BY <2>3, <2>4 DEF SeedInv, Owned, SectionsIn
  <2>6. u \notin UsersIn(ctx) /\ u # Nil
    BY <2>3, NilAssumption DEF UsersIn
  <2>7. SectionsOf(ctx', u) = {}
    BY <2>4, <2>6 DEF SeedInv, Owned, SectionsOf, SectionsIn
  <2> QED
    BY <1>3, <2>1, <2>5, <2>7 DEF SeedInv
<1> QED
  BY <1>2, <1>3 DEF MainViewDidLoad

\* Each createSection adds one section to the user, unless its fetch throws.
LEMMA SeedSectionSeed ==
  ASSUME IInv, SeedInv, NEW k \in {1, 2}, SeedSection(k)
  PROVE  SeedInv'
<1>1. /\ task = (IF k = 1 THEN "seed1" ELSE "seed2")
      /\ task' = (IF k = 1 THEN "seed2" ELSE "load")
      /\ seedUser' = seedUser
  BY DEF SeedSection, AfterSeed
<1>2. CASE Repo!CreateSection(seedUser, Seed[seedUser][k]) /\ UNCHANGED faults
  <2> DEFINE t == Seed[seedUser][k].id
  <2>1. /\ t \notin SectionsIn(ctx)
        /\ SectionsIn(ctx') = SectionsIn(ctx) \cup {t}
        /\ ctx'.sections[t].user = seedUser
        /\ \A s \in SectionsIn(ctx) : ctx'.sections[s] = ctx.sections[s]
    BY <1>2, NewSection DEF IInv, StoreInv
  <2>2. disk' = disk /\ UsersIn(ctx') = UsersIn(ctx)
    BY <1>2, CreateSectionEffect DEF IInv, StoreInv
  <2>3. seedUser \in UsersIn(ctx)
    BY <1>2 DEF Repo!CreateSection, Repo!UsersIn, UsersIn
  <2> HIDE DEF t
  <2>4. Owned(ctx') /\ Owned(disk')
    BY <2>1, <2>2, <2>3 DEF SeedInv, Owned
  <2>5. SectionsOf(ctx', seedUser) = SectionsOf(ctx, seedUser) \cup {t}
    BY <2>1 DEF SectionsOf
  <2>6. CASE k = 1
    BY <1>1, <1>2, <2>4, <2>5, <2>6 DEF SeedInv, t
  <2>7. CASE k = 2
    BY <1>1, <1>2, <2>4, <2>5, <2>7 DEF SeedInv, t
  <2> QED
    BY <2>6, <2>7
<1>3. CASE Fault /\ UNCHANGED store
  BY <1>1, <1>3, FaultEffect DEF IInv, SeedInv, store
<1> QED
  BY <1>2, <1>3 DEF SeedSection

\* The other steps create no section and give none to anybody.
LEMMA StepSeed == IInv /\ SeedInv /\ [Next]_vars => SeedInv'
<1> SUFFICES ASSUME IInv, SeedInv, [Next]_vars PROVE SeedInv'
  OBVIOUS
<1>1. CASE Launch
  <2>1. task = "none" /\ ctx' = disk /\ disk' = disk /\ UNCHANGED <<task, seedUser>>
    BY <1>1 DEF Launch, Repo!LoadPersistentStores, IInv, TaskInv
  <2> QED
    BY <2>1 DEF SeedInv
<1>2. CASE Kill
  BY <1>2 DEF Kill, Repo!Kill, Repo!Die, Forget, SeedInv
<1>3. CASE SaveContext
  <2>1. CASE pc' = "down"
    BY <1>3, <2>1 DEF SaveContext, Repo!SaveContext, Repo!Die, Forget, SeedInv
  <2>2. CASE pc' # "down"
    BY <1>3, <2>2 DEF SaveContext, Repo!SaveContext, Repo!Die, SeedInv
  <2> QED
    BY <2>1, <2>2
<1>4. CASE MainViewDidLoad
  BY <1>4, MainViewDidLoadSeed
<1>5. CASE \E k \in {1, 2} : SeedSection(k)
  BY <1>5, SeedSectionSeed
<1>6. CASE LoadSections
  BY <1>6 DEF LoadSections, SeedInv
<1>7. CASE FetchUpdatedSection
  BY <1>7 DEF FetchUpdatedSection, SeedInv
<1>8. ASSUME NEW s \in Sections, NEW b \in Buttons, SortButtonTapped(s, b)
      PROVE  SeedInv'
  <2>1. task = "none" /\ task' = "refetch" /\ seedUser' = seedUser
    BY <1>8 DEF SortButtonTapped
  <2>2. CASE Repo!SetSectionSortingRule(s, Toggled(b, view[s].sortingRule))
    <3> DEFINE r == Toggled(b, view[s].sortingRule)
    <3>1. r \in SortingRule
      BY ToggledRule
    <3> HIDE DEF r
    <3>2. /\ disk' = disk /\ ctx'.users = ctx.users
          /\ SectionsIn(ctx') = SectionsIn(ctx)
          /\ \A t \in SectionsIn(ctx) : ctx'.sections[t].user = ctx.sections[t].user
      BY <2>2, <3>1, SetSortingRuleEffect DEF r, IInv, StoreInv, SectionsIn
    <3>3. UsersIn(ctx') = UsersIn(ctx)
      BY <3>2 DEF UsersIn
    <3>4. Owned(ctx')
      BY <3>2, <3>3, OwnersStay DEF SeedInv
    <3> QED
      BY <2>1, <3>2, <3>4 DEF SeedInv
  <2>3. CASE UNCHANGED store
    BY <2>1, <2>3 DEF SeedInv, store
  <2> QED
    BY <1>8, <2>2, <2>3 DEF SortButtonTapped
<1>9. CASE \E s \in Sections : ViewDidAppear(s) \/ CardEdit(s)
  BY <1>9 DEF ViewDidAppear, CardEdit, DecreaseDays, IncreaseDays,
     DecreaseQuantity, IncreaseQuantity, Edit, SeedInv
<1>10. CASE UNCHANGED vars
  BY <1>10 DEF vars, SeedInv
<1> QED
  BY <1>1, <1>2, <1>3, <1>4, <1>5, <1>6, <1>7, <1>8, <1>9, <1>10 DEF Next, MainThread

LEMMA InitSeed == Init => SeedInv
<1> SUFFICES ASSUME Init PROVE SeedInv
  OBVIOUS
<1>1. ctx = EmptyGraph /\ disk = EmptyGraph /\ task = "none" /\ seedUser = Nil
  BY DEF Init, Repo!Init, Repo!EmptyGraph, EmptyGraph
<1>2. SectionsIn(EmptyGraph) = {}
  BY DEF EmptyGraph, SectionsIn
<1> QED
  BY <1>1, <1>2 DEF SeedInv, Owned

THEOREM SeedInvariance == Spec => []SeedInv
BY InitSeed, StepSeed, Invariance, PTL DEF Spec

\* UserMetadata.init() and createSection: a first run that gets to the load has
\* stored both sections of the user it created, and only those.
THEOREM FirstRunStoresBoth == Spec => []FirstRunIsStored
<1>1. IInv /\ SeedInv => FirstRunIsStored
  BY DEF IInv, StoreInv, SeedInv, FirstRunIsStored
<1> QED
  BY <1>1, SeedInvariance, Invariance, PTL

----------------------------------------------------------------------------
(* A first run cut short.  Only a pending save separates context and store, *)
(* so what has to be known is what it is about: the user being set up.      *)

OthersKept ==
  pc = "saving" => \A u \in Users : u # seedUser =>
    /\ SectionsOf(ctx, u) = SectionsOf(disk, u)
    /\ u \in UsersIn(disk) => u \in UsersIn(ctx)

\* The steps that write the context write it from the store.
LEMMA StepOthers == IInv /\ OthersKept /\ [Next]_vars => OthersKept'
<1> SUFFICES ASSUME IInv, OthersKept, [Next]_vars, pc' = "saving"
             PROVE  OthersKept'
  BY DEF OthersKept
<1>1. ~ (Launch \/ Kill \/ SaveContext)
  BY DEF Launch, Kill, SaveContext, Repo!LoadPersistentStores, Repo!Kill, Repo!Die
<1>2. pc = "idle" => disk = ctx
  BY DEF IInv, StoreInv
<1>3. ~ (LoadSections \/ FetchUpdatedSection)
  BY DEF LoadSections, FetchUpdatedSection
<1>4. CASE MainViewDidLoad
  <2>1. PICK u \in Users : Repo!CreateUser(u, SeedName) /\ seedUser' = u /\ pc = "idle"
    BY <1>4 DEF MainViewDidLoad
  <2> DEFINE x == [name |-> SeedName]
  <2>2. x # Nil
    BY NamesAssumption, NilAssumption DEF CDUser
  <2>3. ctx' = [ctx EXCEPT !.users[u] = x] /\ disk' = disk
    BY <2>1 DEF Repo!CreateUser, Repo!Write, Repo!WithUser
  <2> HIDE DEF x
  <2>4. ctx'.sections = ctx.sections /\ UsersIn(ctx) \subseteq UsersIn(ctx')
    BY <2>2, <2>3 DEF IInv, StoreInv, Graph, UsersIn
  <2>5. \A v : SectionsOf(ctx', v) = SectionsOf(ctx, v)
    BY <2>4 DEF SectionsOf, SectionsIn
  <2> QED
    BY <1>2, <2>1, <2>3, <2>4, <2>5 DEF OthersKept
<1>5. ASSUME NEW k \in {1, 2}, SeedSection(k)
      PROVE  OthersKept'
  <2> DEFINE t == Seed[seedUser][k].id
  <2>1. Repo!CreateSection(seedUser, Seed[seedUser][k]) /\ pc = "idle" /\ seedUser' = seedUser
    BY <1>5 DEF SeedSection, store
  <2>2. /\ SectionsIn(ctx') = SectionsIn(ctx) \cup {t}
        /\ ctx'.sections[t].user = seedUser /\ t \notin SectionsIn(ctx)
        /\ \A s \in SectionsIn(ctx) : ctx'.sections[s] = ctx.sections[s]
    BY <2>1, NewSection DEF IInv, StoreInv
  <2>3. disk' = disk /\ UsersIn(ctx') = UsersIn(ctx)
    BY <2>1, CreateSectionEffect DEF IInv, StoreInv
  <2> HIDE DEF t
  <2>4. \A u \in Users : u # seedUser => SectionsOf(ctx', u) = SectionsOf(ctx, u)
    BY <2>2 DEF SectionsOf
  <2> QED
    BY <1>2, <2>1, <2>3, <2>4 DEF OthersKept
<1>6. ASSUME NEW s \in Sections, NEW b \in Buttons, SortButtonTapped(s, b)
      PROVE  OthersKept'
  <2> DEFINE r == Toggled(b, view[s].sortingRule)
  <2>1. Repo!SetSectionSortingRule(s, r) /\ pc = "idle" /\ seedUser' = seedUser
    BY <1>6 DEF SortButtonTapped, store
  <2>2. r \in SortingRule
    BY ToggledRule
  <2> HIDE DEF r
  <2>3. /\ disk' = disk /\ ctx'.users = ctx.users
        /\ SectionsIn(ctx') = SectionsIn(ctx)
        /\ \A t \in SectionsIn(ctx) : ctx'.sections[t].user = ctx.sections[t].user
    BY <2>1, <2>2, SetSortingRuleEffect DEF IInv, StoreInv, SectionsIn
  <2>4. UsersIn(ctx') = UsersIn(ctx)
    BY <2>3 DEF UsersIn
  <2>5. \A u : SectionsOf(ctx', u) = SectionsOf(ctx, u)
    BY <2>3 DEF SectionsOf
  <2> QED
    BY <1>2, <2>1, <2>3, <2>4, <2>5 DEF OthersKept
<1>7. ~ \E s \in Sections : ViewDidAppear(s) \/ CardEdit(s)
  BY DEF ViewDidAppear, CardEdit, DecreaseDays, IncreaseDays, DecreaseQuantity,
     IncreaseQuantity, Edit
<1>8. CASE UNCHANGED vars
  BY <1>8 DEF vars, OthersKept
<1> QED
  BY <1>1, <1>3, <1>4, <1>5, <1>6, <1>7, <1>8 DEF Next, MainThread

\* A step sets up no user that is in the store.
LEMMA SeedUserIsNew ==
  ASSUME IInv, [Next]_vars, seedUser' # seedUser, seedUser' # Nil
  PROVE  seedUser' \notin UsersIn(disk)
<1>1. ~ (Launch \/ Kill \/ SaveContext)
  BY DEF Launch, Kill, SaveContext, Forget
<1>2. ~ (LoadSections \/ FetchUpdatedSection \/ \E k \in {1, 2} : SeedSection(k))
  BY DEF LoadSections, FetchUpdatedSection, SeedSection
<1>3. ~ \E s \in Sections : \/ ViewDidAppear(s) \/ CardEdit(s)
                            \/ \E b \in Buttons : SortButtonTapped(s, b)
  BY DEF ViewDidAppear, CardEdit, DecreaseDays, IncreaseDays, DecreaseQuantity,
     IncreaseQuantity, Edit, SortButtonTapped
<1>4. MainViewDidLoad
  BY <1>1, <1>2, <1>3 DEF Next, MainThread, vars
<1>5. PICK u \in Users : Repo!CreateUser(u, SeedName) /\ seedUser' = u /\ pc = "idle"
  BY <1>4 DEF MainViewDidLoad
<1>6. disk = ctx /\ ctx.users[u] = Nil
  BY <1>5 DEF IInv, StoreInv, Repo!CreateUser
<1> QED
  BY <1>5, <1>6 DEF UsersIn

\* Only saveContext() changes the store.
LEMMA ScreensOnlySave ==
  ASSUME [Next]_vars, ~ SaveContext
  PROVE  disk' = disk
<1>1. CASE Launch \/ Kill
  BY <1>1 DEF Launch, Kill, Repo!LoadPersistentStores, Repo!Kill, Repo!Die
<1>2. CASE MainViewDidLoad
  BY <1>2 DEF MainViewDidLoad, Repo!CreateUser, Repo!Write
<1>3. CASE \E k \in {1, 2} : SeedSection(k)
  BY <1>3 DEF SeedSection, Repo!CreateSection, Repo!Write, Repo!Die, store
<1>4. CASE LoadSections \/ FetchUpdatedSection
  BY <1>4 DEF LoadSections, FetchUpdatedSection
<1>5. CASE \E s \in Sections, b \in Buttons : SortButtonTapped(s, b)
  BY <1>5 DEF SortButtonTapped, Repo!SetSectionSortingRule, Repo!Write, store
<1>6. CASE \E s \in Sections : ViewDidAppear(s) \/ CardEdit(s)
  BY <1>6 DEF ViewDidAppear, CardEdit, DecreaseDays, IncreaseDays,
     DecreaseQuantity, IncreaseQuantity, Edit
<1>7. CASE UNCHANGED vars
  BY <1>7 DEF vars
<1> QED
  BY <1>1, <1>2, <1>3, <1>4, <1>5, <1>6, <1>7 DEF Next, MainThread

\* Neither a save nor a first run is about a user whose own was cut short.
LEMMA CutShortStays ==
  ASSUME IInv, OthersKept, [Next]_vars, NEW u \in Users, CutShort(u)
  PROVE  CutShort(u)'
<1>1. u \in UsersIn(disk) /\ seedUser # u /\ SectionsOf(disk, u) # {Seed[u][1].id, Seed[u][2].id}
  BY DEF CutShort
<1>2. seedUser' # u
  BY <1>1, SeedUserIsNew, NilAssumption
<1>3. CASE SaveContext
  <2>1. CASE pc' = "down"
    <3>1. disk' = disk
      BY <1>3, <2>1 DEF SaveContext, Repo!SaveContext, Repo!Die
    <3> QED
      BY <1>1, <1>2, <3>1 DEF CutShort
  <2>2. CASE pc' # "down"
    <3>1. pc = "saving" /\ disk' = ctx
      BY <1>3, <2>2 DEF SaveContext, Repo!SaveContext, Repo!Die
    <3>2. u \in UsersIn(ctx) /\ SectionsOf(ctx, u) = SectionsOf(disk, u)
      BY <1>1, <3>1 DEF OthersKept
    <3> QED
      BY <1>1, <1>2, <3>1, <3>2 DEF CutShort
  <2> QED
    BY <2>1, <2>2
<1>4. CASE ~ SaveContext
  <2>1. disk' = disk
    BY <1>4, ScreensOnlySave
  <2> QED
    BY <1>1, <1>2, <2>1 DEF CutShort
<1> QED
  BY <1>3, <1>4

\* UserMetadata.init(): a first run that a crash or a thrown fetch has cut short
\* is never taken up again; its user stays without the missing sections over
\* every later launch, since userExists() finds the user (UserMetadata.swift:14).
THEOREM CutShortForGood == Spec => FirstRunIsNotResumed
<1>1. IInv /\ OthersKept /\ [Next]_vars =>
        [\A u \in Users : CutShort(u) => CutShort(u)']_vars
  BY CutShortStays
<1>2. Init => OthersKept
  BY DEF Init, Repo!Init, OthersKept
<1>3. Spec => []OthersKept
  BY <1>2, StepOthers, Invariance, PTL DEF Spec
<1> QED
  BY <1>1, <1>3, Invariance, PTL DEF Spec, FirstRunIsNotResumed

----------------------------------------------------------------------------
(* Every stored section is shown: with no fetch thrown there is one user,   *)
(* it owns every section, and sections are created on an empty screen only. *)

ShownInv == (faults = 0 /\ view # NoViews) => \A s \in SectionsIn(ctx) : view[s] # Nil

LEMMA LoadSectionsShown ==
  ASSUME IInv, FirstRunInv, SeedInv, LoadSections
  PROVE  ShownInv'
<1>1. ctx' = ctx
  BY DEF LoadSections
<1>2. CASE Fault
  BY <1>2, FaultEffect DEF IInv, ShownInv
<1>3. CASE \E u \in UsersIn(ctx) : \E sec :
             /\ \A s \in SectionsOf(ctx, u) : sec[s] \in FetchSectionById(ctx, s)
             /\ view' = [s \in Sections |->
                  IF s \in SectionsOf(ctx, u)
                  THEN Shown(sec[s], ArrowsFor(sec[s].sortingRule)) ELSE Nil]
             /\ UNCHANGED faults
  <2>1. PICK u \in UsersIn(ctx) : \E sec :
             /\ \A s \in SectionsOf(ctx, u) : sec[s] \in FetchSectionById(ctx, s)
             /\ view' = [s \in Sections |->
                  IF s \in SectionsOf(ctx, u)
                  THEN Shown(sec[s], ArrowsFor(sec[s].sortingRule)) ELSE Nil]
             /\ UNCHANGED faults
    BY <1>3
  <2>2. PICK sec :
             /\ \A s \in SectionsOf(ctx, u) : sec[s] \in FetchSectionById(ctx, s)
             /\ view' = [s \in Sections |->
                  IF s \in SectionsOf(ctx, u)
                  THEN Shown(sec[s], ArrowsFor(sec[s].sortingRule)) ELSE Nil]
             /\ UNCHANGED faults
    BY <2>1
  <2> SUFFICES ASSUME faults = 0, NEW s \in SectionsIn(ctx) PROVE view'[s] # Nil
    BY <1>1, <2>2 DEF ShownInv
  <2>3. s \in SectionsOf(ctx, u)
    BY DEF FirstRunInv, Once, SeedInv, Owned, SectionsOf
  <2>4. ArrowsFor(sec[s].sortingRule) \in [date : Arrow, quantity : Arrow]
    BY ArrowTypes
  <2>5. ctx \in Graph /\ sec[s] \in FetchSectionById(ctx, s)
    BY <2>2, <2>3 DEF IInv, StoreInv
  <2>6. Shown(sec[s], ArrowsFor(sec[s].sortingRule)) \in SectionObject
    BY <2>4, <2>5, FetchedView DEF GoodView
  <2>7. s \in Sections
    BY DEF SectionsIn
  <2>8. view'[s] = Shown(sec[s], ArrowsFor(sec[s].sortingRule))
    BY <2>2, <2>3, <2>7
  <2> QED
    BY <2>6, <2>8, ViewAssumption
<1> QED
  BY <1>2, <1>3 DEF LoadSections

\* The view of a section on screen is only ever replaced by another one.
LEMMA StaysShown ==
  ASSUME ShownInv, NEW s \in Sections, NEW v, view' = [view EXCEPT ![s] = v],
         v # Nil, view[s] # Nil, ctx' = ctx, faults' = 0 => faults = 0,
         view \in [Sections -> SectionObject \cup {Nil}]
  PROVE  ShownInv'
<1>1. view # NoViews
  BY DEF NoViews
<1>2. \A t \in Sections : view'[t] = IF t = s THEN v ELSE view[t]
  OBVIOUS
<1> QED
  BY <1>1, <1>2 DEF ShownInv, SectionsIn

LEMMA StepShown == IInv /\ FirstRunInv /\ SeedInv /\ ShownInv /\ [Next]_vars => ShownInv'
<1> SUFFICES ASSUME IInv, FirstRunInv, SeedInv, ShownInv, [Next]_vars PROVE ShownInv'
  OBVIOUS
<1>1. view \in [Sections -> SectionObject \cup {Nil}]
  BY DEF IInv, ViewInv
<1>2. CASE Launch \/ Kill \/ MainViewDidLoad
  BY <1>2 DEF Launch, Kill, Forget, MainViewDidLoad, Repo!LoadPersistentStores,
     IInv, ViewInv, ShownInv
<1>3. CASE SaveContext
  BY <1>3 DEF SaveContext, Repo!SaveContext, Repo!Die, Forget, ShownInv
<1>4. CASE \E k \in {1, 2} : SeedSection(k)
  BY <1>4 DEF SeedSection, IInv, ViewInv, Loading, ShownInv
<1>5. CASE LoadSections
  BY <1>5, LoadSectionsShown
<1>6. ASSUME NEW s \in Sections, NEW b \in Buttons, SortButtonTapped(s, b)
      PROVE  ShownInv'
  <2> DEFINE r == Toggled(b, view[s].sortingRule)
  <2>1. CASE Repo!SetSectionSortingRule(s, r) /\ UNCHANGED faults
    <3>1. r \in SortingRule
      BY ToggledRule
    <3> HIDE DEF r
    <3>2. SectionsIn(ctx') = SectionsIn(ctx)
      BY <2>1, <3>1, SetSortingRuleEffect DEF IInv, StoreInv
    <3> QED
      BY <1>6, <2>1, <3>2 DEF SortButtonTapped, ShownInv
  <2>2. CASE Fault
    BY <2>2, FaultEffect DEF IInv, ShownInv
  <2> QED
    BY <1>6, <2>1, <2>2 DEF SortButtonTapped
<1>7. CASE FetchUpdatedSection
  <2> DEFINE s == sorting.section
  <2>1. s \in Sections /\ view[s] # Nil /\ ctx \in Graph /\ s \in SectionsIn(ctx) /\ ctx' = ctx
    BY <1>7 DEF FetchUpdatedSection, IInv, StoreInv, TaskInv, ViewInv, GoodView
  <2>2. CASE Fault
    BY <2>2, FaultEffect DEF IInv, ShownInv
  <2>3. CASE \E sec \in FetchSectionById(ctx, s), a \in [date : Arrow, quantity : Arrow] :
               view' = [view EXCEPT ![s] = Shown(sec, a)] /\ UNCHANGED faults
    <3>1. PICK sec \in FetchSectionById(ctx, s), a \in [date : Arrow, quantity : Arrow] :
            view' = [view EXCEPT ![s] = Shown(sec, a)] /\ UNCHANGED faults
      BY <2>3
    <3> DEFINE v == Shown(sec, a)
    <3>2. v # Nil
      BY <2>1, FetchedView, ViewAssumption DEF GoodView
    <3> HIDE DEF v, s
    <3> QED
      BY <1>1, <2>1, <3>1, <3>2, StaysShown DEF v
  <2> QED
    BY <1>7, <2>2, <2>3, ArrowTypes DEF FetchUpdatedSection
<1>8. ASSUME NEW s \in Sections, ViewDidAppear(s)
      PROVE  ShownInv'
  <2> DEFINE v == Shown(view[s], ArrowsFor(view[s].sortingRule))
  <2>1. /\ view[s] # Nil /\ view' = [view EXCEPT ![s] = v] /\ ctx' = ctx /\ faults' = faults
    BY <1>8 DEF ViewDidAppear
  <2>2. GoodView(ctx, s, view[s])
    BY <2>1 DEF IInv, ViewInv
  <2>3. v # Nil
    BY <2>2, ReshownView, ArrowTypes, ViewAssumption DEF GoodView
  <2> HIDE DEF v
  <2> QED
    BY <1>1, <2>1, <2>3, StaysShown
<1>9. ASSUME NEW s \in Sections, CardEdit(s)
      PROVE  ShownInv'
  <2>1. view[s] # Nil /\ ctx' = ctx /\ faults' = faults
    BY <1>9 DEF CardEdit, DecreaseDays, IncreaseDays, DecreaseQuantity,
       IncreaseQuantity, Edit
  <2>2. PICK qs \in Seq(ProductObject) :
          view' = [view EXCEPT ![s] = [view[s] EXCEPT !.products = qs]]
    BY <1>9, <2>1, CardEditIsEdit, EditEffect DEF CardEdit
  <2> DEFINE v == [view[s] EXCEPT !.products = qs]
  <2>3. v # Nil
    BY <1>1, <2>1, ViewWithProducts, ViewAssumption
  <2> HIDE DEF v
  <2> QED
    BY <1>1, <2>1, <2>2, <2>3, StaysShown DEF v
<1>10. CASE UNCHANGED vars
  BY <1>10 DEF vars, ShownInv
<1> QED
  BY <1>2, <1>3, <1>4, <1>5, <1>6, <1>7, <1>8, <1>9, <1>10 DEF Next, MainThread

\* InventoryViewController: over all crashes, launches and main screens a screen
\* with any section has every stored one, unless a fetch has thrown.
THEOREM SectionsAreShown == Spec => []StoredSectionsAreShown
<1>1. Init => ShownInv
  BY DEF Init, ShownInv
<1>2. Spec => []ShownInv
  BY <1>1, StepShown, Invariance, FirstRun, SeedInvariance, PTL DEF Spec
<1>3. IInv /\ ShownInv => StoredSectionsAreShown
  BY DEF IInv, StoreInv, ShownInv, StoredSectionsAreShown
<1> QED
  BY <1>2, <1>3, Invariance, PTL

=============================================================================
