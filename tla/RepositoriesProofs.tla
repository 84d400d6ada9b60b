------------------------- MODULE RepositoriesProofs -------------------------
(***************************************************************************)
(* Proofs about Repositories, for any sets of users, sections, products    *)
(* and values and any width of the Int16 attributes.                       *)
(*                                                                         *)
(* The inductive invariant adds to TypeOK, NoDanglingReference and         *)
(* DurableWhenIdle that, while the process runs, the context has kept      *)
(* everything the store holds: the save that makes the context the store   *)
(* then keeps it too.                                                      *)
(***************************************************************************)
EXTENDS Repositories, TLAPS

\* A well-formed object graph.
Good(g) == g \in Graph /\ WellLinked(g)

\* h has kept every section and product of g, as KeepsSection/KeepsProduct say.
Keeps(g, h) ==
  /\ \A s \in SectionsIn(g) : /\ s \in SectionsIn(h)
                              /\ h.sections[s].user \in {g.sections[s].user, Nil}
  /\ \A p \in ProductsIn(g) : /\ p \in ProductsIn(h)
                              /\ h.products[p].section = g.products[p].section

IInv == /\ TypeOK
        /\ NoDanglingReference
        /\ DurableWhenIdle
        /\ pc # "down" => Keeps(disk, ctx)

----------------------------------------------------------------------------
(* The operators on object graphs *)

\* Keeping is reflexive: a graph has kept what it holds.
LEMMA KeepsReflexive == ASSUME NEW g PROVE Keeps(g, g)
  BY DEF Keeps

\* Keeping is transitive: it may be shown one method at a time.
LEMMA KeepsTransitive ==
  ASSUME NEW f, NEW g, NEW h, Keeps(f, g), Keeps(g, h)
  PROVE  Keeps(f, h)
  BY DEF Keeps

\* The empty store is well formed.
LEMMA EmptyGraphGood == Good(EmptyGraph)
  BY NilAssumption
  DEF EmptyGraph, Good, Graph, WellLinked, UsersIn, SectionsIn, ProductsIn

\* Creating or renaming a user keeps the graph well formed and loses nothing.
LEMMA WithUserGood ==
  ASSUME NEW g, Good(g), NEW u \in Users, NEW n \in Titles
  PROVE  Good(WithUser(g, u, n)) /\ Keeps(g, WithUser(g, u, n))
<1> DEFINE h == WithUser(g, u, n)
<1>1. [name |-> n] \in CDUser /\ [name |-> n] # Nil
  BY NilAssumption DEF CDUser
<1>2. h \in Graph
  BY <1>1 DEF Good, Graph, WithUser
<1>3. UsersIn(g) \subseteq UsersIn(h) /\ SectionsIn(h) = SectionsIn(g)
      /\ ProductsIn(h) = ProductsIn(g) /\ h.sections = g.sections
      /\ h.products = g.products
  BY <1>1 DEF Good, Graph, WithUser, UsersIn, SectionsIn, ProductsIn
<1>4. WellLinked(h)
  BY <1>3 DEF Good, WellLinked
<1>5. Keeps(g, h)
  BY <1>3 DEF Keeps
<1> QED BY <1>2, <1>4, <1>5 DEF Good

\* Deleting users nullifies the link of their sections and loses no section or
\* product.
LEMMA WithoutUsersGood ==
  ASSUME NEW g, Good(g), NEW us \in SUBSET Users
  PROVE  Good(WithoutUsers(g, us)) /\ Keeps(g, WithoutUsers(g, us))
<1> DEFINE h == WithoutUsers(g, us)
<1>1. h.users = [u \in Users |-> IF u \in us THEN Nil ELSE g.users[u]]
      /\ h.sections = [s \in Sections |->
           IF s \in SectionsIn(g) /\ g.sections[s].user \in us
           THEN [g.sections[s] EXCEPT !.user = Nil] ELSE g.sections[s]]
      /\ h.products = g.products
      /\ h = [users |-> h.users, sections |-> h.sections, products |-> h.products]
  BY DEF Good, Graph, WithoutUsers
<1>2. \A s \in SectionsIn(g) : g.sections[s] \in CDSection
  BY DEF Good, Graph, SectionsIn
<1>3. \A s \in SectionsIn(g) :
        /\ [g.sections[s] EXCEPT !.user = Nil] \in CDSection
        /\ [g.sections[s] EXCEPT !.user = Nil] # Nil
        /\ [g.sections[s] EXCEPT !.user = Nil].user = Nil
  BY <1>2, NilAssumption DEF CDSection
<1>4. h \in Graph
  <2>1. h.users \in [Users -> CDUser \cup {Nil}]
    BY <1>1 DEF Good, Graph
  <2>2. h.sections \in [Sections -> CDSection \cup {Nil}]
    BY <1>1, <1>3 DEF Good, Graph
  <2>3. h.products \in [Products -> CDProduct \cup {Nil}]
    BY <1>1 DEF Good, Graph
  <2> QED BY <1>1, <2>1, <2>2, <2>3 DEF Graph
<1>5. SectionsIn(h) = SectionsIn(g) /\ ProductsIn(h) = ProductsIn(g)
  BY <1>1, <1>3 DEF SectionsIn, ProductsIn
<1>6. \A s \in SectionsIn(g) :
        h.sections[s].user = IF g.sections[s].user \in us THEN Nil
                                                          ELSE g.sections[s].user
  BY <1>1, <1>3 DEF SectionsIn
<1>7. WellLinked(h)
  <2>1. ASSUME NEW s \in SectionsIn(h) PROVE h.sections[s].user \in UsersIn(h) \cup {Nil}
    BY <2>1, <1>1, <1>5, <1>6 DEF Good, WellLinked, UsersIn
  <2>2. ASSUME NEW p \in ProductsIn(h)
        PROVE  h.products[p].section \in SectionsIn(h) \cup {Nil}
    BY <1>1, <1>5 DEF Good, WellLinked
  <2> QED BY <2>1, <2>2 DEF WellLinked
<1>8. Keeps(g, h)
  BY <1>1, <1>5, <1>6 DEF Keeps
<1> QED BY <1>4, <1>7, <1>8 DEF Good

\* A Product that fits becomes a CDProduct of the section it is related to.
LEMMA AsCDProductType ==
  ASSUME NEW x \in ProductValues, ProductFits(x), NEW s \in Sections \cup {Nil}
  PROVE  /\ AsCDProduct(x, s) \in CDProduct
         /\ AsCDProduct(x, s) # Nil
         /\ AsCDProduct(x, s).section = s
  BY ValuesAssumption, NilAssumption
  DEF AsCDProduct, CDProduct, Product, ProductFits

\* Storing a product under a section that exists, or changing one that is
\* stored without moving it, keeps the graph well formed and loses nothing.
LEMMA WithProductGood ==
  ASSUME NEW g, Good(g), NEW x \in ProductValues, ProductFits(x),
         NEW s \in SectionsIn(g) \cup {Nil},
         x.id \in ProductsIn(g) => s = g.products[x.id].section
  PROVE  Good(WithProduct(g, s, x)) /\ Keeps(g, WithProduct(g, s, x))
<1> DEFINE h == WithProduct(g, s, x)
           c == AsCDProduct(x, s)
<1>1. x.id \in Products
  BY ValuesAssumption DEF Product
<1>2. c \in CDProduct /\ c # Nil /\ c.section = s
  BY AsCDProductType DEF SectionsIn
<1>3. h.users = g.users /\ h.sections = g.sections
      /\ h.products = [g.products EXCEPT ![x.id] = c]
      /\ h \in Graph
  BY <1>1, <1>2 DEF Good, Graph, WithProduct
<1>4. g.products \in [Products -> CDProduct \cup {Nil}]
  BY DEF Good, Graph
<1> HIDE DEF h, c
<1>5. SectionsIn(h) = SectionsIn(g) /\ UsersIn(h) = UsersIn(g)
  BY <1>3 DEF SectionsIn, UsersIn
<1>6. ProductsIn(h) = ProductsIn(g) \cup {x.id}
  BY <1>1, <1>2, <1>3, <1>4 DEF ProductsIn
<1>7. h.products[x.id].section = s
      /\ \A p \in Products \ {x.id} : h.products[p] = g.products[p]
  BY <1>1, <1>2, <1>3, <1>4
<1>8. WellLinked(h)
  BY <1>3, <1>5, <1>6, <1>7 DEF Good, WellLinked, ProductsIn
<1>9. Keeps(g, h)
  BY <1>3, <1>5, <1>6, <1>7 DEF Keeps, ProductsIn
<1> QED BY <1>3, <1>8, <1>9 DEF Good, h

\* The shape of what createSection writes: the section's products, and no
\* other, become CDProducts of the section.
LEMMA MappedProducts ==
  ASSUME NEW g, Good(g), NEW sec \in SectionValues, SectionFits(sec)
  PROVE  LET m == MapProductsToCDProducts(g, sec.products, sec.id) IN
         /\ m \in [Products -> CDProduct \cup {Nil}]
         /\ \A p \in Products :
              IF \E x \in sec.products : x.id = p
              THEN m[p] # Nil /\ m[p].section = sec.id
              ELSE m[p] = g.products[p]
<1> DEFINE xs == sec.products
           m == MapProductsToCDProducts(g, xs, sec.id)
<1>1. sec.id \in Sections /\ xs \subseteq ProductValues /\ \A x \in xs : ProductFits(x)
  BY ValuesAssumption DEF Section, SectionFits
<1>2. g.products \in [Products -> CDProduct \cup {Nil}]
  BY DEF Good, Graph
<1>3. ASSUME NEW p \in Products, \E x \in xs : x.id = p
      PROVE  /\ AsCDProduct(CHOOSE x \in xs : x.id = p, sec.id) \in CDProduct
             /\ AsCDProduct(CHOOSE x \in xs : x.id = p, sec.id) # Nil
             /\ AsCDProduct(CHOOSE x \in xs : x.id = p, sec.id).section = sec.id
  <2> DEFINE y == CHOOSE x \in xs : x.id = p
  <2>1. y \in xs
    BY <1>3
  <2> HIDE DEF y
  <2>2. /\ AsCDProduct(y, sec.id) \in CDProduct
        /\ AsCDProduct(y, sec.id) # Nil
        /\ AsCDProduct(y, sec.id).section = sec.id
    BY <1>1, <2>1, AsCDProductType
  <2> QED BY <2>2 DEF y
<1>4. m = [p \in Products |-> IF \E x \in xs : x.id = p
                             THEN AsCDProduct(CHOOSE x \in xs : x.id = p, sec.id)
                             ELSE g.products[p]]
  BY DEF MapProductsToCDProducts
<1> HIDE DEF m, xs
<1>5. m \in [Products -> CDProduct \cup {Nil}]
  BY <1>2, <1>3, <1>4
<1>6. \A p \in Products : IF \E x \in xs : x.id = p
                          THEN m[p] # Nil /\ m[p].section = sec.id
                          ELSE m[p] = g.products[p]
  BY <1>3, <1>4
<1> QED BY <1>5, <1>6 DEF m, xs

\* Creating a section with new ids for a user that exists keeps the graph well
\* formed and loses nothing.
LEMMA WithSectionGood ==
  ASSUME NEW g, Good(g), NEW u \in UsersIn(g), NEW sec \in SectionValues,
         SectionFits(sec), sec.id \notin SectionsIn(g),
         \A x \in sec.products : x.id \notin ProductsIn(g)
  PROVE  Good(WithSection(g, u, sec)) /\ Keeps(g, WithSection(g, u, sec))
<1> DEFINE h == WithSection(g, u, sec)
           c == [title |-> sec.title, rule |-> sec.rule,
                 sortingRule |-> sec.sortingRule, user |-> u]
           m == MapProductsToCDProducts(g, sec.products, sec.id)
           new == {p \in Products : \E x \in sec.products : x.id = p}
<1>1. sec.id \in Sections /\ sec \in Section
  BY ValuesAssumption DEF Section
<1>2. c \in CDSection /\ c # Nil
  BY <1>1, NilAssumption DEF CDSection, Section, SectionFits, UsersIn
<1>3. /\ m \in [Products -> CDProduct \cup {Nil}]
      /\ \A p \in new : m[p] # Nil /\ m[p].section = sec.id
      /\ \A p \in Products \ new : m[p] = g.products[p]
  BY MappedProducts
<1>4. new \cap ProductsIn(g) = {}
  OBVIOUS
<1>5. g.sections \in [Sections -> CDSection \cup {Nil}]
  BY DEF Good, Graph
<1>6. h.users = g.users /\ h.sections = [g.sections EXCEPT ![sec.id] = c]
      /\ h.products = m /\ (h.sections \in [Sections -> CDSection \cup {Nil}] => h \in Graph)
  BY <1>3 DEF Good, Graph, WithSection
<1> HIDE DEF h, c, m, new
<1>7. h \in Graph
  BY <1>1, <1>2, <1>5, <1>6
<1>8. UsersIn(h) = UsersIn(g) /\ SectionsIn(h) = SectionsIn(g) \cup {sec.id}
  BY <1>1, <1>2, <1>5, <1>6 DEF UsersIn, SectionsIn
<1>9. h.sections[sec.id].user = u
      /\ \A s \in SectionsIn(g) : h.sections[s] = g.sections[s]
  BY <1>1, <1>5, <1>6 DEF c, SectionsIn
<1>10. \A p \in ProductsIn(h) :
         p \in new \/ (p \in ProductsIn(g) /\ h.products[p] = g.products[p])
  BY <1>3, <1>6 DEF ProductsIn
<1>11. \A p \in ProductsIn(g) : p \in ProductsIn(h) /\ h.products[p] = g.products[p]
  BY <1>3, <1>4, <1>6 DEF ProductsIn
<1>12. WellLinked(h)
  BY <1>3, <1>6, <1>8, <1>9, <1>10 DEF Good, WellLinked
<1>13. Keeps(g, h)
  BY <1>8, <1>9, <1>11 DEF Keeps
<1> QED BY <1>7, <1>12, <1>13 DEF Good, h

\* Rewriting the attributes of a stored section, its user left alone, keeps the
\* graph well formed and loses nothing.
LEMMA SectionRewriteGood ==
  ASSUME NEW g, Good(g), NEW s \in SectionsIn(g),
         NEW t \in Titles, NEW r \in Int16, NEW o \in SortingRule
  PROVE  LET h == [g EXCEPT !.sections[s] =
                      [title |-> t, rule |-> r, sortingRule |-> o,
                       user |-> g.sections[s].user]]
         IN Good(h) /\ Keeps(g, h)
<1> DEFINE c == [title |-> t, rule |-> r, sortingRule |-> o,
                 user |-> g.sections[s].user]
           h == [g EXCEPT !.sections[s] = c]
<1>1. s \in Sections /\ g.sections[s] \in CDSection
  BY DEF SectionsIn, Good, Graph
<1>2. c \in CDSection /\ c # Nil
  BY <1>1, NilAssumption DEF CDSection
<1>3. g.sections \in [Sections -> CDSection \cup {Nil}]
  BY DEF Good, Graph
<1>4. h.users = g.users /\ h.products = g.products
      /\ h.sections = [g.sections EXCEPT ![s] = c]
      /\ (h.sections \in [Sections -> CDSection \cup {Nil}] => h \in Graph)
  BY DEF Good, Graph
<1>5. c.user = g.sections[s].user
  OBVIOUS
<1> HIDE DEF h, c
<1>6. h \in Graph
  BY <1>1, <1>2, <1>3, <1>4
<1>7. UsersIn(h) = UsersIn(g) /\ SectionsIn(h) = SectionsIn(g)
      /\ ProductsIn(h) = ProductsIn(g)
  BY <1>1, <1>2, <1>3, <1>4 DEF UsersIn, SectionsIn, ProductsIn
<1>8. \A x \in SectionsIn(g) : h.sections[x].user = g.sections[x].user
  BY <1>1, <1>3, <1>4, <1>5 DEF SectionsIn
<1>9. WellLinked(h)
  BY <1>4, <1>7, <1>8 DEF Good, WellLinked
<1>10. Keeps(g, h)
  BY <1>4, <1>7, <1>8 DEF Keeps
<1> QED BY <1>6, <1>9, <1>10 DEF Good, h, c

----------------------------------------------------------------------------
(* The steps *)

\* A method that changes the context into a well-formed graph that has kept
\* what the context held preserves the invariant.
LEMMA WriteStep ==
  ASSUME IInv, pc = "idle", NEW g, Good(g), Keeps(ctx, g), Write(g)
  PROVE  IInv'
<1>1. Good(ctx') /\ Good(disk')
  BY DEF IInv, TypeOK, NoDanglingReference, Good, Write
<1>2. Keeps(disk, ctx)
  BY DEF IInv
<1>3. Keeps(disk', ctx')
  BY <1>2, KeepsTransitive DEF Write
<1>4. pc' = "saving"
  BY DEF Write
<1>5. TypeOK'
  BY <1>1, <1>4 DEF TypeOK, Good
<1>6. NoDanglingReference'
  BY <1>1 DEF NoDanglingReference, Good
<1>7. DurableWhenIdle'
  BY <1>4 DEF DurableWhenIdle
<1> QED BY <1>3, <1>5, <1>6, <1>7 DEF IInv

\* The process may end at any point: what is on disk is not touched.
LEMMA DieStep == ASSUME IInv, Die PROVE IInv'
<1>1. pc' = "down" /\ ctx' = ctx /\ disk' = disk
  BY DEF Die
<1> QED
  BY <1>1 DEF IInv, TypeOK, NoDanglingReference, DurableWhenIdle, WellLinked,
              UsersIn, SectionsIn, ProductsIn

\* Loading the store starts the context from what the store holds.
LEMMA LoadStep == ASSUME IInv, LoadPersistentStores PROVE IInv'
<1>1. pc' = "idle" /\ ctx' = disk /\ disk' = disk
  BY DEF LoadPersistentStores
<1>2. Keeps(disk', ctx')
  BY <1>1, KeepsReflexive
<1>3. TypeOK'
  BY <1>1 DEF IInv, TypeOK
<1>4. NoDanglingReference'
  BY <1>1 DEF IInv, NoDanglingReference
<1> QED BY <1>1, <1>2, <1>3, <1>4 DEF IInv, DurableWhenIdle

\* saveContext() makes the context the store, or ends the process.
LEMMA SaveStep == ASSUME IInv, SaveContext PROVE IInv'
<1>1. CASE Die
  BY <1>1, DieStep
<1>2. CASE disk' = ctx /\ pc' = "idle" /\ UNCHANGED ctx
  <2>1. Keeps(disk', ctx')
    BY <1>2, KeepsReflexive
  <2>2. TypeOK'
    BY <1>2 DEF IInv, TypeOK
  <2>3. NoDanglingReference'
    BY <1>2 DEF IInv, NoDanglingReference
  <2> QED BY <1>2, <2>1, <2>2, <2>3 DEF IInv, DurableWhenIdle
<1> QED BY <1>1, <1>2 DEF SaveContext

\* What the invariant says of the context when a method is called.
LEMMA CtxGood == ASSUME IInv PROVE Good(ctx)
  BY DEF IInv, TypeOK, NoDanglingReference, Good

\* UserRepository preserves the invariant.
LEMMA UserSteps == ASSUME IInv, UserStep PROVE IInv'
<1>1. ASSUME RemoveAllUsers PROVE IInv'
  <2>1. UsersIn(ctx) \in SUBSET Users
    BY DEF UsersIn
  <2> QED BY <1>1, <2>1, CtxGood, WithoutUsersGood, WriteStep DEF RemoveAllUsers
<1>2. ASSUME NEW u \in Users, NEW n \in Titles, CreateUser(u, n) PROVE IInv'
  BY <1>2, CtxGood, WithUserGood, WriteStep DEF CreateUser
<1>3. ASSUME NEW u \in Users, FetchUser(u) PROVE IInv'
  BY <1>2, <1>3, DefaultNameAssumption DEF FetchUser
<1>4. ASSUME NEW u \in Users, NEW n \in Titles, UpdateUser(u, n) PROVE IInv'
  BY <1>4, CtxGood, WithUserGood, WriteStep DEF UpdateUser
<1>5. ASSUME NEW u \in Users, DeleteUser(u) PROVE IInv'
  <2>1. {u} \in SUBSET Users
    OBVIOUS
  <2> QED BY <1>5, <2>1, CtxGood, WithoutUsersGood, WriteStep DEF DeleteUser
<1> QED BY <1>1, <1>2, <1>3, <1>4, <1>5 DEF UserStep

\* SectionRepository preserves the invariant.
LEMMA SectionSteps == ASSUME IInv, SectionStep PROVE IInv'
<1>1. ASSUME NEW sec \in SectionValues, NEW u \in Users, CreateSection(u, sec)
      PROVE  IInv'
  <2>1. CASE SectionFits(sec)
    BY <1>1, <2>1, CtxGood, WithSectionGood, WriteStep DEF CreateSection
  <2>2. CASE ~SectionFits(sec)
    BY <1>1, <2>2, DieStep DEF CreateSection
  <2> QED BY <2>1, <2>2
<1>2. ASSUME NEW sec \in SectionValues, UpdateSection(sec) PROVE IInv'
  <2>1. CASE sec.rule \in Int16
    <3>1. sec.title \in Titles /\ sec.sortingRule \in SortingRule
      BY ValuesAssumption DEF Section
    <3>2. Good(WithSectionAttributes(ctx, sec))
          /\ Keeps(ctx, WithSectionAttributes(ctx, sec))
      BY <1>2, <2>1, <3>1, CtxGood, SectionRewriteGood
      DEF UpdateSection, WithSectionAttributes
    <3> QED BY <1>2, <2>1, <3>2, WriteStep DEF UpdateSection
  <2>2. CASE sec.rule \notin Int16
    BY <1>2, <2>2, DieStep DEF UpdateSection
  <2> QED BY <2>1, <2>2
<1>3. ASSUME NEW s \in Sections, NEW r \in SortingRule, SetSectionSortingRule(s, r)
      PROVE  IInv'
  <2>1. s \in SectionsIn(ctx) /\ pc = "idle"
    BY <1>3 DEF SetSectionSortingRule
  <2>2. ctx.sections[s].title \in Titles /\ ctx.sections[s].rule \in Int16
    BY <2>1, CtxGood DEF Good, Graph, CDSection, SectionsIn
  <2>3. Good(WithSortingRule(ctx, s, r)) /\ Keeps(ctx, WithSortingRule(ctx, s, r))
    BY <2>1, <2>2, CtxGood, SectionRewriteGood DEF WithSortingRule
  <2> QED BY <1>3, <2>1, <2>3, WriteStep DEF SetSectionSortingRule
<1> QED BY <1>1, <1>2, <1>3 DEF SectionStep

\* ProductRepository preserves the invariant.
LEMMA ProductSteps == ASSUME IInv, ProductStep PROVE IInv'
<1>1. ASSUME NEW x \in ProductValues, NEW s \in Sections, CreateProduct(s, x)
      PROVE  IInv'
  <2>1. CASE ProductFits(x)
    BY <1>1, <2>1, CtxGood, WithProductGood, WriteStep DEF CreateProduct
  <2>2. CASE ~ProductFits(x)
    BY <1>1, <2>2, DieStep DEF CreateProduct
  <2> QED BY <2>1, <2>2
<1>2. ASSUME NEW x \in ProductValues, UpdateProduct(x) PROVE IInv'
  <2>1. CASE ProductFits(x)
    <3>1. x.id \in ProductsIn(ctx) /\ pc = "idle"
      BY <1>2 DEF UpdateProduct
    <3>2. ctx.products[x.id].section \in SectionsIn(ctx) \cup {Nil}
      BY <3>1, CtxGood DEF Good, WellLinked
    <3>3. Good(WithProduct(ctx, ctx.products[x.id].section, x))
          /\ Keeps(ctx, WithProduct(ctx, ctx.products[x.id].section, x))
      BY <2>1, <3>2, CtxGood, WithProductGood
    <3> QED BY <1>2, <2>1, <3>1, <3>3, WriteStep DEF UpdateProduct
  <2>2. CASE ~ProductFits(x)
    BY <1>2, <2>2, DieStep DEF UpdateProduct
  <2> QED BY <2>1, <2>2
<1> QED BY <1>1, <1>2 DEF ProductStep

----------------------------------------------------------------------------
(* The theorems *)

\* The invariant holds in every state of every run of the repositories.
THEOREM Invariance == Spec => []IInv
<1>1. Init => IInv
  BY EmptyGraphGood
  DEF Init, IInv, TypeOK, NoDanglingReference, DurableWhenIdle, Good
<1>2. IInv /\ [Next]_vars => IInv'
  <2> SUFFICES ASSUME IInv, [Next]_vars PROVE IInv'
    OBVIOUS
  <2>1. CASE UNCHANGED vars
    BY <2>1 DEF vars, IInv, TypeOK, NoDanglingReference, DurableWhenIdle,
                WellLinked, Keeps, UsersIn, SectionsIn, ProductsIn
  <2>2. CASE LoadPersistentStores
    BY <2>2, LoadStep
  <2>3. CASE SaveContext
    BY <2>3, SaveStep
  <2>4. CASE Kill
    BY <2>4, DieStep DEF Kill
  <2>5. CASE UserStep
    BY <2>5, UserSteps
  <2>6. CASE SectionStep
    BY <2>6, SectionSteps
  <2>7. CASE ProductStep
    BY <2>7, ProductSteps
  <2> QED BY <2>1, <2>2, <2>3, <2>4, <2>5, <2>6, <2>7 DEF Next
<1> QED BY <1>1, <1>2, PTL DEF Spec

\* Every attribute written by a repository is one the data model allows; a
\* number that does not fit in Int16 never reaches the context or the store.
THEOREM TypeCorrect == Spec => []TypeOK
<1>1. IInv => TypeOK
  BY DEF IInv
<1> QED BY <1>1, Invariance, PTL

\* No repository call, crash or failed save leaves a reference to an object
\* that is gone.
THEOREM NoDanglingReferences == Spec => []NoDanglingReference
<1>1. IInv => NoDanglingReference
  BY DEF IInv
<1> QED BY <1>1, Invariance, PTL

\* Whatever a repository method has returned from is in the store.
THEOREM Durable == Spec => []DurableWhenIdle
<1>1. IInv => DurableWhenIdle
  BY DEF IInv
<1> QED BY <1>1, Invariance, PTL

\* No step of the repositories removes a stored section or product, moves a
\* product or gives a section to another user.
THEOREM StoredObjectsStay == Spec => StoredObjectsAreKept
<1> DEFINE Kept == /\ \A s \in Sections : KeepsSection(s)
                   /\ \A p \in Products : KeepsProduct(p)
<1>1. ASSUME IInv, [Next]_vars PROVE [Kept]_vars
  <2>1. disk' = disk \/ (pc = "saving" /\ disk' = ctx)
    BY <1>1 DEF Next, vars, LoadPersistentStores, SaveContext, Die, Kill,
       UserStep, RemoveAllUsers, FetchUser, DeleteUser, CreateUser, UpdateUser,
       SectionStep, CreateSection, UpdateSection, SetSectionSortingRule,
       ProductStep, CreateProduct, UpdateProduct, Write
  <2>2. CASE disk' = disk
    BY <2>2 DEF KeepsSection, KeepsProduct, SectionsIn, ProductsIn
  <2>3. CASE pc = "saving" /\ disk' = ctx
    <3>1. Keeps(disk, disk')
      BY <1>1, <2>3 DEF IInv
    <3> QED BY <3>1 DEF Keeps, KeepsSection, KeepsProduct
  <2> QED BY <2>1, <2>2, <2>3
<1> QED BY <1>1, Invariance, PTL DEF Spec, StoredObjectsAreKept

=============================================================================
