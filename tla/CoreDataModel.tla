--------------------------- MODULE CoreDataModel ---------------------------
(***************************************************************************)
(* The Core Data model of InventoryApp (AppDataModel.xcdatamodel, the CD*  *)
(* classes) and what each repository method does to an object graph, as    *)
(* operators from graphs to graphs.                                        *)
(*                                                                         *)
(* An object graph maps the UUID of every user, section and product to its *)
(* attributes, or to Nil when no such object exists.  The inverse          *)
(* relationships user<->sections and section<->products are kept by Core   *)
(* Data, so the graph stores the to-one side only (CDSection.user,         *)
(* CDProduct.section).  Titles, names and pictures are never compared by   *)
(* the code: one attribute "title" stands for them.                        *)
(***************************************************************************)
EXTENDS Integers, FiniteSets, Sequences

CONSTANTS
  Users, Sections, Products,  \* the UUIDs that UUID() may return
  Titles,                     \* names, titles and picture names
  Nil,                        \* Swift's nil
  Int16Max,                   \* Int16.max (32767; smaller in the models)
  ProductValues,              \* the Product objects handed to a repository
  SectionValues               \* the Section objects handed to a repository

Int16 == -(Int16Max + 1) .. Int16Max

\* enum SortingRule: Int16
SortingRule == {"newestToOldest", "oldestToNewest",
                "quantityLowToHigh", "quantityHighToLow"}

CDUser == [name : Titles]
CDSection == [title : Titles, rule : Int16, sortingRule : SortingRule,
              user : Users \cup {Nil}]
CDProduct == [title : Titles, quantity : Int16, remainingDays : Int16,
              section : Sections \cup {Nil}]

Graph == [users : [Users -> CDUser \cup {Nil}],
          sections : [Sections -> CDSection \cup {Nil}],
          products : [Products -> CDProduct \cup {Nil}]]

EmptyGraph == [users |-> [u \in Users |-> Nil],
               sections |-> [s \in Sections |-> Nil],
               products |-> [p \in Products |-> Nil]]

\* class Product and class Section: Swift Ints, not yet narrowed to Int16.
Product == [id : Products, title : Titles, quantity : Int, remainingDays : Int]
Section == [id : Sections, title : Titles, rule : Int,
            sortingRule : SortingRule, products : SUBSET ProductValues]

ASSUME NilAssumption ==
  /\ Nil \notin Users \cup Sections \cup Products
  /\ Nil \notin CDUser /\ Nil \notin CDSection /\ Nil \notin CDProduct

ASSUME Int16Assumption == Int16Max \in Nat

ASSUME ValuesAssumption ==
  /\ ProductValues \subseteq Product
  /\ SectionValues \subseteq Section
  \* every Product of a Section is built with its own UUID()
  /\ \A sec \in SectionValues : \A x, y \in sec.products : x.id = y.id => x = y

----------------------------------------------------------------------------
(* Queries. *)

UsersIn(g)    == {u \in Users : g.users[u] # Nil}
SectionsIn(g) == {s \in Sections : g.sections[s] # Nil}
ProductsIn(g) == {p \in Products : g.products[p] # Nil}

\* CDUser.sections and CDSection.products, the to-many sides.
SectionsOf(g, u) == {s \in SectionsIn(g) : g.sections[s].user = u}
ProductsOf(g, s) == {p \in ProductsIn(g) : g.products[p].section = s}

\* Int16(x) traps (ends the process) on any x outside the range.
ProductFits(x)   == x.quantity \in Int16 /\ x.remainingDays \in Int16
SectionFits(sec) == sec.rule \in Int16 /\ \A x \in sec.products : ProductFits(x)

----------------------------------------------------------------------------
(* Updates of the object graph, up to the call of saveContext(). *)

WithUser(g, u, name) == [g EXCEPT !.users[u] = [name |-> name]]

\* Mutant: deletion rule No Action.
WithoutUsersNoAction(g, us) ==
  [g EXCEPT !.users = [u \in Users |-> IF u \in us THEN Nil ELSE g.users[u]]]

\* Mutant: deletion rule Cascade.
WithoutUsersCascade(g, us) ==
  [g EXCEPT
     !.users = [u \in Users |-> IF u \in us THEN Nil ELSE g.users[u]],
     !.sections = [s \in Sections |->
        IF s \in SectionsIn(g) /\ g.sections[s].user \in us THEN Nil
                                                          ELSE g.sections[s]]]

\* Deletion rule Nullify: the sections of a deleted user stay, without a user.
WithoutUsers(g, us) ==
  [users |-> [u \in Users |-> IF u \in us THEN Nil ELSE g.users[u]],
   sections |-> [s \in Sections |->
      IF s \in SectionsIn(g) /\ g.sections[s].user \in us
      THEN [g.sections[s] EXCEPT !.user = Nil]
      ELSE g.sections[s]],
   products |-> g.products]

\* A CDProduct made from a Product, related to section s.
AsCDProduct(x, s) == [title |-> x.title, quantity |-> x.quantity,
                      remainingDays |-> x.remainingDays, section |-> s]

\* Mutant: the call of section.addToProducts is missing.
MapProductsUnrelated(g, xs, s) ==
  [p \in Products |->
     IF \E x \in xs : x.id = p
     THEN AsCDProduct(CHOOSE x \in xs : x.id = p, Nil)
     ELSE g.products[p]]

\* mapProductsToCDProducts: every Product of the array becomes a CDProduct.
MapProductsToCDProducts(g, xs, s) ==
  [p \in Products |->
     IF \E x \in xs : x.id = p
     THEN AsCDProduct(CHOOSE x \in xs : x.id = p, s)
     ELSE g.products[p]]

WithSection(g, u, sec) ==
  [g EXCEPT
     !.sections[sec.id] = [title |-> sec.title, rule |-> sec.rule,
                           sortingRule |-> sec.sortingRule, user |-> u],
     !.products = MapProductsToCDProducts(g, sec.products, sec.id)]

\* updateSection writes the scalar attributes; sec.products is ignored.
WithSectionAttributes(g, sec) ==
  [g EXCEPT !.sections[sec.id] = [title |-> sec.title, rule |-> sec.rule,
                                  sortingRule |-> sec.sortingRule,
                                  user |-> g.sections[sec.id].user]]

WithSortingRule(g, s, r) ==
  [g EXCEPT !.sections[s] = [title |-> g.sections[s].title,
                             rule |-> g.sections[s].rule,
                             sortingRule |-> r,
                             user |-> g.sections[s].user]]

WithProduct(g, s, x) == [g EXCEPT !.products[x.id] = AsCDProduct(x, s)]

=============================================================================
