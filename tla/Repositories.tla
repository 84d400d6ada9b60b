---------------------------- MODULE Repositories ----------------------------
(***************************************************************************)
(* CoreDataStack and the three repositories over it.                       *)
(*                                                                         *)
(*   ctx   the object graph of persistentContainer.viewContext             *)
(*   disk  the persistent store                                            *)
(*   pc    "down"    the process is not running                            *)
(*         "idle"    no repository method is executing                     *)
(*         "saving"  a method has changed ctx and is about to call         *)
(*                   saveContext(), its last statement                     *)
(*                                                                         *)
(* Every method runs to its end on the main thread, so methods do not      *)
(* interleave; the process can be ended (by the system, by a trapped       *)
(* conversion or by fatalError) at any point of one.                       *)
(***************************************************************************)
EXTENDS CoreDataModel

CONSTANT DefaultName   \* "Ray", the name fetchUser gives a user it creates

ASSUME DefaultNameAssumption == DefaultName \in Titles

VARIABLES ctx, disk, pc

vars == <<ctx, disk, pc>>

Init == ctx = EmptyGraph /\ disk = EmptyGraph /\ pc = "down"

----------------------------------------------------------------------------
(* CoreDataStack *)

\* The first use of the stack loads the store; ctx starts from what it holds.
LoadPersistentStores == /\ pc = "down"
                        /\ ctx' = disk
                        /\ pc' = "idle"
                        /\ UNCHANGED disk

Write(g) == ctx' = g /\ pc' = "saving" /\ UNCHANGED disk

\* A Swift runtime trap, fatalError(), or the system ending the process.
Die == pc' = "down" /\ UNCHANGED <<ctx, disk>>

\* save() is one SQLite transaction; on an error saveContext ends the process.
SaveContext == /\ pc = "saving"
               /\ \/ disk' = ctx /\ pc' = "idle" /\ UNCHANGED ctx
                  \/ Die

Kill == pc # "down" /\ Die

----------------------------------------------------------------------------
(* UserRepository *)

CreateUser(u, name) == /\ pc = "idle"
                       /\ ctx.users[u] = Nil        \* id: UUID()
                       /\ Write(WithUser(ctx, u, name))

\* fetchUser() only writes when the store holds no user.
FetchUser(u) == UsersIn(ctx) = {} /\ CreateUser(u, DefaultName)

UpdateUser(u, name) == /\ pc = "idle"
                       /\ u \in UsersIn(ctx)
                       /\ Write(WithUser(ctx, u, name))

DeleteUser(u) == /\ pc = "idle"
                 /\ u \in UsersIn(ctx)
                 /\ Write(WithoutUsers(ctx, {u}))

RemoveAllUsers == pc = "idle" /\ Write(WithoutUsers(ctx, UsersIn(ctx)))

----------------------------------------------------------------------------
(* SectionRepository *)

CreateSection(u, sec) ==
  /\ pc = "idle"
  /\ u \in UsersIn(ctx)                             \* guard let user
  /\ sec.id \notin SectionsIn(ctx)                  \* ids come from UUID()
  /\ \A x \in sec.products : x.id \notin ProductsIn(ctx)
  /\ IF SectionFits(sec) THEN Write(WithSection(ctx, u, sec)) ELSE Die

UpdateSection(sec) ==
  /\ pc = "idle"
  /\ sec.id \in SectionsIn(ctx)                     \* guard let cdSection
  /\ IF sec.rule \in Int16 THEN Write(WithSectionAttributes(ctx, sec)) ELSE Die

SetSectionSortingRule(s, r) ==
  /\ pc = "idle"
  /\ s \in SectionsIn(ctx)                          \* guard let cdSection
  /\ Write(WithSortingRule(ctx, s, r))

----------------------------------------------------------------------------
(* ProductRepository *)

CreateProduct(s, x) ==
  /\ pc = "idle"
  /\ s \in SectionsIn(ctx)                          \* guard let section
  /\ x.id \notin ProductsIn(ctx)
  /\ IF ProductFits(x) THEN Write(WithProduct(ctx, s, x)) ELSE Die

\* Mutant: the values are stored as they are, not through Int16().
UpdateProductUnchecked(x) ==
  /\ pc = "idle" /\ x.id \in ProductsIn(ctx)
  /\ Write(WithProduct(ctx, ctx.products[x.id].section, x))

\* Mutant: the call of saveContext() is missing.
UpdateProductUnsaved(x) ==
  /\ pc = "idle" /\ x.id \in ProductsIn(ctx) /\ ProductFits(x)
  /\ ctx' = WithProduct(ctx, ctx.products[x.id].section, x)
  /\ UNCHANGED <<disk, pc>>

\* The relationship to the section is left alone.
UpdateProduct(x) ==
  /\ pc = "idle"
  /\ x.id \in ProductsIn(ctx)                       \* guard let cdProduct
  /\ IF ProductFits(x)
     THEN Write(WithProduct(ctx, ctx.products[x.id].section, x))
     ELSE Die

----------------------------------------------------------------------------

UserStep == \/ RemoveAllUsers
            \/ \E u \in Users : \/ FetchUser(u)
                                \/ DeleteUser(u)
                                \/ \E n \in Titles : CreateUser(u, n)
                                \/ \E n \in Titles : UpdateUser(u, n)

SectionStep == \/ \E sec \in SectionValues : \/ \E u \in Users : CreateSection(u, sec)
                                             \/ UpdateSection(sec)
               \/ \E s \in Sections, r \in SortingRule : SetSectionSortingRule(s, r)

ProductStep == \E x \in ProductValues : \/ \E s \in Sections : CreateProduct(s, x)
                                        \/ UpdateProduct(x)

Next == \/ LoadPersistentStores \/ SaveContext \/ Kill
        \/ UserStep \/ SectionStep \/ ProductStep

Spec == Init /\ [][Next]_vars

----------------------------------------------------------------------------
(* Properties *)

\* Both graphs are graphs of the data model (every Int16 attribute in range,
\* every sorting rule one the enum knows) and pc is one of its three values.
TypeOK == ctx \in Graph /\ disk \in Graph /\ pc \in {"down", "idle", "saving"}

WellLinked(g) ==
  /\ \A s \in SectionsIn(g) : g.sections[s].user \in UsersIn(g) \cup {Nil}
  /\ \A p \in ProductsIn(g) : g.products[p].section \in SectionsIn(g) \cup {Nil}

\* Neither the context nor the store ever holds a section of a user that is
\* gone or a product of a section that is gone (deletion rule Nullify).
NoDanglingReference == WellLinked(ctx) /\ WellLinked(disk)

\* When a repository method has returned, what it wrote is in the store: no
\* method leaves a change behind that a later crash would lose.
DurableWhenIdle == pc = "idle" => disk = ctx

\* What holds of a stored object in every later step, through saves, failed
\* saves, traps, kills and relaunches.
KeepsSection(s) == s \in SectionsIn(disk) =>
  /\ s \in SectionsIn(disk')
  /\ disk'.sections[s].user \in {disk.sections[s].user, Nil}

KeepsProduct(p) == p \in ProductsIn(disk) =>
  /\ p \in ProductsIn(disk')
  /\ disk'.products[p].section = disk.products[p].section

\* Nothing a repository does ever removes a stored section or product, moves a
\* product, or hands a section to another user: deleting a user can only leave
\* its sections without one, and they stay so.
StoredObjectsAreKept ==
  [][/\ \A s \in Sections : KeepsSection(s)
     /\ \A p \in Products : KeepsProduct(p)]_vars

=============================================================================
