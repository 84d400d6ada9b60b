----------------------------- MODULE SectionApi -----------------------------
(***************************************************************************)
(* The operations the view models offer besides the ones the screens call: *)
(* SectionViewModel.addProduct and updateProduct(at:with:), the setters of *)
(* CardViewModel and UserViewModel.updateUser.  No view controller calls   *)
(* them yet; ApiSpec is the inventory with a caller for each.              *)
(***************************************************************************)
EXTENDS Inventory

\* Mutant: the rule written back is the default one.
UpdateSectionDefaultRule(s) ==
  /\ Repo!UpdateSection([id |-> s,
                         title |-> view[s].title, rule |-> view[s].rule,
                         sortingRule |-> "newestToOldest"])
  /\ UNCHANGED faults

\* SectionViewModel.updateSection(): SectionRepository.updateSection with the
\* Section object of the view model; nothing is written when its fetch throws.
UpdateSection(s) ==
  \/ /\ Repo!UpdateSection([id |-> s,
                            title |-> view[s].title, rule |-> view[s].rule,
                            sortingRule |-> view[s].sortingRule])
     /\ UNCHANGED faults
  \/ Fault /\ UNCHANGED store

\* A call from outside any handler, on the products of a section on screen.
Call(s) == /\ pc = "idle" /\ task = "none" /\ edits < MaxEdits /\ view[s] # Nil
           /\ edits' = edits + 1
           /\ UNCHANGED <<task, seedUser, sorting>>

AsObject(x) == [id |-> x.id, quantity |-> x.quantity,
                remainingDays |-> x.remainingDays]

AddProduct(s, x) ==
  /\ Call(s)
  /\ x.id \notin ProductsIn(ctx)                    \* a Product with a new id
  /\ \A i \in DOMAIN view[s].products : view[s].products[i].id # x.id
  /\ view' = [view EXCEPT ![s].products = Append(@, AsObject(x))]
  /\ UpdateSection(s)

UpdateProductAt(s, i, x) ==
  /\ Call(s)
  /\ i \in DOMAIN view[s].products                  \* guard index
  /\ view[s].products[i].id = x.id
  /\ view' = [view EXCEPT ![s].products[i] = AsObject(x)]
  /\ UpdateSection(s)

\* CardViewModel.updateProduct, updateRemainingDays and updateQuantity: as for
\* the +/- buttons, didSet does not run.
SetStock(s, row, quantity, days) ==
  /\ view[s] # Nil
  /\ row \in CardRows(Len(view[s].products))
  /\ Edit(s, row, [id |-> ProductAt(s, row).id, quantity |-> quantity,
                   remainingDays |-> days])

UpdateProductCard(s, row) ==
  \E q, d \in 0..Int16Max : SetStock(s, row, q, d)

UpdateRemainingDays(s, row) ==
  \E d \in 0..Int16Max : SetStock(s, row, ProductAt(s, row).quantity, d)

UpdateQuantity(s, row) ==
  \E q \in 0..Int16Max : SetStock(s, row, q, ProductAt(s, row).remainingDays)

\* Mutant: updateUser does not save.
UpdateUserUnsaved(u, name) ==
  /\ pc = "idle" /\ task = "none" /\ u \in UsersIn(ctx)
  /\ ctx' = WithUser(ctx, u, name)
  /\ UNCHANGED <<disk, pc, task, seedUser, sorting, view, faults, edits>>

\* UserViewModel.updateUser, of the user fetchUser() returned (any of them).
UpdateUser(u, name) ==
  /\ pc = "idle" /\ task = "none"
  /\ Repo!UpdateUser(u, name)
  /\ UNCHANGED <<task, seedUser, sorting, view, faults, edits>>

ApiNext ==
  \/ Next
  \/ \E u \in Users, name \in Titles : UpdateUser(u, name)
  \/ \E s \in Sections :
       \/ \E x \in ProductValues : AddProduct(s, x)
       \/ \E x \in ProductValues, i \in 1..Cardinality(Products) :
            UpdateProductAt(s, i, x)
       \/ \E row \in 0..Limit : \/ UpdateProductCard(s, row)
                                \/ UpdateRemainingDays(s, row)
                                \/ UpdateQuantity(s, row)

ApiSpec == Init /\ [][ApiNext]_vars

\* The main thread runs a handler it has begun, as in Inventory.
ApiFairSpec == ApiSpec /\ WF_vars(MainThread)

----------------------------------------------------------------------------
(* Properties *)

\* updateSection() writes a whole Section object back; unless a fetch has
\* thrown, that never undoes an attribute stored since the object was fetched:
\* the stored rule changes only by a sort tap, and nothing else of a section.
WriteBackLosesNothing ==
  [][\A s \in SectionsIn(disk) : (faults' = 0 /\ task = "none") =>
       disk'.sections[s] = disk.sections[s]]_vars

=============================================================================
