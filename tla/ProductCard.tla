---------------------------- MODULE ProductCard ----------------------------
(***************************************************************************)
(* The product cards of one section: StorageCollectionViewCell, the three  *)
(* card view controllers and the listener of CardViewModel.                *)
(*                                                                         *)
(*   products  the Product object in each row of the section               *)
(*   stock     the days and quantity of each Product object                *)
(*   cell      per collection view cell:                                   *)
(*     row        the row it shows, Nil when it waits in the reuse pool    *)
(*     model      the Product object of its cardViewModel, Nil for none    *)
(*     listener   whose closure is in cardViewModel.onProductUpdated;      *)
(*                "gone" when that controller has been released            *)
(*     card       its productCardViewController: what the two faces say,   *)
(*                which is hidden, and whether the shadow is raised        *)
(*   edits     how many times a button of a card has been tapped           *)
(*                                                                         *)
(* An object that only a pooled cell still refers to is never read again,  *)
(* so its identity may be taken by a new one.                              *)
(***************************************************************************)
EXTENDS Integers

CONSTANTS
  Cells,     \* the cells the collection view creates
  Rows,      \* the rows of the section that show a product
  Objects,   \* identities of Product objects
  Stocks,    \* the days and quantities a fetch may return
  Nil,
  MaxEdits   \* bound on edits

ASSUME NilAssumption == Nil \notin Rows \cup Objects

ASSUME StocksAssumption == Stocks \subseteq [days : Int, quantity : Int]

ASSUME EditsAssumption == MaxEdits \in Nat

VARIABLES products, stock, cell, edits

vars == <<products, stock, cell, edits>>

Colours   == {"green", "orange", "red"}
Face      == [days : Int, quantity : Int, colour : Colours]
Card      == [front : Face, back : Face, frontHidden : BOOLEAN,
              backHidden : BOOLEAN, raised : BOOLEAN]
Listeners == {"none", "front", "back", "card", "gone"}

ASSUME NoCardAssumption == Nil \notin Card

\* Section.products: as many distinct objects as rows.
Arrays == {a \in [Rows -> Objects] : \A r, q \in Rows : a[r] = a[q] => r = q}

Held(a) == {a[r] : r \in Rows}

\* The objects of a section just fetched; no one reads any other.
Fetched(a, x) == [o \in Objects |-> IF o \in Held(a) THEN x[o]
                                   ELSE [days |-> 0, quantity |-> 0]]

NewCell == [row |-> Nil, model |-> Nil, listener |-> "none", card |-> Nil]

Init == /\ products \in Arrays
        /\ \E x \in [Held(products) -> Stocks] : stock = Fetched(products, x)
        /\ cell = [c \in Cells |-> NewCell]
        /\ edits = 0

----------------------------------------------------------------------------
(* The faces *)

Colour(days) == IF days > 6 THEN "green" ELSE IF days > 0 THEN "orange" ELSE "red"

\* configure(with:) of both card views.
Configured(x) == [days |-> x.days, quantity |-> x.quantity, colour |-> Colour(x.days)]

Blank == [days |-> 0, quantity |-> 0, colour |-> "green"]

\* The slot and the two faces while a card loads its view; each face takes the
\* slot and configures itself.
FrontViewDidLoad(l, x) == [listener |-> "front", front |-> Configured(x), back |-> l.back]

BackViewDidLoad(l, x) == [listener |-> "back", front |-> l.front, back |-> Configured(x)]

LoadFaces(l, x) ==
  BackViewDidLoad(FrontViewDidLoad([listener |-> l, front |-> Blank, back |-> Blank], x), x)

\* Mutant: the card sets its listener before it sets up its children.
CardViewDidLoadEarly(k, x) ==
  LET l == LoadFaces("card", x)
  IN [row |-> k.row, model |-> k.model, listener |-> l.listener,
      card |-> [front |-> l.front, back |-> l.back,
                frontHidden |-> FALSE, backHidden |-> TRUE, raised |-> FALSE]]

\* ProductCardViewController.viewDidLoad: the children load their views, then
\* the card hides the back and takes the slot.
CardViewDidLoad(k, x) ==
  LET l == LoadFaces(k.listener, x)
  IN [row |-> k.row, model |-> k.model, listener |-> "card",
      card |-> [front |-> l.front, back |-> l.back,
                frontHidden |-> FALSE, backHidden |-> TRUE, raised |-> FALSE]]

\* The faces the closure in the slot configures: a released controller's is
\* weak and configures none, a face's own only that face.
ToldFaces(l) == CASE l = "card" -> {"front", "back"}
                  [] l \in {"front", "back"} -> {l}
                  [] l \in {"none", "gone"} -> {}

----------------------------------------------------------------------------
(* StorageCollectionViewCell *)

\* The card controller is removed and released; the view model is kept.
WithoutCard(k) ==
  [row |-> k.row, model |-> k.model, card |-> Nil,
   listener |-> IF k.listener = "none" THEN "none" ELSE "gone"]

PrepareForReuse(k) == WithoutCard(k)

UpdateProductCardViewController(k, x) == CardViewDidLoad(WithoutCard(k), x)

\* cell.cardViewModel = CardViewModel(product:), and its didSet.
SetCardViewModel(k, o, x) ==
  UpdateProductCardViewController(
    [row |-> k.row, model |-> o, listener |-> "none", card |-> k.card], x)

\* A cell of the pool made to show the object o in row r.
Dequeued(k, r, o, x) ==
  UpdateProductCardViewController(
    SetCardViewModel([PrepareForReuse(k) EXCEPT !.row = r], o, x), x)

\* cellForItemAt: the collection view asks for a row that comes on screen and
\* is given a cell from the pool (a new one has nothing to prepare).  The card
\* is built by didSet and once more by the explicit call.
CellForItemAt(r, c) ==
  /\ \A d \in Cells : cell[d].row # r
  /\ cell[c].row = Nil
  /\ cell' = [cell EXCEPT ![c] = Dequeued(@, r, products[r], stock[products[r]])]
  /\ UNCHANGED <<products, stock, edits>>

\* The row is scrolled off the screen.
EndDisplaying(c) ==
  /\ cell[c].row # Nil
  /\ cell' = [cell EXCEPT ![c].row = Nil]
  /\ UNCHANGED <<products, stock, edits>>

\* Mutant: the collection view is not reloaded.
ReloadDataMissing == UNCHANGED cell

\* reloadData(): every cell goes back to the pool.
ReloadData == cell' = [c \in Cells |-> [cell[c] EXCEPT !.row = Nil]]

\* A sort tap: the section is fetched again, into new Product objects, or
\* stays as it is when the fetch throws; then the cards are reloaded.
SortButtonTapped ==
  /\ \/ \E a \in Arrays : \E x \in [Held(a) -> Stocks] :
          /\ Held(a) \cap Held(products) = {}
          /\ products' = a
          /\ stock' = Fetched(a, x)
     \/ UNCHANGED <<products, stock>>
  /\ ReloadData
  /\ UNCHANGED edits

----------------------------------------------------------------------------
(* A card on screen *)

\* Mutant: the faces are swapped, the shadow is not.
FlippedFlat(k) ==
  [front |-> k.front, back |-> k.back, frontHidden |-> ~k.frontHidden,
   backHidden |-> ~k.backHidden, raised |-> FALSE]

Flipped(k) ==
  [front |-> k.front, back |-> k.back, frontHidden |-> ~k.frontHidden,
   backHidden |-> ~k.backHidden, raised |-> ~k.frontHidden]

FlipCard(c) ==
  /\ cell[c].row # Nil
  /\ cell' = [cell EXCEPT ![c].card = Flipped(@)]
  /\ UNCHANGED <<products, stock, edits>>

\* onProductUpdated?(product)
Updated(k, x) ==
  LET told == ToldFaces(k.listener)
  IN [row |-> k.row, model |-> k.model, listener |-> k.listener,
      card |-> [front |-> IF "front" \in told THEN Configured(x) ELSE k.card.front,
                back  |-> IF "back" \in told THEN Configured(x) ELSE k.card.back,
                frontHidden |-> k.card.frontHidden, backHidden |-> k.card.backHidden,
                raised |-> k.card.raised]]

\* A button on the visible back of a card: the object of its view model becomes x.
Edit(c, x) ==
  /\ edits < MaxEdits
  /\ stock' = [stock EXCEPT ![cell[c].model] = x]
  /\ cell' = [cell EXCEPT ![c] = Updated(@, x)]
  /\ edits' = edits + 1
  /\ UNCHANGED products

AddDays(x, d)     == [days |-> x.days + d, quantity |-> x.quantity]
AddQuantity(x, d) == [days |-> x.days, quantity |-> x.quantity + d]

DecreaseDays(c) == Edit(c, AddDays(stock[cell[c].model], -1))
IncreaseDays(c) == Edit(c, AddDays(stock[cell[c].model], 1))

\* The listener is told even when there is nothing left to take.
DecreaseQuantity(c) ==
  LET x == stock[cell[c].model]
  IN Edit(c, IF x.quantity > 0 THEN AddQuantity(x, -1) ELSE x)

IncreaseQuantity(c) == Edit(c, AddQuantity(stock[cell[c].model], 1))

CardButtonTapped(c) ==
  /\ cell[c].row # Nil /\ ~cell[c].card.backHidden
  /\ DecreaseDays(c) \/ IncreaseDays(c) \/ DecreaseQuantity(c) \/ IncreaseQuantity(c)

----------------------------------------------------------------------------

Next == \/ SortButtonTapped
        \/ \E c \in Cells : \/ \E r \in Rows : CellForItemAt(r, c)
                            \/ EndDisplaying(c) \/ FlipCard(c) \/ CardButtonTapped(c)

Spec == Init /\ [][Next]_vars

----------------------------------------------------------------------------
(* Properties *)

Cell == [row : Rows \cup {Nil}, model : Objects \cup {Nil},
         listener : Listeners, card : Card \cup {Nil}]

\* Every variable has its type; a cell on screen has a view model and a card.
TypeOK ==
  /\ products \in Arrays
  /\ stock \in [Objects -> [days : Int, quantity : Int]]
  /\ cell \in [Cells -> Cell]
  /\ edits \in 0..MaxEdits
  /\ \A c \in Cells : cell[c].row # Nil => cell[c].model # Nil /\ cell[c].card # Nil

\* Both faces of a card on screen say what the section's own object in that row
\* says, through edits, scrolling, reuse of cells and sort taps: the slot that
\* three controllers set (ProductCardViewController.swift:44) is the card's.
FacesShowProduct ==
  \A c \in Cells : cell[c].row # Nil =>
    LET x == Configured(stock[products[cell[c].row]])
    IN cell[c].card.front = x /\ cell[c].card.back = x

\* An edit on a card goes to the object the section holds in that row, so a
\* card that is scrolled away and back keeps it (CardViewModel.swift:10).
EditsReachSection ==
  \A c \in Cells : cell[c].row # Nil => cell[c].model = products[cell[c].row]

\* A card on screen shows exactly one face, and its shadow is raised exactly
\* while that is the back (ProductCardViewController.swift:112-128).
OneFaceVisible ==
  \A c \in Cells : cell[c].row # Nil =>
    /\ cell[c].card.frontHidden # cell[c].card.backHidden
    /\ cell[c].card.raised = cell[c].card.frontHidden

=============================================================================
