------------------------ MODULE ProductCardProofs ------------------------
(***************************************************************************)
(* For any cells, rows and stock: a card on screen shows the section's own *)
(* product on both faces.  The invariant needs, beyond the properties of   *)
(* ProductCard, that the card of every cell on screen holds the listener   *)
(* slot and that no two cells show the same row: an edit is told to one    *)
(* listener only, so a second card of the same product would go stale.     *)
(***************************************************************************)
EXTENDS ProductCard, TLAPS

Stock == [days : Int, quantity : Int]

ShownCardListens == \A c \in Cells : cell[c].row # Nil => cell[c].listener = "card"

OneCellPerRow ==
  \A c, d \in Cells : (cell[c].row # Nil /\ cell[c].row = cell[d].row) => c = d

IInv == /\ TypeOK
        /\ ShownCardListens
        /\ OneCellPerRow
        /\ EditsReachSection
        /\ FacesShowProduct
        /\ OneFaceVisible

\* The card a cell has after ProductCardViewController.viewDidLoad.
FreshCard(x) == [front |-> Configured(x), back |-> Configured(x),
                 frontHidden |-> FALSE, backHidden |-> TRUE, raised |-> FALSE]

\* configure(with:) gives a face whatever the product says.
LEMMA ConfiguredType == \A x \in Stock : Configured(x) \in Face
BY DEF Stock, Configured, Colour, Face, Colours

\* A new card is a card.
LEMMA FreshCardType == \A x \in Stock : FreshCard(x) \in Card
BY ConfiguredType DEF FreshCard, Card

\* Whatever a cell held, cellForItemAt leaves it with a new card that holds the
\* slot and shows x.
LEMMA DequeuedCell ==
  ASSUME NEW k \in Cell, NEW r, NEW o, NEW x
  PROVE  Dequeued(k, r, o, x) =
           [row |-> r, model |-> o, listener |-> "card", card |-> FreshCard(x)]
BY DEF Dequeued, UpdateProductCardViewController, SetCardViewModel, PrepareForReuse,
       WithoutCard, CardViewDidLoad, LoadFaces, FrontViewDidLoad, BackViewDidLoad,
       FreshCard, Cell

\* A card that holds the slot shows an edit on both faces.
LEMMA UpdatedCell ==
  ASSUME NEW k, k.listener = "card", NEW x
  PROVE  Updated(k, x) =
           [row |-> k.row, model |-> k.model, listener |-> "card",
            card |-> [front |-> Configured(x), back |-> Configured(x),
                      frontHidden |-> k.card.frontHidden,
                      backHidden |-> k.card.backHidden, raised |-> k.card.raised]]
<1>1. ToldFaces(k.listener) = {"front", "back"}
  BY DEF ToldFaces
<1> QED
  BY <1>1 DEF Updated

\* The invariant holds of a section on which no card has been shown.
LEMMA InitIInv == Init => IInv
<1> SUFFICES ASSUME Init PROVE IInv
  OBVIOUS
<1>1. stock \in [Objects -> Stock]
  BY StocksAssumption DEF Init, Fetched, Held, Stock
<1>2. \A c \in Cells : cell[c] = NewCell
  BY DEF Init
<1>3. TypeOK
  BY <1>1, <1>2, EditsAssumption
     DEF Init, TypeOK, Stock, Cell, NewCell, Listeners
<1> QED
  BY <1>2, <1>3 DEF IInv, ShownCardListens, OneCellPerRow, EditsReachSection,
     FacesShowProduct, OneFaceVisible, NewCell

\* cellForItemAt keeps the invariant: the new card shows the row's object and
\* its row was shown by no cell.
LEMMA CellForItemAtIInv ==
  ASSUME IInv, NEW c \in Cells, NEW r \in Rows, CellForItemAt(r, c)
  PROVE  IInv'
<1> DEFINE o == products[r]
           x == stock[o]
           k == [row |-> r, model |-> o, listener |-> "card", card |-> FreshCard(x)]
<1>1. o \in Objects /\ x \in Stock /\ r # Nil
  BY NilAssumption DEF IInv, TypeOK, Arrays, Stock
<1>2. cell[c] \in Cell
  BY DEF IInv, TypeOK
<1>3. cell' = [cell EXCEPT ![c] = k]
  <2>1. Dequeued(cell[c], r, o, x) = k
    BY <1>2, DequeuedCell
  <2> QED
    BY <2>1 DEF CellForItemAt
<1>4. UNCHANGED <<products, stock, edits>>
  BY DEF CellForItemAt
<1>5. FreshCard(x) \in Card /\ FreshCard(x) # Nil
  <2>1. FreshCard(x) \in Card
    BY <1>1, FreshCardType
  <2> QED
    BY <2>1, NoCardAssumption
<1>6. k \in Cell /\ o # Nil
  BY <1>1, <1>5, NilAssumption DEF Cell, Listeners
<1>7. \A d \in Cells : cell'[d] = IF d = c THEN k ELSE cell[d]
  BY <1>3 DEF IInv, TypeOK
<1> HIDE DEF o, x
<1>8. TypeOK'
  <2>1. cell' \in [Cells -> Cell]
    BY <1>3, <1>6 DEF IInv, TypeOK
  <2>2. \A d \in Cells : cell'[d].row # Nil => cell'[d].model # Nil /\ cell'[d].card # Nil
    BY <1>5, <1>6, <1>7 DEF IInv, TypeOK
  <2> QED
    BY <1>4, <2>1, <2>2 DEF IInv, TypeOK
<1>9. ShownCardListens'
  BY <1>7 DEF IInv, ShownCardListens
<1>10. OneCellPerRow'
  BY <1>1, <1>7 DEF IInv, OneCellPerRow, CellForItemAt
<1>11. EditsReachSection'
  BY <1>4, <1>7 DEF IInv, EditsReachSection, o
<1>12. FacesShowProduct'
  BY <1>4, <1>7 DEF IInv, FacesShowProduct, o, x, FreshCard
<1>13. OneFaceVisible'
  <2>1. FreshCard(x).frontHidden # FreshCard(x).backHidden
    BY DEF FreshCard
  <2>2. FreshCard(x).raised = FreshCard(x).frontHidden
    BY DEF FreshCard
  <2> QED
    BY <1>7, <2>1, <2>2 DEF IInv, OneFaceVisible
<1> QED
  BY <1>8, <1>9, <1>10, <1>11, <1>12, <1>13 DEF IInv

\* A cell that leaves the screen has nothing left to satisfy.
LEMMA EndDisplayingIInv ==
  ASSUME IInv, NEW c \in Cells, EndDisplaying(c)
  PROVE  IInv'
<1>1. cell \in [Cells -> Cell]
  BY DEF IInv, TypeOK
<1>2. cell' \in [Cells -> Cell]
  BY <1>1 DEF EndDisplaying, Cell
<1>3. \A d \in Cells : cell'[d].row # Nil => cell'[d] = cell[d]
  BY <1>1 DEF EndDisplaying, Cell
<1>4. UNCHANGED <<products, stock, edits>>
  BY DEF EndDisplaying
<1> QED
  BY <1>2, <1>3, <1>4 DEF IInv, TypeOK, ShownCardListens, OneCellPerRow,
     EditsReachSection, FacesShowProduct, OneFaceVisible

\* After a sort tap no cell is on screen, whatever the fetch returned.
LEMMA SortButtonTappedIInv ==
  ASSUME IInv, SortButtonTapped
  PROVE  IInv'
<1>1. cell \in [Cells -> Cell]
  BY DEF IInv, TypeOK
<1>2. cell' \in [Cells -> Cell]
  BY <1>1 DEF SortButtonTapped, ReloadData, Cell
<1>3. \A d \in Cells : cell'[d].row = Nil
  BY <1>1 DEF SortButtonTapped, ReloadData, Cell
<1>4. products' \in Arrays /\ stock' \in [Objects -> [days : Int, quantity : Int]]
  <2>1. CASE UNCHANGED <<products, stock>>
    BY <2>1 DEF IInv, TypeOK
  <2>2. CASE \E a \in Arrays : \E x \in [Held(a) -> Stocks] :
               products' = a /\ stock' = Fetched(a, x)
    BY <2>2, StocksAssumption DEF Fetched
  <2> QED
    BY <2>1, <2>2 DEF SortButtonTapped
<1>5. TypeOK'
  BY <1>2, <1>3, <1>4 DEF IInv, TypeOK, SortButtonTapped
<1> QED
  BY <1>3, <1>5 DEF IInv, ShownCardListens, OneCellPerRow, EditsReachSection,
     FacesShowProduct, OneFaceVisible

\* A flip keeps what the faces say; of one visible face it makes the other.
LEMMA FlipCardIInv ==
  ASSUME IInv, NEW c \in Cells, FlipCard(c)
  PROVE  IInv'
<1> DEFINE k == cell[c].card
           f == Flipped(k)
<1>1. cell \in [Cells -> Cell] /\ k \in Card
  BY DEF IInv, TypeOK, FlipCard, Cell
<1>2. /\ f \in Card /\ f.front = k.front /\ f.back = k.back
      /\ f.frontHidden = ~k.frontHidden /\ f.backHidden = ~k.backHidden
      /\ f.raised = ~k.frontHidden
  BY <1>1 DEF Flipped, Card
<1>3. f # Nil
  BY <1>2, NoCardAssumption
<1>4. cell' = [cell EXCEPT ![c].card = f]
  BY DEF FlipCard
<1> HIDE DEF f
<1>5. /\ cell' \in [Cells -> Cell]
      /\ cell'[c].card = f /\ cell'[c].row = cell[c].row
      /\ cell'[c].model = cell[c].model /\ cell'[c].listener = cell[c].listener
      /\ \A d \in Cells : d # c => cell'[d] = cell[d]
  BY <1>1, <1>2, <1>4 DEF Cell
<1>6. UNCHANGED <<products, stock, edits>>
  BY DEF FlipCard
<1>7. TypeOK'
  BY <1>3, <1>5, <1>6 DEF IInv, TypeOK
<1>8. ShownCardListens' /\ OneCellPerRow' /\ EditsReachSection'
  BY <1>5, <1>6 DEF IInv, ShownCardListens, OneCellPerRow, EditsReachSection
<1>9. FacesShowProduct'
  BY <1>2, <1>5, <1>6 DEF IInv, FacesShowProduct
<1>10. OneFaceVisible'
  <2>1. f.frontHidden # f.backHidden /\ f.raised = f.frontHidden
    <3>1. k.frontHidden # k.backHidden /\ k.frontHidden \in BOOLEAN /\ k.backHidden \in BOOLEAN
      BY <1>1 DEF IInv, OneFaceVisible, FlipCard, Card
    <3> QED
      BY <1>2, <3>1
  <2> QED
    BY <1>5, <2>1 DEF IInv, OneFaceVisible
<1> QED
  BY <1>7, <1>8, <1>9, <1>10 DEF IInv

\* An edit reaches both faces of its own card, and no other card shows that
\* product.
LEMMA EditIInv ==
  ASSUME IInv, NEW c \in Cells, cell[c].row # Nil, NEW x \in Stock, Edit(c, x)
  PROVE  IInv'
<1> DEFINE k == cell[c]
           u == Updated(k, x)
<1>1. k \in Cell /\ k.card \in Card /\ k.listener = "card" /\ k.row \in Rows
  BY DEF IInv, TypeOK, Cell, ShownCardListens
<1>2. k.model = products[k.row] /\ k.model \in Objects
  BY <1>1 DEF IInv, EditsReachSection, TypeOK, Arrays
<1>3. /\ u.row = k.row /\ u.model = k.model /\ u.listener = "card"
      /\ u.card = [front |-> Configured(x), back |-> Configured(x),
                   frontHidden |-> k.card.frontHidden,
                   backHidden |-> k.card.backHidden, raised |-> k.card.raised]
  BY <1>1, UpdatedCell
<1>4. u.card \in Card /\ u.card # Nil
  <2>1. u.card \in Card
    BY <1>1, <1>3, ConfiguredType DEF Card
  <2> QED
    BY <2>1, NoCardAssumption
<1>5. u \in Cell
  BY <1>1, <1>2, <1>4, UpdatedCell DEF Cell, Listeners
<1>6. cell' = [cell EXCEPT ![c] = u] /\ stock' = [stock EXCEPT ![k.model] = x]
      /\ products' = products /\ edits' = edits + 1 /\ edits < MaxEdits
  BY DEF Edit
<1> HIDE DEF u
<1>7. /\ cell' \in [Cells -> Cell] /\ cell'[c] = u
      /\ \A d \in Cells : d # c => cell'[d] = cell[d]
  BY <1>5, <1>6 DEF IInv, TypeOK
<1>8. /\ stock' \in [Objects -> [days : Int, quantity : Int]] /\ stock'[k.model] = x
      /\ \A o \in Objects : o # k.model => stock'[o] = stock[o]
  BY <1>2, <1>6 DEF IInv, TypeOK, Stock
<1>9. TypeOK'
  <2>1. edits' \in 0..MaxEdits
    BY <1>6, EditsAssumption DEF IInv, TypeOK
  <2>2. \A d \in Cells : cell'[d].row # Nil => cell'[d].model # Nil /\ cell'[d].card # Nil
    BY <1>2, <1>3, <1>4, <1>7, NilAssumption DEF IInv, TypeOK
  <2> QED
    BY <1>6, <1>7, <1>8, <2>1, <2>2 DEF IInv, TypeOK
<1>10. ShownCardListens' /\ OneCellPerRow' /\ EditsReachSection'
  BY <1>3, <1>6, <1>7 DEF IInv, ShownCardListens, OneCellPerRow, EditsReachSection
<1>11. FacesShowProduct'
  <2> SUFFICES ASSUME NEW d \in Cells, cell'[d].row # Nil
               PROVE  LET y == Configured(stock'[products'[cell'[d].row]])
                      IN cell'[d].card.front = y /\ cell'[d].card.back = y
    BY DEF FacesShowProduct
  <2>1. CASE d = c
    BY <2>1, <1>2, <1>3, <1>6, <1>7, <1>8
  <2>2. CASE d # c
    <3>1. cell'[d] = cell[d] /\ cell[d].row # Nil /\ cell[d].row \in Rows
      BY <2>2, <1>7 DEF IInv, TypeOK, Cell
    <3>2. cell[d].row # k.row
      BY <2>2, <3>1 DEF IInv, OneCellPerRow
    <3>3. products[cell[d].row] \in Objects /\ products[cell[d].row] # k.model
      BY <1>1, <1>2, <3>1, <3>2 DEF IInv, TypeOK, Arrays
    <3> QED
      BY <1>6, <1>8, <3>1, <3>3 DEF IInv, FacesShowProduct
  <2> QED
    BY <2>1, <2>2
<1>12. OneFaceVisible'
  BY <1>3, <1>7 DEF IInv, OneFaceVisible
<1> QED
  BY <1>9, <1>10, <1>11, <1>12 DEF IInv

\* Every button of the back is such an edit.
LEMMA CardButtonTappedIInv ==
  ASSUME IInv, NEW c \in Cells, CardButtonTapped(c)
  PROVE  IInv'
<1> DEFINE x == stock[cell[c].model]
<1>1. cell[c].row # Nil /\ x \in Stock
  BY DEF CardButtonTapped, IInv, TypeOK, Cell, Stock
<1>2. /\ AddDays(x, -1) \in Stock /\ AddDays(x, 1) \in Stock
      /\ AddQuantity(x, -1) \in Stock /\ AddQuantity(x, 1) \in Stock
  BY <1>1 DEF AddDays, AddQuantity, Stock
<1>3. \E y \in Stock : Edit(c, y)
  BY <1>1, <1>2 DEF CardButtonTapped, DecreaseDays, IncreaseDays,
     DecreaseQuantity, IncreaseQuantity
<1> QED
  BY <1>1, <1>3, EditIInv

----------------------------------------------------------------------------

\* The invariant holds in every state: cards, cells, slot and section agree
\* through scrolling, reuse, flips, edits and sort taps.
THEOREM Invariance == Spec => []IInv
<1>1. Init => IInv
  BY InitIInv
<1>2. IInv /\ [Next]_vars => IInv'
  <2> SUFFICES ASSUME IInv, [Next]_vars PROVE IInv'
    OBVIOUS
  <2>1. CASE SortButtonTapped
    BY <2>1, SortButtonTappedIInv
  <2>2. CASE \E c \in Cells, r \in Rows : CellForItemAt(r, c)
    BY <2>2, CellForItemAtIInv
  <2>3. CASE \E c \in Cells : EndDisplaying(c)
    BY <2>3, EndDisplayingIInv
  <2>4. CASE \E c \in Cells : FlipCard(c)
    BY <2>4, FlipCardIInv
  <2>5. CASE \E c \in Cells : CardButtonTapped(c)
    BY <2>5, CardButtonTappedIInv
  <2>6. CASE UNCHANGED vars
    BY <2>6 DEF vars, IInv, TypeOK, ShownCardListens, OneCellPerRow,
       EditsReachSection, FacesShowProduct, OneFaceVisible
  <2> QED
    BY <2>1, <2>2, <2>3, <2>4, <2>5, <2>6 DEF Next
<1> QED
  BY <1>1, <1>2, PTL DEF Spec

\* Both faces of every card on screen say what the section's object says.
THEOREM FacesFollowProduct == Spec => []FacesShowProduct
<1>1. IInv => FacesShowProduct
  BY DEF IInv
<1> QED
  BY <1>1, Invariance, PTL

\* Every edit goes to the object the section holds in the row of the card.
THEOREM EditsAreKept == Spec => []EditsReachSection
<1>1. IInv => EditsReachSection
  BY DEF IInv
<1> QED
  BY <1>1, Invariance, PTL

\* A card on screen shows exactly one face, with the shadow of that face.
THEOREM FlipsAreWhole == Spec => []OneFaceVisible
<1>1. IInv => OneFaceVisible
  BY DEF IInv
<1> QED
  BY <1>1, Invariance, PTL

\* Every cell on screen has a view model and a card, through reuse and reloads.
THEOREM TypeCorrect == Spec => []TypeOK
<1>1. IInv => TypeOK
  BY DEF IInv
<1> QED
  BY <1>1, Invariance, PTL

=============================================================================
