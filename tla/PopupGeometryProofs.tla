------------------------ MODULE PopupGeometryProofs ------------------------
(***************************************************************************)
(* Proofs about PopupGeometry.tla, for every set of screens, icons,        *)
(* pointers and popup sizes. Both properties follow from one invariant: the*)
(* position is what the arithmetic gives for the present anchor, size and  *)
(* area; what it gives is the matter of the lemmas.                        *)
(***************************************************************************)
EXTENDS PopupGeometry, TLAPS

IsSize(s) == s.width \in Nat /\ s.height \in Nat

\* One axis: the far side is kept whenever there is room, the near side always.
LEMMA KeptBounds ==
    ASSUME NEW start \in Int, NEW length \in Nat, NEW wanted \in Int, NEW extent \in Nat
    PROVE  /\ Kept(start, length, wanted, extent) \in Int
           /\ Kept(start, length, wanted, extent) >= 2 * (start + Margin)
           /\ Fits(extent, length) =>
                 Kept(start, length, wanted, extent) + 2 * extent <= 2 * (start + length - Margin)
BY DEF Kept, Larger, Smaller, Fits, Margin

\* One axis, one half: a place beside an icon in the far half stays before the icon,
\* and one beside an icon in the near half stays after it.
LEMMA KeptClear ==
    ASSUME NEW start \in Int, NEW length \in Nat, NEW extent \in Nat,
           NEW from \in Int, NEW thickness \in Nat,
           2 * (extent + 2 * Margin) + thickness <= length
    PROVE  /\ 2 * from + thickness > 2 * start + length =>
                 Kept(start, length, 2 * (from - extent - Margin), extent) + 2 * extent <= 2 * from
           /\ ~(2 * from + thickness > 2 * start + length) =>
                 Kept(start, length, 2 * (from + thickness + Margin), extent) >= 2 * (from + thickness)
BY DEF Kept, Larger, Smaller, Margin

\* What the invariant says of the variables' types.
Typed == /\ IsRectangle(area)
         /\ placer # "script" => area \in {screen.area : screen \in Screens}
         /\ IsSize(size)
         /\ anchored => IsRectangle(anchor)

\* The position is the one the code computes.
Placed == \/ anchored /\ position = PositionAt(anchor, size, area)
          \/ ~anchored /\ \E atTop \in BOOLEAN : position = PositionInCorner(size, area, atTop)

PlacedInv == Typed /\ Placed

LEMMA AvailableIsRectangle ==
    ASSUME NEW p, NEW a \in AvailableGeometryAt(p)
    PROVE  IsRectangle(a) /\ a \in {screen.area : screen \in Screens}
BY GeometryAssumption DEF AvailableGeometryAt

LEMMA InitPlaced == Init => PlacedInv
<1> SUFFICES ASSUME Init PROVE PlacedInv
    OBVIOUS
<1>1. Typed
    BY GeometryAssumption DEF Init, Typed, IsSize
<1>2. Placed
    BY DEF Init, Placed
<1> QED
    BY <1>1, <1>2 DEF PlacedInv

LEMMA NextPlaced ==
    ASSUME PlacedInv, [Next]_vars
    PROVE  PlacedInv'
<1>1. ASSUME NEW s \in Sizes, NEW icon \in Icons, PlaceAtIcon(icon, s)
      PROVE  PlacedInv'
    BY <1>1, GeometryAssumption, AvailableIsRectangle DEF PlaceAtIcon, PlacedInv, Typed, Placed, IsSize
<1>2. ASSUME NEW s \in Sizes, NEW icon \in Icons, PlaceInCorner(icon, s)
      PROVE  PlacedInv'
    BY <1>2, GeometryAssumption DEF PlaceInCorner, PlacedInv, Typed, Placed, IsSize
<1>3. ASSUME NEW s \in Sizes, NEW p \in Pointers, PlaceByExtension(p, s) \/ PlaceByScript(p, s)
      PROVE  PlacedInv'
  <2>1. PlaceAtPointer(p, s)
      BY <1>3 DEF PlaceByExtension, PlaceByScript
  <2>2. /\ IsRectangle(area')
        /\ placer' # "script" => area' \in {screen.area : screen \in Screens}
      BY <1>3, GeometryAssumption, AvailableIsRectangle DEF PlaceByExtension, PlaceByScript
  <2>3. IsRectangle(anchor')
      BY <2>1, GeometryAssumption DEF PlaceAtPointer, IsRectangle
  <2> QED
      BY <2>1, <2>2, <2>3, GeometryAssumption DEF PlaceAtPointer, PlacedInv, Typed, Placed, IsSize
<1>4. CASE Hide
    BY <1>4, GeometryAssumption DEF Hide, PlacedInv, Typed, Placed, IsSize
<1>5. CASE UNCHANGED vars
    BY <1>5 DEF vars, PlacedInv, Typed, Placed
<1> QED
    BY <1>1, <1>2, <1>3, <1>4, <1>5 DEF Next, Place

LEMMA AlwaysPlaced == Spec => []PlacedInv
BY InitPlaced, NextPlaced, PTL DEF Spec

\* The popup is in the area it is placed in where it fits, and its top left corner
\* is where it does not, on every arrangement of screens and for every size of the
\* popup; the window (positionPopup) and the GNOME extension take the work area of
\* one screen, so that there it never covers a panel, a taskbar or a menu bar.
THEOREM PopupInside == Spec => []InsideWorkArea
<1>1. ASSUME PlacedInv PROVE InsideWorkArea
  <2>1. \E wx, wy \in Int : position = KeptIn(area, wx, wy, size)
    <3>1. CASE anchored
        BY <1>1, <3>1 DEF PlacedInv, Typed, Placed, PositionAt, IsRectangle, IsSize, Margin
    <3>2. CASE ~anchored
      <4>1. PICK atTop \in BOOLEAN : position = PositionInCorner(size, area, atTop)
          BY <1>1, <3>2 DEF PlacedInv, Placed
      <4>2. /\ area.x \in Int /\ area.y \in Int /\ area.width \in Int /\ area.height \in Int
            /\ size.width \in Int /\ size.height \in Int
          BY <1>1 DEF PlacedInv, Typed, IsRectangle, IsSize
      <4> QED
          BY <4>1, <4>2 DEF PositionInCorner, Margin
    <3> QED
        BY <3>1, <3>2
  <2>2. PICK wx \in Int, wy \in Int : position = KeptIn(area, wx, wy, size)
      BY <2>1
  <2>3. /\ position.x = Kept(area.x, area.width, wx, size.width)
        /\ position.y = Kept(area.y, area.height, wy, size.height)
      BY <2>2 DEF KeptIn
  <2>4. /\ area.x \in Int /\ area.width \in Nat /\ size.width \in Nat
        /\ area.y \in Int /\ area.height \in Nat /\ size.height \in Nat
      BY <1>1 DEF PlacedInv, Typed, IsRectangle, IsSize
  <2>5. /\ position.x >= 2 * (area.x + Margin)
        /\ Fits(size.width, area.width) =>
              position.x + 2 * size.width <= 2 * (area.x + area.width - Margin)
    <3>1. /\ Kept(area.x, area.width, wx, size.width) >= 2 * (area.x + Margin)
          /\ Fits(size.width, area.width) =>
                Kept(area.x, area.width, wx, size.width) + 2 * size.width
                  <= 2 * (area.x + area.width - Margin)
        BY <2>4, KeptBounds
    <3> QED
        BY <2>3, <3>1
  <2>6. /\ position.y >= 2 * (area.y + Margin)
        /\ Fits(size.height, area.height) =>
              position.y + 2 * size.height <= 2 * (area.y + area.height - Margin)
    <3>1. /\ Kept(area.y, area.height, wy, size.height) >= 2 * (area.y + Margin)
          /\ Fits(size.height, area.height) =>
                Kept(area.y, area.height, wy, size.height) + 2 * size.height
                  <= 2 * (area.y + area.height - Margin)
        BY <2>4, KeptBounds
    <3> QED
        BY <2>3, <3>1
  <2> QED
      BY <1>1, <2>5, <2>6 DEF InsideWorkArea, PlacedInv, Typed
<1> QED
    BY <1>1, AlwaysPlaced, PTL

\* The popup opens clear of the icon or the pointer wherever half of the work area
\* has room for it.
THEOREM PopupClear == Spec => []ClearOfAnchor
<1>1. ASSUME PlacedInv PROVE ClearOfAnchor
  <2> SUFFICES ASSUME anchored, 2 * (size.height + 2 * Margin) + anchor.height <= area.height
               PROVE  \/ position.y + 2 * size.height <= 2 * anchor.y
                      \/ position.y >= 2 * (anchor.y + anchor.height)
      BY DEF ClearOfAnchor
  <2>1. IsRectangle(area) /\ IsSize(size) /\ IsRectangle(anchor)
      BY <1>1 DEF PlacedInv, Typed
  <2>2. position.y = Kept(area.y, area.height,
                          IF 2 * anchor.y + anchor.height > 2 * area.y + area.height
                          THEN 2 * (anchor.y - size.height - Margin)
                          ELSE 2 * (anchor.y + anchor.height + Margin), size.height)
      BY <1>1 DEF PlacedInv, Placed, PositionAt, KeptIn
  <2>3. /\ area.y \in Int /\ area.height \in Nat /\ size.height \in Nat
        /\ anchor.y \in Int /\ anchor.height \in Nat
      BY <2>1 DEF IsRectangle, IsSize
  <2>4. /\ 2 * anchor.y + anchor.height > 2 * area.y + area.height =>
              Kept(area.y, area.height, 2 * (anchor.y - size.height - Margin), size.height)
                + 2 * size.height <= 2 * anchor.y
        /\ ~(2 * anchor.y + anchor.height > 2 * area.y + area.height) =>
              Kept(area.y, area.height, 2 * (anchor.y + anchor.height + Margin), size.height)
                >= 2 * (anchor.y + anchor.height)
      BY <2>3, KeptClear
  <2> QED
      BY <2>2, <2>4
<1> QED
    BY <1>1, AlwaysPlaced, PTL
=============================================================================
