--------------------------- MODULE PopupGeometry ---------------------------
(***************************************************************************)
(* Where the tray popup opens: positionPopup (qml/Main.qml) where a client *)
(* may place its window, and popupPosition of the GNOME Shell extension and*)
(* of the KWin script under Wayland, which have a pointer instead of the   *)
(* tray icon's rectangle: an icon of no size. Rectangles are in whole      *)
(* pixels, positions in half pixels, so that the code's halves are integers.*)
(***************************************************************************)
EXTENDS Integers

CONSTANTS Screens,     \* screens: their rectangle, and the work area inside it
          Primary,     \* the primary one
          WholeArea,   \* KWin.WorkArea: all screens together, less the panels at the
                       \* edges of the whole
          Sizes,       \* sizes the popup may have
          Icons,       \* rectangles the tray icon may have
          Pointers     \* places the pointer may have

IsRectangle(r) == r.x \in Int /\ r.y \in Int /\ r.width \in Nat /\ r.height \in Nat

ASSUME GeometryAssumption ==
    /\ Primary \in Screens
    /\ \A screen \in Screens : IsRectangle(screen.frame) /\ IsRectangle(screen.area)
    /\ IsRectangle(WholeArea)
    /\ \A s \in Sizes : s.width \in Nat /\ s.height \in Nat
    /\ \A icon \in Icons : IsRectangle(icon)
    /\ \A p \in Pointers : p.x \in Int /\ p.y \in Int

VARIABLES placer,      \* what placed the popup
          anchor,      \* what the popup was placed at: an icon or a pointer
          anchored,    \* whether the code knew of it
          area,        \* the area it was placed in
          size,        \* its size
          position     \* its top left corner

vars == <<placer, anchor, anchored, area, size, position>>

(***************************************************************************)
(* The arithmetic                                                          *)
(***************************************************************************)
Margin == 8

Larger(a, b) == IF a < b THEN b ELSE a
Smaller(a, b) == IF a < b THEN a ELSE b

\* Mutant: the far side is seen to last.
KeptAtFarSide(start, length, wanted, extent) ==
    Smaller(2 * (start + length - extent - Margin), Larger(2 * (start + Margin), wanted))
\* A place along one axis, kept in the area; of a popup larger than the area it is
\* the top left corner that is kept.
Kept(start, length, wanted, extent) ==
    Larger(2 * (start + Margin), Smaller(wanted, 2 * (start + length - extent - Margin)))

KeptIn(a, x, y, s) == [x |-> Kept(a.x, a.width, x, s.width), y |-> Kept(a.y, a.height, y, s.height)]

\* Mutant: the popup's own height is left out above the icon.
CornerAt(icon, s, a) ==
    KeptIn(a, 2 * icon.x + icon.width - s.width,
           IF 2 * icon.y + icon.height > 2 * a.y + a.height
           THEN 2 * (icon.y - Margin)
           ELSE 2 * (icon.y + icon.height + Margin), s)
\* Centred on the icon, towards the middle of the area: above an icon in its lower
\* half, below one in its upper half.
PositionAt(icon, s, a) ==
    KeptIn(a, 2 * icon.x + icon.width - s.width,
           IF 2 * icon.y + icon.height > 2 * a.y + a.height
           THEN 2 * (icon.y - s.height - Margin)
           ELSE 2 * (icon.y + icon.height + Margin), s)

\* The corner of the area the tray is likely in: the top one on macOS.
PositionInCorner(s, a, atTop) ==
    KeptIn(a, 2 * (a.x + a.width - s.width - Margin),
           IF atTop THEN 2 * (a.y + Margin) ELSE 2 * (a.y + a.height - s.height - Margin), s)

\* The rectangle's middle, rounded to the integers QPoint holds.
Middles(r) == {[x |-> r.x + (r.width + i) \div 2, y |-> r.y + (r.height + j) \div 2] : i, j \in 0..1}

Contains(r, p) == /\ r.x <= p.x /\ p.x < r.x + r.width
                  /\ r.y <= p.y /\ p.y < r.y + r.height

\* availableGeometryAt
AvailableGeometryAt(p) ==
    IF \E screen \in Screens : Contains(screen.frame, p)
    THEN {screen.area : screen \in {s \in Screens : Contains(s.frame, p)}}
    ELSE {Primary.area}

\* No icon and no pointer is there.
Nowhere == [x |-> 0, y |-> 0, width |-> -1, height |-> 0]

(***************************************************************************)
(* The popup is shown                                                      *)
(***************************************************************************)
\* positionPopup, with a rectangle from the tray.
PlaceAtIcon(icon, s) ==
    /\ icon.width > 0 /\ icon.height > 0
    /\ placer' = "window"
    /\ anchor' = icon
    /\ anchored' = TRUE
    /\ size' = s
    /\ \E p \in Middles(icon) : area' \in AvailableGeometryAt(p)
    /\ position' = PositionAt(icon, s, area')

\* positionPopup, without one.
PlaceInCorner(icon, s) ==
    /\ icon.width = 0 \/ icon.height = 0
    /\ placer' = "window"
    /\ anchor' = icon
    /\ anchored' = FALSE
    /\ size' = s
    /\ area' = Primary.area
    /\ \E atTop \in BOOLEAN : position' = PositionInCorner(s, area', atTop)

PlaceAtPointer(p, s) ==
    /\ anchor' = [x |-> p.x, y |-> p.y, width |-> 0, height |-> 0]
    /\ anchored' = TRUE
    /\ size' = s
    /\ position' = PositionAt(anchor', s, area')

\* The extension's onMap: a pointer on no screen leaves the choice of the screen to
\* the shell.
PlaceByExtension(p, s) ==
    /\ placer' = "extension"
    /\ area' \in IF \E screen \in Screens : Contains(screen.frame, p)
                 THEN AvailableGeometryAt(p)
                 ELSE {screen.area : screen \in Screens}
    /\ PlaceAtPointer(p, s)

\* The script's placePopup: the area is the same for every screen it asks about.
PlaceByScript(p, s) ==
    /\ placer' = "script"
    /\ area' = WholeArea
    /\ PlaceAtPointer(p, s)

Place == /\ anchor = Nowhere
         /\ \E s \in Sizes : \/ \E icon \in Icons : PlaceAtIcon(icon, s) \/ PlaceInCorner(icon, s)
                             \/ \E p \in Pointers : PlaceByExtension(p, s) \/ PlaceByScript(p, s)

\* A hidden popup is an empty rectangle in a corner; the next place does not depend
\* on the last.
Init == /\ placer = "none"
        /\ anchor = Nowhere
        /\ anchored = FALSE
        /\ size = [width |-> 0, height |-> 0]
        /\ area = Primary.area
        /\ position = PositionInCorner(size, area, FALSE)

Hide == /\ anchor # Nowhere
        /\ placer' = "none"
        /\ anchor' = Nowhere
        /\ anchored' = FALSE
        /\ size' = [width |-> 0, height |-> 0]
        /\ area' = Primary.area
        /\ position' = PositionInCorner(size', area', FALSE)

Next == Place \/ Hide

Spec == Init /\ [][Next]_vars

(***************************************************************************)
(* Properties                                                              *)
(***************************************************************************)
Fits(extent, length) == extent + 2 * Margin <= length

\* A popup that fits into the area it is placed in lies in it with a margin on every
\* side, whatever the tray reports and wherever the pointer is; one that does not fit
\* keeps its top left corner there. The window and the GNOME extension place it in the
\* work area of one screen, where it never covers the panel, the taskbar or the menu
\* bar. The KWin script places it in the area of all screens together: with several
\* it may lie across two of them, or on a panel between them.
InsideWorkArea ==
    /\ placer # "script" => area \in {screen.area : screen \in Screens}
    /\ position.x >= 2 * (area.x + Margin)
    /\ position.y >= 2 * (area.y + Margin)
    /\ Fits(size.width, area.width) =>
          position.x + 2 * size.width <= 2 * (area.x + area.width - Margin)
    /\ Fits(size.height, area.height) =>
          position.y + 2 * size.height <= 2 * (area.y + area.height - Margin)

\* Where half of the work area has room for the popup it opens clear of the icon
\* or the pointer, above or below it: keeping it in the area never pushes it back
\* under the click that opened it.
ClearOfAnchor ==
    anchored /\ 2 * (size.height + 2 * Margin) + anchor.height <= area.height =>
        \/ position.y + 2 * size.height <= 2 * anchor.y
        \/ position.y >= 2 * (anchor.y + anchor.height)
=============================================================================
