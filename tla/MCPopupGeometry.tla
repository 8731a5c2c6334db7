-------------------------- MODULE MCPopupGeometry --------------------------
(***************************************************************************)
(* PopupGeometry.tla on two screens side by side: the primary one with a   *)
(* panel at the bottom, the other with a bar at the top and at negative    *)
(* coordinates. The popups fit, just fit and do not fit; icons and pointers*)
(* lie in the panels, at the edges, in the middle and off every screen.    *)
(***************************************************************************)
EXTENDS PopupGeometry

Rect(x, y, width, height) == [x |-> x, y |-> y, width |-> width, height |-> height]

MCPrimary == [frame |-> Rect(0, 0, 120, 100), area |-> Rect(0, 0, 120, 90)]
MCScreens == {MCPrimary, [frame |-> Rect(-101, -7, 101, 81), area |-> Rect(-101, 4, 101, 70)]}
MCWholeArea == Rect(-101, 4, 221, 86)
MCSizes == [width : {0, 31, 104, 130}, height : {0, 18, 33, 54, 120}]
MCPointers == [x : {-200, -101, -50, -1, 0, 59, 119, 300},
               y : {-90, -7, 3, 38, 40, 45, 46, 73, 90, 99, 400}]
MCIcons == [x : {-101, -30, 0, 100}, y : {-7, 30, 38, 44, 85, 91},
            width : {0, 9}, height : {0, 8, 15}]
=============================================================================
