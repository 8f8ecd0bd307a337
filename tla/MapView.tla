------------------------------ MODULE MapView ------------------------------
(***************************************************************************)
(* The map of merchFuncs.js and map.html: where it is centred, the islands  *)
(* and commodity squares drawn on it, and the global cLat, which is the     *)
(* latitude the Lat box sets and also a temporary of getWaveValue.          *)
(*                                                                          *)
(* Only latitudes are modelled, counted in rows of islands (avgIslandDist); *)
(* cLng is never a temporary.  A drawn layer is the centre it was drawn     *)
(* about.  The fill of the squares and the positions of islands within      *)
(* their row are left out, renderDist and avgIslandDist are constant.       *)
(***************************************************************************)
EXTENDS Integers, Sequences, SequencesExt

CONSTANTS
    Order,          \* the commodities in the order of "for(commodityName in commodities)"
    Period,         \* Period[c]: 1 / freqs[2], rows in a wave of c
    Rows,           \* renderDist / avgIslandDist
    Lats,           \* latitudes that can be typed or clicked
    Start           \* cLat in the source

Commodities == ToSet(Order)
None == -1          \* a layer that is not drawn, no island clicked yet

ASSUME MapConstants ==
    /\ Order \in Seq(Commodities) /\ Order # <<>>
    /\ Period \in [Commodities -> Nat \ {0}]
    /\ Rows \in Nat \ {0} /\ Lats \subseteq Nat /\ Start \in Nat

VARIABLES
    box,            \* text of renderCenterLat
    cLat,
    center,
    shouldDrawIslands,
    islands,        \* centre of the drawn islands
    draw,           \* commodity.draw
    icons,          \* centre of the drawn squares of each commodity
    position        \* latitude of currentPosition

vars == <<box, cLat, center, shouldDrawIslands, islands, draw, icons, position>>

Init ==
    /\ box = Start /\ cLat = Start /\ center = Start
    /\ shouldDrawIslands = TRUE /\ islands = Start
    /\ draw = [c \in Commodities |-> FALSE]
    /\ icons = [c \in Commodities |-> None]
    /\ position = None

-----------------------------------------------------------------------------
\* Mutant: the latitude is rounded up to the next wave.
WaveLatUp(c, lat) == (lat - (lat % Period[c])) + Period[c]

\* What getWaveValue leaves in cLat after the last wave of c, looked up at lat.
WaveLat(c, lat) == lat - (lat % Period[c])

\* The last row of squares that createCommodities draws about a centre.
LastRow(at) == at + Rows - 1

\* The squares drawn last are those of the last commodity that is switched on.
LastDrawn ==
    CHOOSE i \in DOMAIN Order :
        draw[Order[i]] /\ \A j \in DOMAIN Order : draw[Order[j]] => j <= i

\* cLat after drawing the squares of all commodities about "at".
AfterSquares(at, before) ==
    IF \A c \in Commodities : ~draw[c] THEN before
    ELSE WaveLat(Order[LastDrawn], LastRow(at))

\* Mutant: redraw leaves the squares where they are.
CentredIslandsOnly(lat) ==
    /\ center' = lat
    /\ islands' = IF shouldDrawIslands THEN lat ELSE None
    /\ cLat' = lat
    /\ UNCHANGED <<icons, shouldDrawIslands, draw, position>>

\* updateRenderingValues, with cLat = lat: new centre, then redraw.
Centred(lat) ==
    /\ center' = lat
    /\ islands' = IF shouldDrawIslands THEN lat ELSE None
    /\ icons' = [c \in Commodities |-> IF draw[c] THEN lat ELSE None]
    /\ cLat' = AfterSquares(lat, lat)
    /\ UNCHANGED <<shouldDrawIslands, draw, position>>

\* A click on the map.
ClickMap(lat) == box' = lat /\ Centred(lat)

\* The button "Redraw".
Redraw == UNCHANGED box /\ Centred(cLat)

\* The box "Lat".
EditLat(lat) ==
    /\ box' = lat /\ cLat' = lat
    /\ UNCHANGED <<center, shouldDrawIslands, islands, draw, icons, position>>

\* The check box of the islands.
ToggleIslands ==
    /\ shouldDrawIslands' = ~shouldDrawIslands
    /\ islands' = IF shouldDrawIslands' THEN center ELSE None
    /\ UNCHANGED <<box, cLat, center, draw, icons, position>>

\* The check box of a commodity: createCommodities about the present centre.
ToggleCommodity(c) ==
    /\ draw' = [draw EXCEPT ![c] = ~@]
    /\ icons' = [icons EXCEPT ![c] = IF draw'[c] THEN center ELSE None]
    /\ cLat' = IF draw'[c] THEN WaveLat(c, LastRow(center)) ELSE cLat
    /\ UNCHANGED <<box, center, shouldDrawIslands, islands, position>>

\* A click on an island: updateInfoWindow looks up every price there.
ClickIsland(lat) ==
    /\ islands # None
    /\ lat \in (islands - Rows)..LastRow(islands) /\ lat >= 0
    /\ position' = lat
    /\ cLat' = WaveLat(Order[Len(Order)], lat)
    /\ UNCHANGED <<box, center, shouldDrawIslands, islands, draw, icons>>

\* Buy and Sell in the window, also when they refuse after the look-up of the
\* price, and "Advance time".  The window stays when its island is redrawn.
LookUp(c) ==
    /\ position # None
    /\ cLat' = WaveLat(c, position)
    /\ UNCHANGED <<box, center, shouldDrawIslands, islands, draw, icons, position>>

Next ==
    \/ \E lat \in Lats : ClickMap(lat)
    \/ \E lat \in Lats : EditLat(lat)
    \/ Redraw
    \/ ToggleIslands
    \/ \E c \in Commodities : ToggleCommodity(c)
    \/ \E lat \in Lats : ClickIsland(lat)
    \/ \E c \in Commodities : LookUp(c)

Spec == Init /\ [][Next]_vars

-----------------------------------------------------------------------------
\* Whatever was clicked, typed, looked up and switched on or off before, all
\* that is drawn is drawn about one centre, and it is drawn exactly when its
\* check box is set.
OneCentre ==
    /\ islands = IF shouldDrawIslands THEN center ELSE None
    /\ \A c \in Commodities : icons[c] = IF draw[c] THEN center ELSE None

\* With squares drawn, Redraw leaves in cLat a latitude at which every further
\* Redraw stays: the map does not creep when the button is pressed repeatedly
\* (merchFuncs.js:180-184 with :270), as long as the drawn area is shorter than
\* a wave.
RedrawSettles ==
    [][Redraw => AfterSquares(cLat', cLat') = cLat']_vars
=============================================================================
