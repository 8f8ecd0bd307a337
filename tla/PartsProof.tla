------------------------------ MODULE PartsProof ------------------------------
(***************************************************************************)
(* Theorems about the smaller parts: the map for all commodities, waves and *)
(* latitudes, the phone application for every number of buttons and islands *)
(* and every size of the screen, references for any number of places,       *)
(* finalizers for any number of userdata and of finalizers in each other,   *)
(* string buffers of any size for strings of any lengths, and the library's *)
(* operations on lists of any length.                                       *)
(***************************************************************************)
EXTENDS MapView, Parts, Induction, SequenceTheorems, TLAPS

-----------------------------------------------------------------------------
(* The map: one centre.                                                     *)

MapInv ==
    /\ draw \in [Commodities -> BOOLEAN]
    /\ icons \in [Commodities -> Int \cup {center, None}]
    /\ OneCentre

\* The invariant of the map holds at first.
LEMMA MapInit == Init => MapInv
BY DEF Init, MapInv, OneCentre, None

\* No step of the map breaks it.
LEMMA MapStep == MapInv /\ [Next]_vars => MapInv'
<1> SUFFICES ASSUME MapInv, [Next]_vars
             PROVE  MapInv'
  OBVIOUS
<1> USE DEF MapInv, OneCentre
<1>1. ASSUME NEW lat, Centred(lat)
      PROVE  MapInv'
  BY <1>1 DEF Centred
<1>2. CASE \E lat \in Lats : ClickMap(lat)
  BY <1>1, <1>2 DEF ClickMap
<1>3. CASE \E lat \in Lats : EditLat(lat)
  BY <1>3 DEF EditLat
<1>4. CASE Redraw
  BY <1>1, <1>4 DEF Redraw
<1>5. CASE ToggleIslands
  BY <1>5 DEF ToggleIslands
<1>6. ASSUME NEW c \in Commodities, ToggleCommodity(c)
      PROVE  MapInv'
  BY <1>6 DEF ToggleCommodity
<1>7. CASE \E lat \in Lats : ClickIsland(lat)
  BY <1>7 DEF ClickIsland
<1>8. CASE \E c \in Commodities : LookUp(c)
  BY <1>8 DEF LookUp
<1>9. CASE UNCHANGED vars
  BY <1>9 DEF vars
<1> QED
  BY <1>2, <1>3, <1>4, <1>5, <1>6, <1>7, <1>8, <1>9 DEF Next

\* redraw, createIslands and createCommodities keep every layer about the
\* centre of the map, whatever the order of the handlers.
THEOREM LayersShareTheCentre == Spec => []OneCentre
<1>1. MapInv => OneCentre
  BY DEF MapInv
<1> QED
  BY MapInit, MapStep, <1>1, PTL DEF Spec

-----------------------------------------------------------------------------
(* The map: Redraw settles.                                                 *)

\* A multiple of p is the only one in the p numbers from it on.
LEMMA OneMultiple ==
    ASSUME NEW p \in Nat \ {0}, NEW q \in Int, NEW r \in 0..(p - 1)
    PROVE  (p * q + r) % p = r
<1> DEFINE x == p * q + r
           d == x \div p
           m == x % p
<1>1. /\ x \in Int /\ d \in Int /\ m \in 0..(p - 1)
      /\ x = p * d + m
  OBVIOUS
<1>2. p * (q - d) = m - r
  BY <1>1
<1>3. q - d = 0
  <2>1. CASE q - d >= 1
    <3>1. p * (q - d) >= p
      BY <1>1, <2>1
    <3> QED
      BY <3>1, <1>1, <1>2
  <2>2. CASE q - d <= -1
    <3>1. p * (q - d) <= -p
      BY <1>1, <2>2
    <3> QED
      BY <3>1, <1>1, <1>2
  <2> QED
    BY <1>1, <2>1, <2>2
<1> QED
  BY <1>1, <1>2, <1>3

\* The start of a wave is where getWaveValue puts any row of that wave.
LEMMA WaveStartStays ==
    ASSUME NEW c \in Commodities, NEW lat \in Int, Rows <= Period[c]
    PROVE  WaveLat(c, LastRow(WaveLat(c, lat))) = WaveLat(c, lat)
<1> DEFINE p == Period[c]
           q == lat \div p
<1>1. p \in Nat \ {0} /\ Rows \in 1..p
  BY MapConstants
<1> HIDE DEF p
<1>2. q \in Int /\ WaveLat(c, lat) = p * q
  BY <1>1 DEF WaveLat, p
<1> HIDE DEF q
<1>3. LastRow(p * q) = p * q + (Rows - 1)
  BY <1>1, <1>2 DEF LastRow
<1>4. (p * q + (Rows - 1)) % p = Rows - 1
  BY <1>1, <1>2, OneMultiple
<1>5. p * q \in Int
  BY <1>1, <1>2
<1> QED
  BY <1>1, <1>2, <1>3, <1>4, <1>5 DEF WaveLat, p

\* If any commodity is drawn, the last of them is one.
LEMMA LastDrawnIsDrawn ==
    ASSUME ~(\A c \in Commodities : ~draw[c])
    PROVE  Order[LastDrawn] \in Commodities
<1> DEFINE D == {i \in DOMAIN Order : draw[Order[i]]}
<1>1. /\ DOMAIN Order = 1..Len(Order) /\ Len(Order) \in Nat
      /\ \A i \in DOMAIN Order : Order[i] \in Commodities
      /\ \A c \in Commodities : \E i \in DOMAIN Order : c = Order[i]
  BY MapConstants DEF Commodities, ToSet
<1>2. D \subseteq 1..Len(Order) /\ D # {}
  BY <1>1
<1>3. \E i \in D : \A j \in D : j <= i
  BY <1>1, <1>2, Greatest
<1>4. \E i \in DOMAIN Order :
         draw[Order[i]] /\ \A j \in DOMAIN Order : draw[Order[j]] => j <= i
  BY <1>3
<1>5. LastDrawn \in DOMAIN Order
  BY <1>4 DEF LastDrawn
<1> QED
  BY <1>1, <1>5

\* The latitudes are numbers.
Numbers == cLat \in Int /\ center \in Int /\ position \in Int

\* What the waves compute is a number.
LEMMA WaveLatIsNumber ==
    ASSUME NEW c \in Commodities, NEW lat \in Int
    PROVE  WaveLat(c, lat) \in Int /\ LastRow(lat) \in Int
BY MapConstants DEF WaveLat, LastRow

\* What the squares leave in cLat is a number.
LEMMA AfterSquaresIsNumber ==
    ASSUME NEW lat \in Int
    PROVE  AfterSquares(lat, lat) \in Int
BY LastDrawnIsDrawn, WaveLatIsNumber DEF AfterSquares

\* They are at first.
LEMMA NumbersInit == Init => Numbers
BY MapConstants DEF Init, Numbers, None

\* They stay numbers.
LEMMA NumbersStep == Numbers /\ [Next]_vars => Numbers'
<1> SUFFICES ASSUME Numbers, [Next]_vars
             PROVE  Numbers'
  OBVIOUS
<1> USE DEF Numbers
<1> Lats \subseteq Nat /\ Order[Len(Order)] \in Commodities
  BY MapConstants
<1>1. ASSUME NEW lat \in Int, Centred(lat)
      PROVE  Numbers'
  BY <1>1, AfterSquaresIsNumber DEF Centred
<1>2. CASE \E lat \in Lats : ClickMap(lat)
  BY <1>1, <1>2 DEF ClickMap
<1>3. CASE \E lat \in Lats : EditLat(lat)
  BY <1>3 DEF EditLat
<1>4. CASE Redraw
  BY <1>1, <1>4 DEF Redraw
<1>5. CASE ToggleIslands
  BY <1>5 DEF ToggleIslands
<1>6. CASE \E c \in Commodities : ToggleCommodity(c)
  BY <1>6, WaveLatIsNumber DEF ToggleCommodity
<1>7. CASE \E lat \in Lats : ClickIsland(lat)
  BY <1>7, WaveLatIsNumber DEF ClickIsland
<1>8. CASE \E c \in Commodities : LookUp(c)
  BY <1>8, WaveLatIsNumber DEF LookUp
<1>9. CASE UNCHANGED vars
  BY <1>9 DEF vars
<1> QED
  BY <1>2, <1>3, <1>4, <1>5, <1>6, <1>7, <1>8, <1>9 DEF Next

\* A second Redraw stays where the first one has left cLat: the map does not
\* creep while the drawn rows are not more than a wave.
THEOREM RedrawDoesNotCreep ==
    ASSUME \A c \in Commodities : Rows <= Period[c]
    PROVE  Spec => RedrawSettles
<1>1. Numbers /\ Redraw => AfterSquares(cLat', cLat') = cLat'
  <2> SUFFICES ASSUME Numbers, Redraw
               PROVE  AfterSquares(cLat', cLat') = cLat'
    OBVIOUS
  <2>1. cLat' = AfterSquares(cLat, cLat) /\ cLat \in Int
    BY DEF Redraw, Centred, Numbers
  <2>2. CASE \A c \in Commodities : ~draw[c]
    BY <2>1, <2>2 DEF AfterSquares
  <2>3. CASE ~(\A c \in Commodities : ~draw[c])
    <3>1. Order[LastDrawn] \in Commodities
      BY <2>3, LastDrawnIsDrawn
    <3>2. cLat' = WaveLat(Order[LastDrawn], LastRow(cLat))
      BY <2>1, <2>3 DEF AfterSquares
    <3>3. AfterSquares(cLat', cLat') = WaveLat(Order[LastDrawn], LastRow(cLat'))
      BY <2>3 DEF AfterSquares
    <3> QED
      BY <2>1, <3>1, <3>2, <3>3, WaveStartStays, WaveLatIsNumber
  <2> QED
    BY <2>2, <2>3
<1>2. Numbers /\ [Next]_vars => [Redraw => AfterSquares(cLat', cLat') = cLat']_vars
  BY <1>1
<1> QED
  BY NumbersInit, NumbersStep, <1>2, PTL DEF Spec, RedrawSettles

-----------------------------------------------------------------------------
(* The phone: invariants.                                                   *)

\* newCoords runs only for a qualified fix, which comes only after the timer.
FixesFollowTimer == (~P!Idle => fixes) /\ (fixes => locating)
\* Once locations are on, the script knows the size of the screen for good.
SizeIsKnown == locating => screen \in ScreenSizes /\ mapSize = screen
\* The function and its two arguments lie on the stack while it runs.
StackOfCall == top = IF P!Idle THEN P!Base ELSE P!Base + 3
\* The islands the script has placed since the last fix.
Shown == IF P!Idle THEN Marks ELSE placed
\* They are on the first buttons, and the others are invisible.
ButtonsInOrder ==
    fixes => \A i \in P!Button : buttons[i] = IF i <= Shown THEN <<i, screen>> ELSE P!Hidden
PhoneInv == P!TypeOK /\ FixesFollowTimer /\ SizeIsKnown /\ StackOfCall /\ ButtonsInOrder

-----------------------------------------------------------------------------
(* The phone: addIsland.                                                    *)

\* With the first k buttons visible and the others not, addIsland takes button
\* k + 1 (Renderer::addIsland, the loop that stops at the first invisible one).
LEMMA AddIslandTakesNext ==
    ASSUME P!PhoneConstants, P!TypeOK, NEW k \in Nat, k < MAX_ISLANDS,
           \A i \in P!Button : buttons[i] = P!Hidden <=> i > k,
           NEW place, P!AddIsland(place)
    PROVE  buttons' = [buttons EXCEPT ![k + 1] = place]
<1> DEFINE free == {i \in P!Button : buttons[i] = P!Hidden}
<1> DEFINE first == CHOOSE i \in free : \A j \in free : i <= j
<1>1. free = {i \in P!Button : i > k}
  OBVIOUS
<1>2. k + 1 \in free
  BY <1>1 DEF P!Button, P!PhoneConstants
<1>3. \A j \in free : k + 1 <= j
  BY <1>1 DEF P!Button, P!PhoneConstants
<1>4. first \in free /\ \A j \in free : first <= j
  BY <1>2, <1>3
<1> HIDE DEF first, free
<1>5. first = k + 1
  <2>1. first <= k + 1 /\ k + 1 <= first
    BY <1>2, <1>3, <1>4
  <2>2. first \in Nat
    BY <1>1, <1>4 DEF P!Button, P!PhoneConstants
  <2> QED
    BY <2>1, <2>2
<1>6. buttons' = IF free = {} THEN buttons ELSE [buttons EXCEPT ![first] = place]
  BY DEF P!AddIsland, free, first
<1> QED
  BY <1>2, <1>5, <1>6

-----------------------------------------------------------------------------
(* The phone: the invariant.                                                *)

\* The invariant of the phone holds at first.
LEMMA PhoneInit == ASSUME P!PhoneConstants PROVE P!Init => PhoneInv
<1> SUFFICES ASSUME P!Init PROVE PhoneInv
  OBVIOUS
<1> USE DEF P!PhoneConstants, P!Init
<1>1. [i \in P!Button |-> P!Hidden] \in [P!Button -> (0..Marks) \X (ScreenSizes \cup {NoSize})]
  BY DEF P!Hidden
<1>2. P!TypeOK
  <2>1. running \in BOOLEAN /\ timer \in BOOLEAN /\ locating \in BOOLEAN /\ fixes \in BOOLEAN
    BY Zenon
  <2>2. placed \in 0..(Marks + 1) /\ top \in Nat
    BY DEF P!Base
  <2> QED
    BY <1>1, <2>1, <2>2 DEF P!TypeOK
<1>3. FixesFollowTimer /\ SizeIsKnown /\ StackOfCall /\ ButtonsInOrder
  BY DEF FixesFollowTimer, SizeIsKnown, StackOfCall, ButtonsInOrder, P!Idle
<1> QED
  BY <1>2, <1>3 DEF PhoneInv

\* The script puts an island on the next button.
LEMMA NewIslandPreserves ==
    ASSUME P!PhoneConstants, PhoneInv, P!NewIsland PROVE PhoneInv'
<1> USE DEF P!PhoneConstants
<1>1. P!TypeOK /\ placed < Marks /\ ~P!Idle /\ placed \in Nat
  BY DEF PhoneInv, P!TypeOK, P!NewIsland, P!Idle
<1>2. fixes /\ locating /\ mapSize = screen /\ screen \in ScreenSizes /\ mapSize # Unset
  BY <1>1 DEF PhoneInv, FixesFollowTimer, SizeIsKnown
<1>3. /\ placed' = placed + 1 /\ P!AddIsland(<<placed + 1, screen>>)
      /\ UNCHANGED <<running, screen, timer, locating, mapSize, fixes, top>>
  BY <1>2 DEF P!NewIsland
<1>4. ~P!Idle'
  BY <1>1, <1>3 DEF P!Idle
<1>5. Shown = placed /\ Shown' = placed + 1
  BY <1>1, <1>3, <1>4 DEF Shown
<1>6. \A i \in P!Button : buttons[i] = IF i <= placed THEN <<i, screen>> ELSE P!Hidden
  BY <1>2, <1>5 DEF PhoneInv, ButtonsInOrder
<1>7. \A i \in P!Button : buttons[i] = P!Hidden <=> i > placed
  <2> SUFFICES ASSUME NEW i \in P!Button PROVE buttons[i] = P!Hidden <=> i > placed
    OBVIOUS
  <2>1. i \in Nat /\ i # 0
    BY DEF P!Button
  <2>2. <<i, screen>> # P!Hidden
    BY <2>1 DEF P!Hidden
  <2>3. buttons[i] = IF i <= placed THEN <<i, screen>> ELSE P!Hidden
    BY <1>6
  <2> QED
    BY <1>1, <2>1, <2>2, <2>3
<1>8. buttons' = [buttons EXCEPT ![placed + 1] = <<placed + 1, screen>>]
  BY <1>1, <1>3, <1>7, AddIslandTakesNext
<1>9. P!TypeOK'
  BY <1>1, <1>2, <1>3, <1>8 DEF P!TypeOK, P!Button
<1>10. FixesFollowTimer' /\ SizeIsKnown'
  BY <1>2, <1>3 DEF FixesFollowTimer, SizeIsKnown
<1>11. StackOfCall'
  BY <1>1, <1>3, <1>4 DEF PhoneInv, StackOfCall, P!Base
<1>12. ButtonsInOrder'
  <2> SUFFICES ASSUME NEW i \in P!Button
               PROVE buttons'[i] = IF i <= placed + 1 THEN <<i, screen>> ELSE P!Hidden
    BY <1>3, <1>5 DEF ButtonsInOrder, P!Button, P!Hidden
  <2>1. i \in Nat /\ buttons \in [P!Button -> (0..Marks) \X (ScreenSizes \cup {NoSize})]
    BY <1>1 DEF P!Button, P!TypeOK
  <2>2. buttons'[i] = IF i = placed + 1 THEN <<placed + 1, screen>> ELSE buttons[i]
    BY <1>8, <2>1
  <2> QED
    BY <1>1, <1>6, <2>1, <2>2
<1> QED
  BY <1>9, <1>10, <1>11, <1>12 DEF PhoneInv

\* Each action preserves the invariant.
LEMMA PhoneStep ==
    ASSUME P!PhoneConstants, LayoutInTime, PhoneInv, [P!Next]_P!vars PROVE PhoneInv'
<1> USE DEF P!PhoneConstants, PhoneInv
<1>1. CASE P!Layout
  <2>1. ~locating /\ ~fixes /\ P!Idle
    BY <1>1 DEF P!Layout, SizeIsKnown, FixesFollowTimer, P!TypeOK, P!Idle
  <2> QED
    BY <1>1, <2>1 DEF P!Layout, P!TypeOK, FixesFollowTimer, SizeIsKnown, StackOfCall, ButtonsInOrder, P!Idle
<1>2. CASE P!RunTimerEvent
  <2>1. screen \in ScreenSizes
    BY <1>2 DEF P!RunTimerEvent, P!TypeOK
  <2> QED
    BY <1>2, <2>1 DEF P!RunTimerEvent, P!TypeOK, FixesFollowTimer, SizeIsKnown, StackOfCall,
                      ButtonsInOrder, Shown, P!Idle, P!Button, P!Hidden
<1>3. CASE P!OtherFix \/ UNCHANGED P!vars
  <2> SUFFICES ASSUME UNCHANGED P!vars PROVE PhoneInv'
    BY <1>3 DEF P!OtherFix
  <2>1. P!TypeOK'
    BY DEF P!vars, P!TypeOK, P!Button
  <2>2. FixesFollowTimer' /\ SizeIsKnown' /\ StackOfCall'
    BY DEF P!vars, FixesFollowTimer, SizeIsKnown, StackOfCall, P!Idle, P!Base
  <2>3. ButtonsInOrder'
    BY DEF P!vars, ButtonsInOrder, Shown, P!Idle, P!Button, P!Hidden
  <2> QED
    BY <2>1, <2>2, <2>3
<1>4. CASE P!NewCoord
  <2>1. P!Idle /\ ~P!Idle' /\ Shown' = 0
    BY <1>4 DEF P!NewCoord, P!Idle, Shown
  <2>2. P!TypeOK' /\ StackOfCall'
    BY <1>4, <2>1 DEF P!NewCoord, P!ClearIslands, P!TypeOK, StackOfCall, P!Base, P!Hidden, P!Button
  <2>3. FixesFollowTimer' /\ SizeIsKnown'
    BY <1>4 DEF P!NewCoord, FixesFollowTimer, SizeIsKnown
  <2>4. ButtonsInOrder'
    BY <1>4, <2>1 DEF P!NewCoord, P!ClearIslands, ButtonsInOrder, P!Button, P!Hidden
  <2> QED
    BY <2>2, <2>3, <2>4
<1>5. CASE P!NewIsland
  BY <1>5, NewIslandPreserves
<1>6. CASE P!NewCoordsReturns
  <2>1. ~P!Idle /\ P!Idle' /\ Shown = Marks /\ Shown' = Marks
    BY <1>6 DEF P!NewCoordsReturns, P!Idle, Shown, P!TypeOK
  <2> QED
    BY <1>6, <2>1 DEF P!NewCoordsReturns, P!TypeOK, FixesFollowTimer, SizeIsKnown, StackOfCall, P!Base,
                      ButtonsInOrder, P!Button, P!Hidden
<1>7. CASE P!Close
  BY <1>7 DEF P!Close, P!TypeOK, FixesFollowTimer, SizeIsKnown, StackOfCall, ButtonsInOrder,
              Shown, P!Idle, P!Button, P!Hidden
<1> QED
  BY <1>1, <1>2, <1>3, <1>4, <1>5, <1>6, <1>7 DEF P!Next

-----------------------------------------------------------------------------
\* If the screen has its size when the timer fires, then whatever fixes arrive
\* and however many buttons there are beyond the script's islands, the buttons
\* show the islands of the last fix for the size of the screen, and no event
\* leaves anything on the Lua stack (newCoord, addIsland, runTimerEvent).
THEOREM FixIsShown ==
    ASSUME LayoutInTime PROVE P!Spec => []FixShowsItsIslands
<1>1. P!PhoneConstants
  BY PartsConstants
<1>2. P!Init => PhoneInv
  BY <1>1, PhoneInit
<1>3. PhoneInv /\ [P!Next]_P!vars => PhoneInv'
  BY <1>1, PhoneStep
<1>4. PhoneInv => FixShowsItsIslands
  BY DEF PhoneInv, StackOfCall, ButtonsInOrder, Shown, FixShowsItsIslands,
         P!FixShowsItsIslands, P!StackKept
<1> QED
  BY <1>2, <1>3, <1>4, PTL DEF P!Spec

-----------------------------------------------------------------------------
(* References: the list of free places.                                      *)

Place == 1..MaxRef
References == {h[1] : h \in held}

\* What entry 0 (i = 0) or the i-th free place of q holds: the number of the next.
Link(q, i) == IF i < Len(q) THEN R!Number(q[i + 1]) ELSE R!Nil

\* q are the free places in the order of the list, none twice and none in use.
FreePlaces(q) ==
    /\ q \in Seq(Place)
    /\ \A i, j \in 1..Len(q) : q[i] = q[j] => i = j
    /\ \A i \in 1..Len(q) : q[i] \notin References
    /\ entries[0] = Link(q, 0) /\ \A i \in 1..Len(q) : entries[q[i]] = Link(q, i)

RefInv ==
    /\ entries \in [0..MaxRef -> UNION {Values, {R!Nil}, {R!Number(n) : n \in Place}}]
    /\ held \subseteq Place \X Values
    /\ \E q : FreePlaces(q)
    /\ RefsFindTheirValues

\* Entry 0 names the first free place, and one after the end is never in use.
LEMMA CandidateIsFree ==
    ASSUME RefInv, NEW q, FreePlaces(q), NEW ref \in R!Candidates
    PROVE  /\ ref \in Place \ References
           /\ \/ q # <<>> /\ R!First = ref /\ ref = q[1] /\ entries[ref] = Link(q, 1)
              \/ q = <<>> /\ R!First = 0
  <1>0. R!RefConstants
    BY PartsConstants
  <1> USE <1>0 DEF R!RefConstants
  <1>1. MaxRef \in Nat /\ \A v \in Values : v # R!Nil
    OBVIOUS
  <1>2. CASE q = <<>>
    <2>1. entries[0] = R!Nil
      BY <1>2 DEF FreePlaces, Link
    <2>2. R!First = 0
      BY <2>1 DEF R!First, R!FREELIST_REF, R!ToInteger
    <2>3. PICK n \in R!Boundaries(entries) \ {MaxRef} : ref = n + 1
      BY <2>2 DEF R!Candidates
    <2>4. n \in 0..MaxRef /\ n # MaxRef /\ entries[n + 1] = R!Nil
      BY <2>3 DEF R!Boundaries
    <2>5. ref \in Place /\ entries[ref] = R!Nil
      BY <1>1, <2>3, <2>4 DEF Place
    <2>6. \A h \in held : h[1] # ref
      BY <1>1, <2>5 DEF RefInv, RefsFindTheirValues, R!RefsFindTheirValues
    <2> QED BY <1>2, <2>2, <2>5, <2>6 DEF References
  <1>3. CASE q # <<>>
    <2>1. Len(q) \in Nat /\ Len(q) >= 1 /\ q[1] \in Place
      BY <1>3 DEF FreePlaces
    <2>2. entries[0] = <<"number", q[1]>>
      BY <2>1 DEF FreePlaces, Link, R!Number
    <2>3. <<"number", q[1]>> # R!Nil
      BY DEF R!Nil
    <2>4. R!First = q[1]
      BY <2>2, <2>3 DEF R!First, R!FREELIST_REF, R!ToInteger
    <2>5. q[1] # 0
      BY <2>1 DEF Place
    <2>6. ref = q[1]
      BY <2>4, <2>5 DEF R!Candidates
    <2>7. q[1] \notin References /\ entries[q[1]] = Link(q, 1)
      BY <2>1 DEF FreePlaces
    <2> QED BY <1>3, <2>1, <2>4, <2>6, <2>7
  <1> QED BY <1>2, <1>3

\* luaL_ref takes the first place off the list, or one that was never on it.
LEMMA RefKeeps ==
    ASSUME RefInv, NEW v \in Values, R!Ref(v)
    PROVE  RefInv'
  <1>0. R!RefConstants
    BY PartsConstants
  <1> USE <1>0 DEF R!RefConstants
  <1>1. PICK q : FreePlaces(q)
    BY DEF RefInv
  <1>2. PICK ref \in R!Candidates :
            /\ entries' = [IF R!First # 0 THEN [entries EXCEPT ![0] = entries[R!First]] ELSE entries
                             EXCEPT ![ref] = v]
            /\ held' = held \cup {<<ref, v>>}
    BY DEF R!Ref, R!FREELIST_REF
  <1>3. /\ ref \in Place /\ ref \notin References
        /\ \/ q # <<>> /\ R!First = ref /\ ref = q[1] /\ entries[ref] = Link(q, 1)
           \/ q = <<>> /\ R!First = 0
    BY <1>1, CandidateIsFree
  <1> DEFINE Entries == UNION {Values, {R!Nil}, {R!Number(n) : n \in Place}}
             r == IF q = <<>> THEN q ELSE Tail(q)
  <1>4. /\ entries \in [0..MaxRef -> Entries] /\ v \in Entries /\ ref # 0 /\ ref \in 0..MaxRef
        /\ 0 \in 0..MaxRef /\ MaxRef \in Nat
    BY <1>3 DEF RefInv, Place
  <1> HIDE DEF Entries
  <1>5. /\ entries' \in [0..MaxRef -> Entries] /\ entries'[ref] = v
        /\ entries'[0] = IF q = <<>> THEN entries[0] ELSE Link(q, 1)
        /\ \A n \in Place : n # ref => entries'[n] = entries[n]
    <2>1. CASE q = <<>>
      BY <1>2, <1>3, <1>4, <2>1 DEF Place
    <2>2. CASE q # <<>>
      BY <1>2, <1>3, <1>4, <2>2 DEF Place
    <2> QED BY <2>1, <2>2
  <1>6. held' \subseteq Place \X Values /\ References' = References \cup {ref}
    <2>1. <<ref, v>> \in Place \X Values /\ <<ref, v>>[1] = ref
      BY <1>3
    <2>2. held' \subseteq Place \X Values
      BY <1>2, <2>1 DEF RefInv
    <2> QED BY <1>2, <2>1, <2>2 DEF References
  <1>7. /\ r \in Seq(Place) /\ Len(r) \in Nat /\ Len(q) \in Nat
        /\ q # <<>> => Len(q) = Len(r) + 1 /\ \A i \in 1..Len(r) : r[i] = q[i + 1]
        /\ q = <<>> => r = q /\ Len(r) = 0
    BY <1>1 DEF FreePlaces
  <1>8. FreePlaces(r)'
    <2>1. CASE q = <<>>
      <3>1. entries'[0] = entries[0] /\ Len(r) = 0 /\ r = q /\ Link(r, 0) = Link(q, 0)
        BY <1>5, <1>7, <2>1
      <3> QED BY <1>1, <1>7, <3>1 DEF FreePlaces
    <2>2. CASE q # <<>>
      <3> HIDE DEF r
      <3>1. \A i \in 1..Len(r) : i + 1 \in 1..Len(q) /\ 1 \in 1..Len(q) /\ i + 1 # 1
        BY <1>7, <2>2
      <3>2. \A i, j \in 1..Len(r) : r[i] = r[j] => i = j
        BY <1>1, <1>7, <2>2, <3>1 DEF FreePlaces
      <3>3. \A i \in 1..Len(r) : r[i] \in Place /\ r[i] # ref /\ r[i] \notin References'
        BY <1>1, <1>3, <1>6, <1>7, <2>2, <3>1 DEF FreePlaces
      <3>4. \A i \in 0..Len(r) : Link(r, i) = Link(q, i + 1)
        BY <1>7, <2>2 DEF Link
      <3>5. entries'[0] = Link(r, 0) /\ \A i \in 1..Len(r) : entries'[r[i]] = Link(r, i)
        <4>1. entries'[0] = Link(q, 1) /\ Link(r, 0) = Link(q, 1)
          BY <1>5, <1>7, <2>2, <3>4
        <4>2. \A i \in 1..Len(r) : entries[q[i + 1]] = Link(q, i + 1) /\ r[i] = q[i + 1]
          BY <1>1, <1>7, <2>2, <3>1 DEF FreePlaces
        <4> QED BY <1>5, <1>7, <3>3, <3>4, <4>1, <4>2
      <3> QED BY <1>7, <3>2, <3>3, <3>5 DEF FreePlaces
    <2> QED BY <2>1, <2>2
  <1>9. RefsFindTheirValues'
    <2>1. \A h \in held : h[1] # ref /\ h[1] \in Place
      BY <1>3 DEF References, RefInv
    <2>2. \A h \in held' : h \in held \/ h = <<ref, v>>
      BY <1>2
    <2> QED BY <1>5, <2>1, <2>2 DEF RefInv, RefsFindTheirValues, R!RefsFindTheirValues
  <1> QED BY <1>5, <1>6, <1>8, <1>9 DEF RefInv, Entries

\* luaL_unref puts the place at the head of the list.
LEMMA UnrefKeeps ==
    ASSUME RefInv, NEW h \in held, R!Unref(h)
    PROVE  RefInv'
  <1>0. R!RefConstants
    BY PartsConstants
  <1> USE <1>0 DEF R!RefConstants
  <1>1. PICK q : FreePlaces(q)
    BY DEF RefInv
  <1> DEFINE Entries == UNION {Values, {R!Nil}, {R!Number(n) : n \in Place}}
             r == <<h[1]>> \o q
  <1>2. PICK ref \in Place : ref = h[1]
    BY DEF RefInv
  <1>3. /\ entries \in [0..MaxRef -> Entries] /\ entries[0] \in Entries /\ R!Number(ref) \in Entries
        /\ ref # 0 /\ ref \in 0..MaxRef /\ 0 \in 0..MaxRef /\ MaxRef \in Nat
    BY DEF RefInv, Place
  <1>4. ref \in References /\ \A g \in held' : g \in held /\ g # h /\ g[1] # ref
    BY <1>2 DEF References, R!Unref, RefInv, RefsFindTheirValues, R!RefsFindTheirValues
  <1> HIDE DEF Entries
  <1>5. /\ entries' \in [0..MaxRef -> Entries] /\ entries'[ref] = entries[0]
        /\ entries'[0] = R!Number(ref) /\ \A n \in Place : n # ref => entries'[n] = entries[n]
    BY <1>2, <1>3 DEF R!Unref, R!FREELIST_REF, Place
  <1>6. held' \subseteq Place \X Values /\ ref \notin References' /\ References' \subseteq References
    BY <1>4 DEF RefInv, References
  <1>7. /\ r \in Seq(Place) /\ Len(q) \in Nat /\ Len(r) = Len(q) + 1 /\ r[1] = ref
        /\ \A i \in 1..Len(q) : r[i + 1] = q[i]
    BY <1>1, <1>2 DEF FreePlaces
  <1>8. FreePlaces(r)'
    <2> HIDE DEF r
    <2>1. \A i \in 1..Len(r) : i = 1 \/ \E j \in 1..Len(q) : i = j + 1
      <3>1. ASSUME NEW i \in 1..Len(r), i # 1 PROVE i - 1 \in 1..Len(q) /\ i = (i - 1) + 1
        BY <1>7, <3>1
      <3> QED BY <3>1
    <2>2. \A i \in 1..Len(q) : q[i] # ref /\ q[i] \in Place
      BY <1>1, <1>4 DEF FreePlaces
    <2>3. \A i, j \in 1..Len(r) : r[i] = r[j] => i = j
      <3>1. \A i, j \in 1..Len(q) : q[i] = q[j] => i = j
        BY <1>1 DEF FreePlaces
      <3>2. \A i \in 1..Len(r) : \/ i = 1 /\ r[i] = ref
                                 \/ \E k \in 1..Len(q) : i = k + 1 /\ r[i] = q[k] /\ q[k] # ref
        BY <1>7, <2>1, <2>2
      <3> QED BY ONLY <3>1, <3>2
    <2>4. \A i \in 1..Len(r) : r[i] \notin References'
      <3>1. \A i \in 1..Len(q) : q[i] \notin References
        BY <1>1 DEF FreePlaces
      <3> QED BY <1>6, <1>7, <2>1, <3>1
    <2>5. \A i \in 0..Len(q) : Link(r, i + 1) = Link(q, i)
      BY <1>7 DEF Link
    <2>6. entries'[0] = Link(r, 0) /\ entries'[r[1]] = Link(r, 1)
      <3>1. Link(r, 0) = R!Number(ref)
        BY <1>7 DEF Link
      <3>2. Link(r, 1) = Link(q, 0) /\ entries[0] = Link(q, 0)
        BY <1>1, <1>7, <2>5 DEF FreePlaces
      <3> QED BY <1>5, <1>7, <3>1, <3>2
    <2>7. \A j \in 1..Len(q) : entries'[r[j + 1]] = Link(r, j + 1)
      BY <1>1, <1>5, <1>7, <2>2, <2>5 DEF FreePlaces
    <2>8. \A i \in 1..Len(r) : entries'[r[i]] = Link(r, i)
      BY <2>1, <2>6, <2>7
    <2> QED BY <1>7, <2>3, <2>4, <2>6, <2>8 DEF FreePlaces
  <1>9. RefsFindTheirValues'
    <2>1. \A g \in held' : g[1] \in Place
      BY <1>6
    <2> QED BY <1>4, <1>5, <2>1 DEF RefInv, RefsFindTheirValues, R!RefsFindTheirValues
  <1> QED BY <1>5, <1>6, <1>8, <1>9 DEF RefInv, Entries

\* However many places there are and in whatever order references are made and
\* released, two in use differ and find their values (luaL_ref, luaL_unref).
THEOREM ReferencesHold == R!Spec => []RefsFindTheirValues
  <1>1. R!Init => RefInv
    <2> SUFFICES ASSUME R!Init PROVE RefInv
      OBVIOUS
    <2>1. FreePlaces(<<>>) 
      <3>1. entries[0] = R!Nil
        BY PartsConstants DEF R!Init, R!RefConstants
      <3> QED BY <3>1 DEF FreePlaces, Link
    <2>2. entries \in [0..MaxRef -> {R!Nil}] /\ held = {}
      BY DEF R!Init
    <2> QED BY <2>1, <2>2 DEF RefInv, RefsFindTheirValues, R!RefsFindTheirValues
  <1>2. RefInv /\ [R!Next]_<<entries, held>> => RefInv'
    <2>1. CASE UNCHANGED <<entries, held>>
      <3>1. RefInv => RefInv'
        BY <2>1 DEF RefInv, FreePlaces, References, RefsFindTheirValues, R!RefsFindTheirValues
      <3> QED BY <3>1
    <2> QED BY <2>1, RefKeeps, UnrefKeeps DEF R!Next
  <1>3. RefInv => RefsFindTheirValues
    BY DEF RefInv
  <1> QED BY <1>1, <1>2, <1>3, PTL DEF R!Spec

-----------------------------------------------------------------------------
(* Finalizers: sequences without repetition.                                *)

\* q lists the members of M, each once.
Lists(q, M) ==
    /\ q \in Seq(M)
    /\ \A e \in M : \E i \in 1..Len(q) : q[i] = e
    /\ \A i, j \in 1..Len(q) : q[i] = q[j] => i = j

\* In the words of the model.
LEMMA ListsIs ==
    ASSUME NEW M, NEW q, Lists(q, M)
    PROVE  F!ToSet(q) = M /\ F!IsInjective(q)
  <1>1. DOMAIN q = 1..Len(q) /\ \A i \in 1..Len(q) : q[i] \in M
    BY DEF Lists
  <1> QED BY <1>1 DEF Lists, F!ToSet, F!IsInjective

\* The empty list.
LEMMA ListsNone == Lists(<<>>, {})
  BY DEF Lists

\* A new member at the end.
LEMMA ListsAppend ==
    ASSUME NEW M, NEW q, Lists(q, M), NEW e, e \notin M
    PROVE  Lists(Append(q, e), M \cup {e})
  <1> DEFINE c == Len(q)
             k == Append(q, e)
  <1>1. q \in Seq(M \cup {e})
    BY DEF Lists
  <1>2. /\ k \in Seq(M \cup {e}) /\ c \in Nat /\ Len(k) = c + 1 /\ k[c + 1] = e
        /\ \A i \in 1..c : k[i] = q[i] /\ q[i] \in M
    BY <1>1 DEF Lists
  <1>3. \A i \in 1..c + 1 : i = c + 1 \/ i \in 1..c
    BY <1>2
  <1>4. \A i \in 1..c : i \in 1..c + 1
    BY <1>2
  <1>5. c + 1 \in 1..c + 1
    BY <1>2
  <1> HIDE DEF k
  <1>6. \A x \in M \cup {e} : \E i \in 1..c + 1 : k[i] = x
    BY <1>2, <1>4, <1>5 DEF Lists
  <1>7. \A i, j \in 1..c + 1 : k[i] = k[j] => i = j
    BY <1>2, <1>3 DEF Lists
  <1> QED BY <1>2, <1>6, <1>7 DEF Lists, k

\* Two lists with nothing in common, one after the other.
LEMMA ListsConcat ==
    ASSUME NEW M, NEW q, Lists(q, M), NEW O, NEW r, Lists(r, O), M \cap O = {}
    PROVE  Lists(q \o r, M \cup O)
  <1> DEFINE c == Len(q)
             d == Len(r)
             k == q \o r
  <1>1. q \in Seq(M \cup O) /\ r \in Seq(M \cup O) /\ q \in Seq(M) /\ r \in Seq(O)
    BY DEF Lists
  <1>2. /\ k \in Seq(M \cup O) /\ c \in Nat /\ d \in Nat /\ Len(k) = c + d
        /\ \A i \in 1..c + d : k[i] = IF i <= c THEN q[i] ELSE r[i - c]
    BY <1>1, ConcatProperties
  <1>3. \A i \in 1..c : i \in 1..c + d /\ k[i] = q[i] /\ q[i] \in M
    BY <1>1, <1>2
  <1>4. \A i \in 1..d : i + c \in 1..c + d /\ k[i + c] = r[i] /\ r[i] \in O
    BY <1>1, <1>2
  <1>5. \A i \in 1..c + d : i \in 1..c \/ \E j \in 1..d : i = j + c
    <2>1. ASSUME NEW i \in 1..c + d, i \notin 1..c PROVE i - c \in 1..d /\ i = (i - c) + c
      BY <1>2, <2>1
    <2> QED BY <2>1
  <1> HIDE DEF k, c, d
  <1>6. \A x \in M \cup O : \E i \in 1..c + d : k[i] = x
    <2>1. ASSUME NEW x \in M PROVE \E i \in 1..c + d : k[i] = x
      BY <1>3 DEF Lists, c
    <2>2. ASSUME NEW x \in O PROVE \E i \in 1..c + d : k[i] = x
      <3>1. PICK j \in 1..d : r[j] = x
        BY DEF Lists, d
      <3> QED BY <1>4, <3>1
    <2> QED BY <2>1, <2>2
  <1>7. ASSUME NEW i \in 1..c + d, NEW j \in 1..c + d, k[i] = k[j] PROVE i = j
    <2>1. CASE i \in 1..c /\ j \in 1..c
      BY <1>3, <1>7, <2>1 DEF Lists, c
    <2>2. CASE i \in 1..c /\ j \notin 1..c
      <3>1. PICK n \in 1..d : j = n + c
        BY <1>5, <2>2
      <3> QED BY <1>3, <1>4, <1>7, <2>2, <3>1
    <2>3. CASE i \notin 1..c /\ j \in 1..c
      <3>1. PICK n \in 1..d : i = n + c
        BY <1>5, <2>3
      <3> QED BY <1>3, <1>4, <1>7, <2>3, <3>1
    <2>4. CASE i \notin 1..c /\ j \notin 1..c
      <3>1. PICK m \in 1..d : i = m + c
        BY <1>5, <2>4
      <3>2. PICK n \in 1..d : j = n + c
        BY <1>5, <2>4
      <3>3. r[m] = r[n]
        BY <1>4, <1>7, <3>1, <3>2
      <3>4. m = n
        BY <3>3 DEF Lists, d
      <3> QED BY <3>1, <3>2, <3>4
    <2> QED BY <2>1, <2>2, <2>3, <2>4
  <1> QED BY <1>2, <1>6, <1>7 DEF Lists, k

\* Without its first member.
LEMMA ListsTail ==
    ASSUME NEW M, NEW q, Lists(q, M), q # <<>>
    PROVE  Head(q) \in M /\ Lists(Tail(q), M \ {Head(q)}) /\ Lists(<<Head(q)>>, {Head(q)})
  <1> DEFINE c == Len(q)
             h == Head(q)
             k == Tail(q)
  <1>1. /\ c \in Nat /\ c # 0 /\ q \in Seq(M) /\ h = q[1] /\ k \in Seq(M) /\ Len(k) = c - 1
        /\ \A i \in 1..c - 1 : k[i] = q[i + 1]
    BY DEF Lists
  <1>2. /\ \A i \in 1..c - 1 : i + 1 \in 1..c /\ i + 1 # 1
        /\ \A i \in 1..c : i # 1 => i - 1 \in 1..c - 1 /\ (i - 1) + 1 = i
        /\ 1 \in 1..c
    BY <1>1
  <1> HIDE DEF k, c, h
  <1>3. \A i, j \in 1..c : q[i] = q[j] => i = j
    BY DEF Lists, c
  <1>4. \A i \in 1..c - 1 : k[i] \in M \ {h}
    BY <1>1, <1>2, <1>3
  <1>5. k \in Seq(M \ {h})
    BY <1>1, <1>4
  <1>6. \A x \in M \ {h} : \E i \in 1..c - 1 : k[i] = x
    <2> TAKE x \in M \ {h}
    <2>1. PICK i \in 1..c : q[i] = x
      BY DEF Lists, c
    <2>2. i - 1 \in 1..c - 1 /\ k[i - 1] = q[i]
      BY <1>1, <1>2, <2>1
    <2> QED BY <2>1, <2>2
  <1>7. \A i, j \in 1..c - 1 : k[i] = k[j] => i = j
    <2> TAKE i, j \in 1..c - 1
    <2> HAVE k[i] = k[j]
    <2>1. i + 1 = j + 1
      BY <1>1, <1>2, <1>3
    <2> QED BY <1>1, <2>1
  <1>8. h \in M
    BY <1>1, <1>2
  <1>9. Lists(<<h>>, {h})
    BY DEF Lists
  <1>10. Lists(k, M \ {h})
    BY <1>1, <1>5, <1>6, <1>7 DEF Lists
  <1> QED BY <1>8, <1>9, <1>10 DEF h, k

\* p collects the members of q that are in D, one after the other.
Collects(p, q, D) ==
    /\ p[0] = <<>> /\ F!Select(q, D) = p[Len(q)]
    /\ \A n \in 1..Len(q) : p[n] = IF q[n] \in D THEN Append(p[n - 1], q[n]) ELSE p[n - 1]

\* Select is where that ends.
LEMMA SelectCollects ==
    ASSUME NEW M, NEW q \in Seq(M), NEW D
    PROVE  \E p : Collects(p, q, D)
  <1> DEFINE c == Len(q)
             V == Seq(M)
             add(n, k) == IF q[n] \in D THEN Append(k, q[n]) ELSE k
             pass == CHOOSE p : p = [n \in 0..c |-> IF n = 0 THEN <<>> ELSE add(n, p[n - 1])]
             Step == [n \in Nat |-> [k \in V |-> IF n < c THEN add(n + 1, k) ELSE k]]
  <1>1. F!Select(q, D) = pass[c]
    BY Zenon DEF F!Select
  <1>2. c \in Nat /\ <<>> \in V /\ \A n \in 1..c : \A k \in V : add(n, k) \in V
    <2>1. \A n \in 1..c : q[n] \in M
      OBVIOUS
    <2> QED BY <2>1
  <1> HIDE DEF c, add, V
  <1>3. Step \in [Nat -> [V -> V]]
    <2>1. ASSUME NEW n \in Nat
          PROVE  [k \in V |-> IF n < c THEN add(n + 1, k) ELSE k] \in [V -> V]
      <3>1. CASE n < c
        <4>1. n + 1 \in 1..c
          BY <1>2, <3>1
        <4> QED BY <1>2, <3>1, <4>1
      <3>2. CASE ~(n < c)
        BY <3>2
      <3> QED BY <3>1, <3>2
    <2> QED BY <2>1
  <1>4. PICK g \in [0..c -> V] : g = [n \in 0..c |-> IF n = 0 THEN <<>> ELSE Step[n - 1][g[n - 1]]]
    <2> HIDE DEF Step
    <2>1. RecursiveUpTo(V, <<>>, Step, c)
      BY <1>2, <1>3, BoundedRecursion
    <2> QED BY <2>1 DEF RecursiveUpTo
  <1>5. ASSUME NEW n \in 1..c
        PROVE  Step[n - 1][g[n - 1]] = add(n, g[n - 1])
    <2>1. n - 1 \in 0..c /\ n - 1 \in Nat /\ n - 1 < c /\ (n - 1) + 1 = n
      BY <1>2
    <2>2. g[n - 1] \in V
      BY <2>1
    <2>3. Step[n - 1] = [k \in V |-> IF n - 1 < c THEN add((n - 1) + 1, k) ELSE k]
      BY <2>1
    <2> HIDE DEF Step
    <2> QED BY <2>1, <2>2, <2>3
  <1> HIDE DEF Step
  <1>6. ASSUME NEW n \in 0..c
        PROVE  (IF n = 0 THEN <<>> ELSE Step[n - 1][g[n - 1]])
                 = IF n = 0 THEN <<>> ELSE add(n, g[n - 1])
    <2>1. n = 0 \/ n \in 1..c
      BY <1>2
    <2> QED BY <1>5, <2>1
  <1>7. g = [n \in 0..c |-> IF n = 0 THEN <<>> ELSE add(n, g[n - 1])]
    BY <1>4, <1>6
  <1>8. pass = [n \in 0..c |-> IF n = 0 THEN <<>> ELSE add(n, pass[n - 1])]
    BY <1>7
  <1> HIDE DEF pass
  <1>9. pass[0] = <<>> /\ \A n \in 1..c : pass[n] = add(n, pass[n - 1])
    <2>1. 0 \in 0..c /\ \A n \in 1..c : n \in 0..c /\ n # 0
      BY <1>2
    <2> QED BY <1>8, <2>1
  <1> QED BY <1>1, <1>9 DEF Collects, c, add

\* Select keeps the members that are in D, each once.
LEMMA SelectLists ==
    ASSUME NEW M, NEW q, Lists(q, M), NEW D
    PROVE  Lists(F!Select(q, D), M \cap D)
  <1>1. PICK p : Collects(p, q, D)
    BY SelectCollects DEF Lists
  <1> DEFINE c == Len(q)
             first(n) == {e \in M \cap D : \E i \in 1..n : q[i] = e}
             T == {n \in Nat : n <= c => Lists(p[n], first(n))}
  <1>2. c \in Nat /\ (\A i \in 1..c : q[i] \in M) /\ \A i, j \in 1..c : q[i] = q[j] => i = j
    BY DEF Lists
  <1>3. p[0] = <<>> /\ \A n \in 1..c : p[n] = IF q[n] \in D THEN Append(p[n - 1], q[n]) ELSE p[n - 1]
    BY <1>1 DEF Collects
  <1>4. 0 \in T
    <2>1. first(0) = {}
      OBVIOUS
    <2> QED BY <1>3, <2>1, ListsNone
  <1>5. ASSUME NEW n \in T PROVE n + 1 \in T
    <2>1. CASE n + 1 <= c
      <3>1. n \in Nat /\ n + 1 \in 1..c /\ (n + 1) - 1 = n /\ Lists(p[n], first(n))
        BY <1>2, <2>1
      <3>2. \A i \in 1..n + 1 : i = n + 1 \/ i \in 1..n
        BY <3>1
      <3>3. \A i \in 1..n : i \in 1..n + 1 /\ i \in 1..c /\ i # n + 1
        BY <1>2, <2>1, <3>1
      <3>4. n + 1 \in 1..n + 1
        BY <3>1
      <3> HIDE DEF c
      <3>5. CASE q[n + 1] \in D
        <4>1. q[n + 1] \notin first(n)
          BY <1>2, <3>1, <3>3
        <4>2. first(n + 1) = first(n) \cup {q[n + 1]}
          BY <1>2, <3>1, <3>2, <3>3, <3>4, <3>5
        <4>3. p[n + 1] = Append(p[n], q[n + 1])
          BY <1>3, <3>1, <3>5
        <4> HIDE DEF first
        <4>4. Lists(p[n + 1], first(n + 1))
          BY <3>1, <4>1, <4>2, <4>3, ListsAppend
        <4> QED BY <3>1, <4>4
      <3>6. CASE q[n + 1] \notin D
        <4>1. first(n + 1) = first(n)
          BY <3>2, <3>3, <3>6
        <4>2. p[n + 1] = p[n]
          BY <1>3, <3>1, <3>6
        <4> QED BY <3>1, <4>1, <4>2
      <3> QED BY <3>5, <3>6
    <2>2. CASE ~(n + 1 <= c)
      BY <2>2
    <2> QED BY <2>1, <2>2
  <1>6. T = Nat
    <2> HIDE DEF first
    <2> QED BY <1>4, <1>5, NatSetInduction
  <1>7. c \in T
    BY <1>2, <1>6
  <1>8. first(c) = M \cap D
    BY DEF Lists
  <1>9. F!Select(q, D) = p[c]
    BY <1>1 DEF Collects
  <1>10. Lists(p[c], first(c))
    <2> HIDE DEF first
    <2>1. c <= c
      BY <1>2
    <2> QED BY <1>7, <2>1
  <1> HIDE DEF first
  <1> QED BY <1>8, <1>9, <1>10

-----------------------------------------------------------------------------
(* Finalizers: the invariant.                                               *)

Finalizer == [udata : Nat, oldah : BOOLEAN]

\* The types, and that nothing is kept to be called once the state is closed.
Kinds ==
    /\ created \in Nat /\ active \in Seq(Finalizer)
    /\ faulty \in BOOLEAN /\ allowhook \in BOOLEAN
    /\ phase \in {"program", "closing", "closed"}
    /\ phase = "closed" => tmudata = <<>> /\ active = <<>>

\* Every userdata is on one list, once; called are some that were set aside; and
\* while no finalizer fails, none of these is forgotten.
Placed(inList, inTm, wasCalled) ==
    /\ Lists(list, inList) /\ Lists(tmudata, inTm) /\ Lists(called, wasCalled)
    /\ inList \cup inTm = 1..created /\ inList \cap inTm = {} /\ inTm \cap wasCalled = {}
    /\ inTm \cup wasCalled \subseteq finalized /\ finalized \subseteq 1..created
    /\ ~faulty => ~pending /\ finalized \subseteq inTm \cup wasCalled
Userdata == \E inList, inTm, wasCalled : Placed(inList, inTm, wasCalled)

\* In the program hooks are off only while a finalizer runs or an error that one
\* raised is on its way; the outermost finalizer will switch them on again.
Hooks ==
    phase = "program" =>
        IF active = <<>> THEN ~pending => allowhook ELSE active[1].oldah

FinalizeInv == Kinds /\ Userdata /\ Hooks

\* Placed in the next state, of sets that are the same in both.
LEMMA PlacedNext ==
    ASSUME NEW a, NEW b, NEW d,
           Lists(list', a), Lists(tmudata', b), Lists(called', d),
           a \cup b = 1..created', a \cap b = {}, b \cap d = {},
           b \cup d \subseteq finalized', finalized' \subseteq 1..created',
           ~faulty' => ~pending' /\ finalized' \subseteq b \cup d
    PROVE  Userdata'
  <1>1. Placed(a, b, d)'
    BY DEF Placed, Lists
  <1> QED BY <1>1 DEF Userdata

\* The state as it is opened.
LEMMA FinalizeInit == F!Init => FinalizeInv
  <1> SUFFICES ASSUME F!Init PROVE FinalizeInv
    OBVIOUS
  <1>1. Kinds /\ Hooks
    BY DEF F!Init, Kinds, Hooks
  <1>2. Placed({}, {}, {})
    <2>1. 1..created = {}
      BY DEF F!Init
    <2> QED BY <2>1, ListsNone DEF F!Init, Placed
  <1> QED BY <1>1, <1>2 DEF FinalizeInv, Userdata

\* What stays if the lists do and no error comes up in a program without faults.
LEMMA UserdataStay ==
    ASSUME Userdata, UNCHANGED <<faulty, created, list, tmudata, finalized, called>>,
           ~faulty => ~pending'
    PROVE  Userdata'
  <1>1. PICK inList, inTm, wasCalled : Placed(inList, inTm, wasCalled)
    BY DEF Userdata
  <1>2. Placed(inList, inTm, wasCalled)'
    BY <1>1 DEF Placed, Lists
  <1> QED BY <1>2 DEF Userdata

\* luaC_separateudata moves userdata from one list to the other.
LEMMA SeparateKeeps ==
    ASSUME Userdata, NEW dead, dead \subseteq 1..created, F!Separate(dead),
           UNCHANGED <<faulty, created, called, pending>>
    PROVE  Userdata'
  <1> DEFINE due == dead \ finalized
             kept == 1..created \ due
  <1>1. PICK inList, inTm, wasCalled : Placed(inList, inTm, wasCalled)
    BY DEF Userdata
  <1>2. /\ list' = F!Select(list, kept) /\ tmudata' = tmudata \o F!Select(list, due)
        /\ finalized' = finalized \cup due
    BY DEF F!Separate
  <1> DEFINE moved == inList \cap due
  <1>3. Lists(list', inList \cap kept) /\ Lists(F!Select(list, due), moved)
    BY <1>1, <1>2, SelectLists DEF Placed
  <1>4. Lists(tmudata', inTm \cup moved)
    <2>1. inTm \cap moved = {}
      BY <1>1 DEF Placed
    <2> HIDE DEF moved
    <2> QED BY <1>1, <1>2, <1>3, <2>1, ListsConcat DEF Placed
  <1>5. due \subseteq inList
    BY <1>1 DEF Placed
  <1>6. Userdata'
    <2>1. Lists(called', wasCalled)
      BY <1>1 DEF Placed
    <2>2. (inList \cap kept) \cup (inTm \cup moved) = 1..created
      BY <1>1, <1>5 DEF Placed
    <2>3. (inList \cap kept) \cap (inTm \cup moved) = {} /\ (inTm \cup moved) \cap wasCalled = {}
      BY <1>1, <1>5 DEF Placed
    <2>4. /\ (inTm \cup moved) \cup wasCalled \subseteq finalized'
          /\ finalized' \subseteq 1..created
          /\ ~faulty => ~pending /\ finalized' \subseteq (inTm \cup moved) \cup wasCalled
      BY <1>1, <1>2, <1>5 DEF Placed
    <2>5. PICK a : a = inList \cap kept
      OBVIOUS
    <2>6. PICK b : b = inTm \cup moved
      OBVIOUS
    <2> QED BY ONLY UNCHANGED <<faulty, created, pending>>, <1>3, <1>4, <2>1, <2>2, <2>3, <2>4,
                    <2>5, <2>6, PlacedNext
  <1> QED BY <1>6

\* GCTM takes the first of tmudata back to the list, and calls its finalizer, or
\* with an error pending does not.
LEMMA TakenBack ==
    ASSUME Userdata, tmudata # <<>>, tmudata' = Tail(tmudata),
           list' = <<Head(tmudata)>> \o list,
           \/ pending /\ called' = called
           \/ called' = Append(called, Head(tmudata)),
           UNCHANGED <<faulty, created, finalized, pending>>
    PROVE  Userdata'
  <1>1. PICK inList, inTm, wasCalled : Placed(inList, inTm, wasCalled)
    BY DEF Userdata
  <1>2. PICK u : u = Head(tmudata)
    OBVIOUS
  <1>3. PICK a : a = {u} \cup inList
    OBVIOUS
  <1>4. PICK b : b = inTm \ {u}
    OBVIOUS
  <1>5. u \in inTm /\ Lists(tmudata', b) /\ Lists(<<u>>, {u})
    BY <1>1, <1>2, <1>4, ListsTail DEF Placed
  <1>6. Lists(list', a)
    <2>1. {u} \cap inList = {}
      BY <1>1, <1>5 DEF Placed
    <2> QED BY <1>1, <1>2, <1>3, <1>5, <2>1, ListsConcat DEF Placed
  <1>7. /\ a \cup b = 1..created' /\ a \cap b = {} /\ finalized' \subseteq 1..created'
        /\ u \in finalized'
    BY <1>1, <1>3, <1>4, <1>5 DEF Placed
  <1>8. CASE pending /\ called' = called
    <2>1. /\ Lists(called', wasCalled) /\ b \cap wasCalled = {} /\ b \cup wasCalled \subseteq finalized'
          /\ faulty'
      BY <1>1, <1>4, <1>8 DEF Placed
    <2> QED BY <1>5, <1>6, <1>7, <2>1, PlacedNext
  <1>9. CASE called' = Append(called, u)
    <2>1. PICK d : d = wasCalled \cup {u}
      OBVIOUS
    <2>2. u \notin wasCalled
      BY <1>1, <1>5 DEF Placed
    <2>3. Lists(called', d)
      BY <1>1, <1>9, <2>1, <2>2, ListsAppend DEF Placed
    <2>4. b \cap d = {} /\ b \cup d = inTm \cup wasCalled
      BY <1>1, <1>4, <1>5, <2>1 DEF Placed
    <2>5. b \cup d \subseteq finalized' /\ (~faulty' => ~pending' /\ finalized' \subseteq b \cup d)
      BY <1>1, <2>4 DEF Placed
    <2> QED BY <1>5, <1>6, <1>7, <2>3, <2>4, <2>5, PlacedNext
  <1> QED BY <1>2, <1>8, <1>9

\* The outermost finalizer stays outermost.
LEMMA Innermost ==
    ASSUME active \in Seq(Finalizer), active # <<>>
    PROVE  /\ F!Front(active) \in Seq(Finalizer) /\ F!Last(active).oldah \in BOOLEAN
           /\ F!Front(active) = <<>> => F!Last(active) = active[1]
           /\ F!Front(active) # <<>> => F!Front(active)[1] = active[1]
  <1> DEFINE c == Len(active)
             k == SubSeq(active, 1, c - 1)
  <1>1. c \in Nat /\ c # 0 /\ \A i \in 1..c : active[i] \in Finalizer
    OBVIOUS
  <1>2. /\ k \in Seq(Finalizer) /\ Len(k) = IF 1 <= c - 1 THEN (c - 1) - 1 + 1 ELSE 0
        /\ \A i \in 1..(c - 1) - 1 + 1 : k[i] = active[1 + i - 1]
    <2>1. 1 \in Int /\ c - 1 \in Int /\ \A i \in 1..c - 1 : active[i] \in Finalizer
      BY <1>1
    <2> QED BY <2>1, SubSeqProperties
  <1>3. Len(k) = c - 1 /\ \A i \in 1..c - 1 : k[i] = active[i]
    <2> HIDE DEF k, c
    <2> QED BY <1>1, <1>2
  <1>4. F!Front(active) = k /\ F!Last(active) = active[c]
    BY DEF F!Front, F!Last
  <1>5. active[c] \in Finalizer
    BY <1>1
  <1> HIDE DEF k
  <1>6. k = <<>> => c = 1
    BY <1>1, <1>3
  <1>7. k # <<>> => 1 \in 1..c - 1
    BY <1>1, <1>2, <1>3
  <1> QED BY <1>2, <1>3, <1>4, <1>5, <1>6, <1>7 DEF Finalizer

\* Whatever the program, the collector and lua_close do, in any order.
LEMMA FinalizeStep == FinalizeInv /\ [F!Next]_(F!vars) => FinalizeInv'
  <1> SUFFICES ASSUME FinalizeInv, [F!Next]_(F!vars) PROVE FinalizeInv'
    OBVIOUS
  <1>1. CASE F!Create
    <2>1. /\ created' = created + 1 /\ list' = <<created + 1>> \o list /\ created \in Nat
          /\ UNCHANGED <<faulty, tmudata, finalized, called, active, allowhook, pending, phase>>
      BY <1>1 DEF F!Create, FinalizeInv, Kinds
    <2>2. PICK inList, inTm, wasCalled : Placed(inList, inTm, wasCalled)
      BY DEF FinalizeInv, Userdata
    <2>3. PICK e : e = created + 1
      OBVIOUS
    <2>4. PICK a : a = {e} \cup inList
      OBVIOUS
    <2>5. e \notin 1..created /\ 1..created' = 1..created \cup {e}
      BY <2>1, <2>3
    <2>6. Lists(list', a)
      <3>1. Lists(<<e>>, {e})
        BY DEF Lists
      <3>2. {e} \cap inList = {}
        BY <2>2, <2>5 DEF Placed
      <3> QED BY <2>1, <2>2, <2>3, <2>4, <3>1, <3>2, ListsConcat DEF Placed
    <2>7. /\ Lists(tmudata', inTm) /\ Lists(called', wasCalled)
          /\ inTm \cap wasCalled = {} /\ inTm \cup wasCalled \subseteq finalized'
          /\ ~faulty' => ~pending' /\ finalized' \subseteq inTm \cup wasCalled
      BY <2>1, <2>2 DEF Placed
    <2>8. a \cup inTm = 1..created' /\ a \cap inTm = {} /\ finalized' \subseteq 1..created'
      BY <2>1, <2>2, <2>4, <2>5 DEF Placed
    <2>9. Userdata'
      BY <2>6, <2>7, <2>8, PlacedNext
    <2>10. Kinds' /\ Hooks'
      BY <2>1 DEF FinalizeInv, Kinds, Hooks
    <2> QED BY <2>9, <2>10 DEF FinalizeInv
  <1>2. CASE F!GCTM
    <2>1. /\ tmudata # <<>> /\ phase # "closed"
          /\ tmudata' = Tail(tmudata) /\ list' = <<Head(tmudata)>> \o list
          /\ UNCHANGED <<faulty, created, finalized, pending, phase>> /\ allowhook' = FALSE
      BY <1>2 DEF F!GCTM
    <2>2. Userdata'
      BY <1>2, <2>1, TakenBack DEF F!GCTM, FinalizeInv
    <2>3. CASE pending
      <3>1. active' = active
        BY <1>2, <2>3 DEF F!GCTM
      <3> QED BY <2>1, <2>2, <2>3, <3>1 DEF FinalizeInv, Kinds, Hooks
    <2>4. CASE ~pending
      <3> DEFINE t == [udata |-> Head(tmudata), oldah |-> allowhook]
      <3>1. active' = Append(active, t)
        BY <1>2, <2>4 DEF F!GCTM
      <3>2. t \in Finalizer /\ t.oldah = allowhook
        <4>1. Head(tmudata) \in Nat
          <5>1. PICK inList, inTm, wasCalled : Placed(inList, inTm, wasCalled)
            BY DEF FinalizeInv, Userdata
          <5>2. Head(tmudata) \in inTm
            BY <2>1, <5>1, ListsTail DEF Placed
          <5> QED BY <5>1, <5>2 DEF Placed
        <4> QED BY <4>1 DEF Finalizer, FinalizeInv, Kinds
      <3> HIDE DEF t
      <3>3. /\ active' \in Seq(Finalizer) /\ active' # <<>>
            /\ active'[1] = IF active = <<>> THEN t ELSE active[1]
        BY <3>1, <3>2 DEF FinalizeInv, Kinds
      <3>4. Kinds'
        BY <2>1, <3>3 DEF FinalizeInv, Kinds
      <3>5. Hooks'
        BY <2>1, <2>4, <3>2, <3>3 DEF FinalizeInv, Hooks
      <3> QED BY <2>2, <3>4, <3>5 DEF FinalizeInv
    <2> QED BY <2>3, <2>4
  <1>3. CASE F!FinalizerReturns
    <2>1. /\ active # <<>> /\ ~pending /\ active' = F!Front(active)
          /\ allowhook' = F!Last(active).oldah
          /\ UNCHANGED <<faulty, created, list, tmudata, finalized, called, pending, phase>>
      BY <1>3 DEF F!FinalizerReturns
    <2>2. Userdata'
      BY <2>1, UserdataStay DEF FinalizeInv
    <2>3. Kinds' /\ Hooks'
      BY <2>1, Innermost DEF FinalizeInv, Kinds, Hooks
    <2> QED BY <2>2, <2>3 DEF FinalizeInv
  <1>4. CASE F!FinalizerFails
    <2>1. /\ active # <<>> /\ (pending \/ faulty) /\ active' = F!Front(active) /\ pending' = TRUE
          /\ UNCHANGED <<faulty, created, list, tmudata, finalized, called, allowhook, phase>>
      BY <1>4 DEF F!FinalizerFails
    <2>2. faulty
      BY <2>1 DEF FinalizeInv, Userdata, Placed
    <2>3. Userdata'
      BY <2>1, <2>2, UserdataStay DEF FinalizeInv
    <2>4. Kinds' /\ Hooks'
      BY <2>1, Innermost DEF FinalizeInv, Kinds, Hooks
    <2> QED BY <2>3, <2>4 DEF FinalizeInv
  <1>5. CASE F!Catch
    <2>1. /\ pending' = FALSE /\ allowhook' = (active = <<>>)
          /\ UNCHANGED <<faulty, created, list, tmudata, finalized, called, active, phase>>
      BY <1>5 DEF F!Catch
    <2>2. Userdata'
      BY <2>1, UserdataStay DEF FinalizeInv
    <2>3. Kinds' /\ Hooks'
      BY <2>1 DEF FinalizeInv, Kinds, Hooks
    <2> QED BY <2>2, <2>3 DEF FinalizeInv
  <1>6. CASE F!Close
    <2>1. /\ active = <<>> /\ phase' = "closing" /\ F!Separate(F!ToSet(list))
          /\ UNCHANGED <<faulty, created, called, active, allowhook, pending>>
      BY <1>6 DEF F!Close
    <2>2. F!ToSet(list) \subseteq 1..created
      <3>1. PICK inList, inTm, wasCalled : Placed(inList, inTm, wasCalled)
        BY DEF FinalizeInv, Userdata
      <3> QED BY <3>1, ListsIs DEF Placed
    <2>3. Userdata'
      BY <2>1, <2>2, SeparateKeeps DEF FinalizeInv
    <2>4. Kinds' /\ Hooks'
      BY <2>1 DEF FinalizeInv, Kinds, Hooks
    <2> QED BY <2>3, <2>4 DEF FinalizeInv
  <1>7. CASE F!EndRound
    <2>1. /\ phase = "closing" /\ active = <<>> /\ tmudata = <<>> /\ pending' = FALSE
          /\ phase' \in {"closing", "closed"}
          /\ UNCHANGED <<faulty, created, list, tmudata, finalized, called, active, allowhook>>
      BY <1>7 DEF F!EndRound
    <2>2. Userdata'
      BY <2>1, UserdataStay DEF FinalizeInv
    <2>3. Kinds' /\ Hooks'
      BY <2>1 DEF FinalizeInv, Kinds, Hooks
    <2> QED BY <2>2, <2>3 DEF FinalizeInv
  <1>8. ASSUME NEW dead, F!Collect(dead) PROVE FinalizeInv'
    <2>1. /\ F!Running /\ dead \subseteq F!ToSet(list) /\ F!Separate(dead)
          /\ UNCHANGED <<faulty, created, called, active, allowhook, pending, phase>>
      BY <1>8 DEF F!Collect
    <2>2. dead \subseteq 1..created
      <3>1. PICK inList, inTm, wasCalled : Placed(inList, inTm, wasCalled)
        BY DEF FinalizeInv, Userdata
      <3> QED BY <2>1, <3>1, ListsIs DEF Placed
    <2>3. Userdata'
      BY <2>1, <2>2, SeparateKeeps DEF FinalizeInv
    <2>4. Kinds' /\ Hooks'
      BY <2>1 DEF FinalizeInv, Kinds, Hooks, F!Running
    <2> QED BY <2>3, <2>4 DEF FinalizeInv
  <1>9. CASE UNCHANGED F!vars
    <2>1. UNCHANGED <<faulty, created, list, tmudata, finalized, called, active, allowhook,
                      pending, phase>>
      BY <1>9 DEF F!vars
    <2>2. ~faulty => ~pending'
      BY <2>1 DEF FinalizeInv, Userdata, Placed
    <2>3. Userdata'
      BY <2>1, <2>2, UserdataStay DEF FinalizeInv
    <2> QED BY <2>1, <2>3 DEF FinalizeInv, Kinds, Hooks
  <1> QED BY <1>1, <1>2, <1>3, <1>4, <1>5, <1>6, <1>7, <1>8, <1>9 DEF F!Next

\* The invariant says what FinalizedOnce says.
LEMMA InvOnce == FinalizeInv => FinalizedOnce
  <1> SUFFICES ASSUME FinalizeInv PROVE FinalizedOnce
    OBVIOUS
  <1>1. PICK inList, inTm, wasCalled : Placed(inList, inTm, wasCalled)
    BY DEF FinalizeInv, Userdata
  <1>2. F!ToSet(called) = wasCalled /\ F!IsInjective(called)
    BY <1>1, ListsIs DEF Placed
  <1>3. F!ToSet(list \o tmudata) = 1..created /\ F!IsInjective(list \o tmudata)
    <2>1. Lists(list \o tmudata, inList \cup inTm)
      BY <1>1, ListsConcat DEF Placed
    <2> QED BY <1>1, <2>1, ListsIs DEF Placed
  <1>4. ASSUME phase = "closed", ~faulty PROVE finalized \subseteq wasCalled
    <2>1. tmudata = <<>>
      BY <1>4 DEF FinalizeInv, Kinds
    <2>2. inTm = {}
      <3>1. Lists(tmudata, inTm) /\ Len(tmudata) = 0
        BY <1>1, <2>1 DEF Placed
      <3> QED BY <3>1 DEF Lists
    <2> QED BY <1>1, <1>4, <2>2 DEF Placed
  <1> QED BY <1>2, <1>3, <1>4 DEF FinalizedOnce, F!FinalizedOnce

-----------------------------------------------------------------------------
(* Finalizers: the theorems.                                                *)

\* The invariant holds as long as the state is open, and after.
THEOREM Finalizers == F!Spec => []FinalizeInv
  BY FinalizeInit, FinalizeStep, PTL DEF F!Spec

\* luaC_separateudata and GCTM, from collections, nested collections and lua_close,
\* keep every userdata on one list and never call a finalizer twice; lua_close
\* leaves none uncalled if none fails.
THEOREM FinalizersRunOnce == F!Spec => []FinalizedOnce
  BY Finalizers, InvOnce, PTL

\* GCTM saves and clears L->allowhook; whatever finalizers do inside each other and
\* wherever an error is caught, the program gets its hooks back.
THEOREM HooksComeBack == F!Spec => []HooksBack
  <1>1. FinalizeInv => HooksBack
    BY DEF FinalizeInv, Hooks, HooksBack, F!HooksBack
  <1> QED BY <1>1, Finalizers, PTL

-----------------------------------------------------------------------------
(* String buffers: joining.                                                 *)

\* u goes through the strings that S begins with, joined.
Joins(u, S, X) == /\ u \in [0..Len(S) -> Seq(X)] /\ Buf!Concat(S) = u[Len(S)]
                  /\ u[0] = <<>> /\ \A n \in 1..Len(S) : u[n] = u[n - 1] \o S[n]

\* Concat is the last step of the recursion that joins one string after another.
LEMMA ConcatSteps ==
    ASSUME NEW X, NEW S \in Seq(Seq(X))
    PROVE  \E u : Joins(u, S, X)
<1> DEFINE c == Len(S)
           V == Seq(X)
           u == CHOOSE u : u = [n \in 0..c |-> IF n = 0 THEN <<>> ELSE u[n - 1] \o S[n]]
           Step == [n \in Nat |-> [p \in V |-> IF n + 1 \in 1..c THEN p \o S[n + 1] ELSE p]]
<1>1. c \in Nat /\ <<>> \in V /\ \A n \in 1..c : S[n] \in V
  BY ElementOfSeq, EmptySeq, LenProperties
<1>2. Buf!Concat(S) = u[c]
  BY Zenon DEF Buf!Concat
<1>3. \A p \in V : \A n \in 1..c : p \o S[n] \in V
  BY <1>1, ConcatProperties
<1>4. u = [n \in 0..c |-> IF n = 0 THEN <<>> ELSE u[n - 1] \o S[n]] /\ u \in [0..c -> V]
  <2> HIDE DEF V, c
  <2>1. Step \in [Nat -> [V -> V]]
    BY <1>3
  <2>2. RecursiveUpTo(V, <<>>, Step, c)
    <3> HIDE DEF Step
    <3> QED BY <1>1, <2>1, BoundedRecursion
  <2>3. PICK g \in [0..c -> V] : g = [n \in 0..c |-> IF n = 0 THEN <<>> ELSE Step[n - 1][g[n - 1]]]
    BY <2>2 DEF RecursiveUpTo
  <2>4. \A n \in 0..c : (IF n = 0 THEN <<>> ELSE Step[n - 1][g[n - 1]])
                        = (IF n = 0 THEN <<>> ELSE g[n - 1] \o S[n])
    <3>1. ASSUME NEW n \in 0..c, n # 0
          PROVE  Step[n - 1][g[n - 1]] = g[n - 1] \o S[n]
      <4>1. n - 1 \in Nat /\ n - 1 \in 0..c /\ n - 1 + 1 = n /\ n \in 1..c
        BY <1>1, <3>1
      <4>2. g[n - 1] \in V
        BY <4>1
      <4> QED BY <4>1, <4>2
    <3> QED BY <3>1
  <2>5. g = [n \in 0..c |-> IF n = 0 THEN <<>> ELSE g[n - 1] \o S[n]]
    <3> HIDE DEF Step
    <3> QED BY <2>3, <2>4
  <2>6. u = [n \in 0..c |-> IF n = 0 THEN <<>> ELSE u[n - 1] \o S[n]]
    <3> HIDE DEF Step
    <3> QED BY <2>5
  <2>7. ASSUME NEW n \in Nat, n \in 0..c PROVE u[n] = g[n]
    <3> HIDE DEF u
    <3> DEFINE T == {k \in Nat : k \in 0..c => u[k] = g[k]}
    <3>1. 0 \in T
      BY <2>5, <2>6
    <3>2. ASSUME NEW k \in T PROVE k + 1 \in T
      <4>1. CASE k + 1 \in 0..c
        <5>0. c \in Nat /\ k \in Nat
          BY <1>1
        <5>1. k \in Nat /\ k \in 0..c /\ k + 1 # 0 /\ (k + 1) - 1 = k
          BY <4>1, <5>0
        <5>2. u[k + 1] = u[(k + 1) - 1] \o S[k + 1]
          BY <2>6, <4>1, <5>1, Zenon
        <5>3. g[k + 1] = g[(k + 1) - 1] \o S[k + 1]
          BY <2>5, <4>1, <5>1, Zenon
        <5>4. u[k] = g[k]
          BY <5>1
        <5>5. u[k + 1] = g[k + 1]
          BY <5>1, <5>2, <5>3, <5>4, Zenon
        <5> QED BY <5>1, <5>5
      <4>2. CASE ~(k + 1 \in 0..c)
        BY <4>2
      <4> QED BY <4>1, <4>2
    <3>3. T = Nat
      BY <3>1, <3>2, NatSetInduction
    <3> QED BY <2>7, <3>3
  <2>8. u = g
    <3> HIDE DEF u
    <3>1. u = [n \in 0..c |-> u[n]]
      BY <2>6
    <3>2. g = [n \in 0..c |-> g[n]]
      BY <2>3
    <3>3. \A n \in 0..c : u[n] = g[n]
      BY <1>1, <2>7
    <3> QED BY <3>1, <3>2, <3>3
  <2> QED BY <2>6, <2>8
<1> HIDE DEF u
<1>5. u[0] = <<>> /\ \A n \in 1..c : u[n] = u[n - 1] \o S[n]
  <2>1. \A n \in 0..c : u[n] = IF n = 0 THEN <<>> ELSE u[n - 1] \o S[n]
    BY <1>4, Zenon
  <2>2. 0 \in 0..c /\ \A n \in 1..c : n \in 0..c /\ n # 0
    BY <1>1
  <2> QED BY <2>1, <2>2, Zenon
<1>6. Joins(u, S, X)
  BY <1>2, <1>4, <1>5 DEF Joins
<1> QED BY <1>6

\* Nothing joined is the empty string.
LEMMA ConcatNone == Buf!Concat(<<>>) = <<>>
<1>1. <<>> \in Seq(Seq(Nat)) /\ Len(<<>>) = 0
  BY EmptySeq
<1>2. PICK u : Joins(u, <<>>, Nat)
  BY <1>1, ConcatSteps
<1> QED BY <1>1, <1>2 DEF Joins

\* One string more is joined at the end.
LEMMA ConcatAppend ==
    ASSUME NEW X, NEW S \in Seq(Seq(X)), NEW p \in Seq(X)
    PROVE  Buf!Concat(S) \in Seq(X) /\ Buf!Concat(Append(S, p)) = Buf!Concat(S) \o p
<1> DEFINE Q == Append(S, p)
           c == Len(S)
<1>1. /\ Q \in Seq(Seq(X)) /\ Len(Q) = c + 1 /\ Q[c + 1] = p
      /\ \A i \in 1..c : Q[i] = S[i]
  BY AppendProperties
<1>2. c \in Nat
  BY LenProperties
<1> HIDE DEF Q, c
<1>3. PICK u : Joins(u, S, X)
  BY ConcatSteps
<1>4. PICK v : Joins(v, Q, X)
  BY <1>1, ConcatSteps
<1>5. /\ u[0] = <<>> /\ \A n \in 1..c : u[n] = u[n - 1] \o S[n]
      /\ Buf!Concat(S) = u[c] /\ u[c] \in Seq(X)
  BY <1>2, <1>3 DEF Joins, c
<1>6. v[0] = <<>> /\ \A n \in 1..(c + 1) : v[n] = v[n - 1] \o Q[n]
  BY <1>1, <1>4 DEF Joins
<1>7. Buf!Concat(Q) = v[c + 1]
  BY <1>1, <1>4 DEF Joins
<1> DEFINE T == {k \in Nat : k \in 0..c => u[k] = v[k]}
<1>8. 0 \in T
  BY <1>5, <1>6
<1>9. ASSUME NEW k \in T PROVE k + 1 \in T
  <2>1. CASE k + 1 \in 0..c
    <3>1. k \in Nat /\ k \in 0..c /\ k + 1 \in 1..c /\ (k + 1) - 1 = k /\ k + 1 \in 1..(c + 1)
      BY <1>2, <2>1
    <3>2. u[k + 1] = u[(k + 1) - 1] \o S[k + 1]
      BY <1>5, <3>1, Zenon
    <3>3. v[k + 1] = v[(k + 1) - 1] \o Q[k + 1]
      BY <1>6, <3>1, Zenon
    <3>4. u[k] = v[k] /\ Q[k + 1] = S[k + 1]
      BY <1>1, <3>1
    <3>5. u[k + 1] = v[k + 1]
      BY <3>1, <3>2, <3>3, <3>4, Zenon
    <3> QED BY <3>1, <3>5
  <2>2. CASE ~(k + 1 \in 0..c)
    BY <2>2
  <2> QED BY <2>1, <2>2
<1>10. T = Nat
  BY <1>8, <1>9, NatSetInduction
<1>11. u[c] = v[c]
  <2>1. c \in T /\ c \in 0..c
    BY <1>2, <1>10
  <2> QED BY <2>1
<1>12. v[c + 1] = v[c] \o p
  <2>1. c + 1 \in 1..(c + 1) /\ (c + 1) - 1 = c
    BY <1>2
  <2>2. v[c + 1] = v[(c + 1) - 1] \o Q[c + 1]
    BY <1>6, <2>1, Zenon
  <2> QED BY <1>1, <2>1, <2>2, Zenon
<1> QED BY <1>5, <1>7, <1>11, <1>12 DEF Q

\* One string alone is itself.
LEMMA ConcatOne ==
    ASSUME NEW X, NEW p \in Seq(X)
    PROVE  Buf!Concat(<<p>>) = p
<1>1. <<>> \in Seq(Seq(X)) /\ Append(<<>>, p) = <<p>> /\ <<>> \o p = p
  BY EmptySeq, ConcatEmptySeq
<1>2. Buf!Concat(Append(<<>>, p)) = Buf!Concat(<<>>) \o p
  BY <1>1, ConcatAppend
<1> QED BY <1>1, <1>2, ConcatNone

\* The strings of S and those of T, joined.
LEMMA ConcatBoth ==
    ASSUME NEW X, NEW S \in Seq(Seq(X))
    PROVE  \A T \in Seq(Seq(X)) : Buf!Concat(S \o T) = Buf!Concat(S) \o Buf!Concat(T)
<1> DEFINE Holds(T) == Buf!Concat(S \o T) = Buf!Concat(S) \o Buf!Concat(T)
           D == {n \in Nat : \A T \in Seq(Seq(X)) : Len(T) = n => Holds(T)}
<1>1. 0 \in D
  <2>1. ASSUME NEW T \in Seq(Seq(X)), Len(T) = 0 PROVE Holds(T)
    <3>1. T = <<>>
      BY <2>1, EmptySeq
    <3>2. S \o <<>> = S
      BY ConcatEmptySeq
    <3>3. Buf!Concat(S) \in Seq(X)
      <4>1. <<>> \in Seq(X)
        BY EmptySeq
      <4> QED BY <4>1, ConcatAppend
    <3>4. Buf!Concat(S) \o <<>> = Buf!Concat(S)
      BY <3>3, ConcatEmptySeq
    <3> QED BY <3>1, <3>2, <3>4, ConcatNone
  <2> QED BY <2>1
<1>2. ASSUME NEW n \in D PROVE n + 1 \in D
  <2>1. ASSUME NEW T \in Seq(Seq(X)), Len(T) = n + 1 PROVE Holds(T)
    <3>1. n \in Nat /\ T # <<>>
      BY <2>1, EmptySeq
    <3>2. PICK Q \in Seq(Seq(X)), p \in Seq(X) : T = Append(Q, p)
      BY <3>1, SequenceEmptyOrAppend
    <3>3. Len(Q) = n /\ Q \o <<p>> = T /\ <<p>> \in Seq(Seq(X))
      <4>1. Len(Append(Q, p)) = Len(Q) + 1 /\ Len(Q) \in Nat
        BY AppendProperties, LenProperties
      <4>2. Append(Q, p) = Q \o <<p>>
        BY AppendIsConcat
      <4>3. <<p>> \in Seq(Seq(X))
        OBVIOUS
      <4> QED BY <2>1, <3>1, <3>2, <4>1, <4>2, <4>3
    <3>4. Holds(Q)
      BY <3>1, <3>3
    <3>5. S \o Q \in Seq(Seq(X)) /\ (S \o Q) \o <<p>> = S \o (Q \o <<p>>)
      <4>1. S \o Q \in Seq(Seq(X))
        BY ConcatProperties
      <4> HIDE DEF D, Holds
      <4> DEFINE Y == Seq(X)
      <4>0. S \in Seq(Y) /\ Q \in Seq(Y) /\ <<p>> \in Seq(Y)
        BY <3>3
      <4> HIDE DEF Y
      <4>2. (S \o Q) \o <<p>> = S \o (Q \o <<p>>)
        BY <4>0, ConcatAssociative
      <4> QED BY <4>1, <4>2
    <3>6. S \o T = Append(S \o Q, p)
      <4>1. Append(S \o Q, p) = (S \o Q) \o <<p>>
        BY <3>5, AppendIsConcat
      <4> QED BY <3>3, <3>5, <4>1
    <3>7. Buf!Concat(S \o T) = Buf!Concat(S \o Q) \o p
      BY <3>5, <3>6, ConcatAppend
    <3>8. Buf!Concat(T) = Buf!Concat(Q) \o p /\ Buf!Concat(Q) \in Seq(X) /\ Buf!Concat(S) \in Seq(X)
      BY <3>2, ConcatAppend
    <3>9. (Buf!Concat(S) \o Buf!Concat(Q)) \o p = Buf!Concat(S) \o (Buf!Concat(Q) \o p)
      BY <3>8, ConcatAssociative
    <3> QED BY <3>4, <3>7, <3>8, <3>9
  <2> HIDE DEF Holds
  <2> QED BY <2>1
<1>3. D = Nat
  <2> HIDE DEF Holds
  <2> QED BY <1>1, <1>2, NatSetInduction
<1>4. ASSUME NEW T \in Seq(Seq(X)) PROVE Holds(T)
  <2>1. Len(T) \in D
    BY <1>3, LenProperties
  <2> QED BY <2>1
<1> QED BY <1>4

\* A sequence parted before its last k strings is joined part by part.
LEMMA ConcatParted ==
    ASSUME NEW X, NEW S \in Seq(Seq(X)), NEW k \in 0..Len(S)
    PROVE  /\ SubSeq(S, 1, Len(S) - k) \in Seq(Seq(X)) /\ Buf!Last(S, k) \in Seq(Seq(X))
           /\ Len(SubSeq(S, 1, Len(S) - k)) = Len(S) - k
           /\ Buf!Concat(S) = Buf!Concat(SubSeq(S, 1, Len(S) - k)) \o Buf!Concat(Buf!Last(S, k))
<1> DEFINE c == Len(S)
           m == c - k
           A == SubSeq(S, 1, m)
           L == Buf!Last(S, k)
<1>1. c \in Nat /\ m \in 0..c /\ m + 1 = c - k + 1
  BY LenProperties
<1>2. \A i \in 1..c : S[i] \in Seq(X)
  BY ElementOfSeq
<1>3. A \in Seq(Seq(X)) /\ Len(A) = m
  <2>1. \A i \in 1..m : S[i] \in Seq(X)
    BY <1>1, <1>2
  <2>2. 1 \in Int /\ m \in Int
    BY <1>1
  <2>3. A \in Seq(Seq(X)) /\ Len(A) = IF 1 <= m THEN m - 1 + 1 ELSE 0
    <3> HIDE DEF m
    <3> QED BY <2>1, <2>2, SubSeqProperties
  <2> QED BY <1>1, <2>3
<1>4. L = SubSeq(S, m + 1, c) /\ L \in Seq(Seq(X))
  <2>1. \A i \in (m + 1)..c : S[i] \in Seq(X)
    BY <1>1, <1>2
  <2>2. m + 1 \in Int /\ c \in Int
    BY <1>1
  <2>3. SubSeq(S, m + 1, c) \in Seq(Seq(X))
    <3> HIDE DEF m, c
    <3> QED BY <2>1, <2>2, SubSeqProperties
  <2>4. L = SubSeq(S, m + 1, c)
    BY <1>1 DEF Buf!Last
  <2> QED BY <2>3, <2>4
<1>5. A \o L = S
  <2>1. 1 \in 1..(c + 1) /\ m \in (1 - 1)..c /\ c \in m..c
    BY <1>1
  <2>2. SubSeq(S, 1, m) \o SubSeq(S, m + 1, c) = SubSeq(S, 1, c)
    <3> HIDE DEF m
    <3> QED BY <2>1, ConcatAdjacentSubSeq
  <2>3. SubSeq(S, 1, c) = S
    BY SubSeqFull
  <2> QED BY <1>4, <2>2, <2>3
<1> HIDE DEF A, L
<1>6. Buf!Concat(A \o L) = Buf!Concat(A) \o Buf!Concat(L)
  BY <1>3, <1>4, ConcatBoth
<1> QED BY <1>3, <1>4, <1>5, <1>6 DEF A, L

-----------------------------------------------------------------------------
Buffers == [of : {"buffer"}, stack : Seq(Seq(Nat)), buff : Seq(Nat), lvl : Nat, n : Nat, done : BOOLEAN]
\* The first n characters.
Text(n) == [i \in 1..n |-> i]
\* b holds its text.
Holds(b) == /\ b \in Buffers /\ b.lvl = Len(b.stack)
            /\ Buf!Concat(b.stack) \o b.buff = Text(b.n)
\* ... and the array and the stack have room.
Roomy(b) == Holds(b) /\ b.lvl < Limit /\ Len(b.buff) <= BufferSize

\* The text before and a fresh string are the text after.
LEMMA FreshText ==
    ASSUME NEW n \in Nat, NEW k \in Nat
    PROVE  LET newer == [i \in 1..k |-> n + i]
           IN  /\ newer \in Seq(Nat) /\ Len(newer) = k
               /\ Text(n) \in Seq(Nat) /\ Text(n) \o newer = Text(n + k)
<1> DEFINE newer == [i \in 1..k |-> n + i]
<1>1. newer \in Seq(Nat) /\ Len(newer) = k /\ \A i \in 1..k : newer[i] = n + i
  <2>1. newer \in [1..k -> Nat]
    OBVIOUS
  <2>2. newer \in Seq(Nat)
    BY <2>1, SeqDef
  <2> QED BY <2>2
<1>2. ASSUME NEW m \in Nat
      PROVE  Text(m) \in Seq(Nat) /\ Len(Text(m)) = m /\ \A i \in 1..m : Text(m)[i] = i
  <2>1. Text(m) \in [1..m -> Nat]
    BY DEF Text
  <2>2. Text(m) \in Seq(Nat)
    BY <2>1, SeqDef
  <2> QED BY <2>2 DEF Text
<1> HIDE DEF newer
<1> DEFINE tn == Text(n)
           one == tn \o newer
           other == Text(n + k)
<1>3. tn \in Seq(Nat) /\ Len(tn) = n /\ \A i \in 1..n : tn[i] = i
  BY <1>2
<1>4. n + k \in Nat /\ other \in Seq(Nat) /\ Len(other) = n + k /\ \A i \in 1..(n + k) : other[i] = i
  <2>1. n + k \in Nat
    OBVIOUS
  <2> QED BY <1>2, <2>1
<1> HIDE DEF tn, other
<1>5. /\ one \in Seq(Nat) /\ Len(one) = n + k
      /\ \A i \in 1..(n + k) : one[i] = IF i <= n THEN tn[i] ELSE newer[i - n]
  BY <1>1, <1>3, ConcatProperties
<1> HIDE DEF one
<1>6. \A i \in 1..(n + k) : one[i] = i
  <2>1. ASSUME NEW i \in 1..(n + k), i <= n PROVE one[i] = i
    <3>1. i \in 1..n
      BY <2>1
    <3> QED BY <1>3, <1>5, <2>1, <3>1
  <2>2. ASSUME NEW i \in 1..(n + k), ~(i <= n) PROVE one[i] = i
    <3>1. i - n \in 1..k /\ n + (i - n) = i
      BY <2>2
    <3>2. one[i] = newer[i - n]
      BY <1>5, <2>2
    <3> QED BY <1>1, <3>1, <3>2
  <2> QED BY <2>1, <2>2
<1>7. one = other
  BY <1>4, <1>5, <1>6, SeqEqual
<1> QED BY <1>1, <1>3, <1>7 DEF newer, tn, one, other

\* emptybuffer keeps the text and leaves the array empty.
LEMMA EmptyHolds ==
    ASSUME NEW b, Holds(b)
    PROVE  LET e == Buf!EmptyBuffer(b)
           IN  Holds(e) /\ e.buff = <<>> /\ e.n = b.n /\ e.done = b.done
<1> DEFINE s == Append(b.stack, b.buff)
           e == [b EXCEPT !.stack = s, !.buff = <<>>, !.lvl = @ + 1]
<1>1. b \in Buffers /\ b.stack \in Seq(Seq(Nat)) /\ b.buff \in Seq(Nat) /\ b.lvl \in Nat
  BY DEF Holds, Buffers
<1>2. Append(b.stack, b.buff) \in Seq(Seq(Nat)) /\ Len(Append(b.stack, b.buff)) = Len(b.stack) + 1
  BY <1>1, AppendProperties
<1>3. Buf!Concat(Append(b.stack, b.buff)) = Buf!Concat(b.stack) \o b.buff /\ Buf!Concat(b.stack) \in Seq(Nat)
  BY <1>1, ConcatAppend
<1>4. <<>> \in Seq(Nat) /\ \A p \in Seq(Nat) : p \o <<>> = p
  BY ConcatEmptySeq, EmptySeq
<1>5. Buf!Concat(b.stack) \o b.buff \in Seq(Nat)
  BY <1>1, <1>3, ConcatProperties
<1>6. (Buf!Concat(b.stack) \o b.buff) \o <<>> = Text(b.n)
  BY <1>4, <1>5 DEF Holds
<1> HIDE DEF s
<1>7. /\ e.stack = s /\ e.buff = <<>> /\ e.lvl = b.lvl + 1
      /\ e.n = b.n /\ e.done = b.done /\ e \in Buffers
  <2>1. s \in Seq(Seq(Nat)) /\ <<>> \in Seq(Nat) /\ b.lvl + 1 \in Nat
    BY <1>1, <1>2, <1>4 DEF s
  <2> QED BY <1>1, <2>1 DEF Buffers
<1> HIDE DEF e
<1>8. Holds(e)
  <2>1. Buf!Concat(e.stack) \o e.buff = Text(e.n)
    BY <1>3, <1>6, <1>7, Zenon DEF s
  <2>2. e.lvl = Len(e.stack)
    BY <1>2, <1>7 DEF Holds, s
  <2> QED BY <1>7, <2>1, <2>2 DEF Holds
<1>9. CASE b.buff = <<>>
  BY <1>9 DEF Buf!EmptyBuffer
<1>10. CASE b.buff # <<>>
  <2>1. Buf!EmptyBuffer(b) = e
    BY <1>10 DEF Buf!EmptyBuffer, e, s
  <2> QED BY <1>7, <1>8, <2>1
<1> QED BY <1>9, <1>10

\* The loop of adjuststack ends: some number of strings is enough.
LEMMA ToGetIs ==
    ASSUME NEW b, b.lvl \in Nat \ {0}
    PROVE  Buf!ToGet(b) \in 1..b.lvl /\ Buf!Enough(b, Buf!ToGet(b))
<1> DEFINE G == {g \in 1..b.lvl : Buf!Enough(b, g)}
<1>1. G \subseteq Nat /\ b.lvl \in G
  BY DEF Buf!Enough
<1>2. PICK g \in G : \A h \in G : g <= h
  <2> HIDE DEF G
  <2>1. G # {}
    BY <1>1
  <2> QED BY <1>1, <2>1, LeastNumber
<1>3. ASSUME NEW h \in 1..(g - 1), Buf!Enough(b, h)
      PROVE  FALSE
  <2>1. h \in G
    BY <1>3
  <2> QED BY <1>2, <2>1
<1>4. g \in 1..b.lvl /\ Buf!Enough(b, g) /\ \A h \in 1..(g - 1) : ~Buf!Enough(b, h)
  BY <1>3
<1>5. \E x \in 1..b.lvl : Buf!Enough(b, x) /\ \A h \in 1..(x - 1) : ~Buf!Enough(b, h)
  BY <1>4, Zenon
<1> QED BY <1>5, Zenon DEF Buf!ToGet

\* adjuststack keeps the text and leaves fewer than LIMIT strings.
LEMMA AdjustHolds ==
    ASSUME Buf!BufferConstants, NEW b, Holds(b)
    PROVE  LET a == Buf!AdjustStack(b)
           IN  Holds(a) /\ a.lvl < Limit /\ a.buff = b.buff /\ a.n = b.n /\ a.done = b.done
<1>1. /\ b \in Buffers /\ b.stack \in Seq(Seq(Nat)) /\ b.buff \in Seq(Nat)
      /\ b.lvl \in Nat /\ b.lvl = Len(b.stack)
  BY DEF Holds, Buffers
<1>2. Limit \in Nat /\ 1 < Limit
  BY DEF Buf!BufferConstants
<1>3. CASE b.lvl <= 1
  BY <1>1, <1>2, <1>3 DEF Buf!AdjustStack
<1>4. CASE ~(b.lvl <= 1)
  <2> DEFINE k == Buf!ToGet(b)
             S == SubSeq(b.stack, 1, Len(b.stack) - k)
             t == Buf!Concat(Buf!Last(b.stack, k))
             A == Append(S, t)
             a == [b EXCEPT !.stack = A, !.lvl = @ - k + 1]
  <2>1. k \in 1..b.lvl /\ Buf!Enough(b, k)
    <3>1. b.lvl \in Nat \ {0}
      BY <1>1, <1>4
    <3> QED BY <3>1, ToGetIs
  <2>2. b.lvl - k \in Nat /\ b.lvl - k + 1 < Limit
    <3>1. CASE k >= b.lvl
      BY <1>1, <1>2, <2>1, <3>1
    <3>2. CASE b.lvl - k + 1 < Limit
      BY <1>1, <2>1, <3>2
    <3> QED BY <2>1, <3>1, <3>2 DEF Buf!Enough
  <2> HIDE DEF k
  <2>3. /\ S \in Seq(Seq(Nat)) /\ Len(S) = b.lvl - k /\ Buf!Last(b.stack, k) \in Seq(Seq(Nat))
        /\ Buf!Concat(b.stack) = Buf!Concat(S) \o t
    <3>1. k \in 0..Len(b.stack)
      BY <1>1, <2>1
    <3> QED BY <1>1, <3>1, ConcatParted
  <2>4. t \in Seq(Nat)
    <3>1. <<>> \in Seq(Nat)
      BY EmptySeq
    <3> QED BY <2>3, <3>1, ConcatAppend
  <2> HIDE DEF S, t
  <2>5. /\ Append(S, t) \in Seq(Seq(Nat)) /\ Len(Append(S, t)) = b.lvl - k + 1
        /\ Buf!Concat(Append(S, t)) = Buf!Concat(b.stack)
    <3>1. Append(S, t) \in Seq(Seq(Nat)) /\ Len(Append(S, t)) = Len(S) + 1
      BY <2>3, <2>4, AppendProperties
    <3>2. Buf!Concat(Append(S, t)) = Buf!Concat(S) \o t
      BY <2>3, <2>4, ConcatAppend
    <3> QED BY <2>3, <3>1, <3>2
  <2> HIDE DEF A
  <2>6. /\ a.stack = A /\ a.lvl = b.lvl - k + 1 /\ a.buff = b.buff
        /\ a.n = b.n /\ a.done = b.done /\ a \in Buffers
    <3>1. A \in Seq(Seq(Nat)) /\ b.lvl - k + 1 \in Nat
      BY <2>2, <2>5 DEF A
    <3> QED BY <1>1, <3>1 DEF Buffers
  <2> HIDE DEF a
  <2>7. Holds(a)
    BY <2>5, <2>6 DEF Holds, A
  <2>8. Buf!AdjustStack(b) = a
    BY <1>4 DEF Buf!AdjustStack, a, A, S, t, k
  <2> QED BY <2>2, <2>6, <2>7, <2>8
<1> QED BY <1>3, <1>4

\* luaL_prepbuffer keeps the text and leaves the array empty.
LEMMA PrepHolds ==
    ASSUME Buf!BufferConstants, NEW b, Roomy(b)
    PROVE  LET p == Buf!PrepBuffer(b)
           IN  Roomy(p) /\ p.buff = <<>> /\ p.n = b.n /\ p.done = b.done
<1> DEFINE e == Buf!EmptyBuffer(b)
           p == Buf!PrepBuffer(b)
<1>1. Holds(b)
  BY DEF Roomy
<1>2. CASE b.buff = <<>>
  BY <1>2 DEF Buf!PrepBuffer
<1>3. CASE b.buff # <<>>
  <2>1. p = Buf!AdjustStack(e)
    BY <1>3 DEF Buf!PrepBuffer
  <2>2. Holds(e) /\ e.buff = <<>> /\ e.n = b.n /\ e.done = b.done
    BY <1>1, EmptyHolds
  <2> HIDE DEF e, p
  <2>3. Holds(p) /\ p.lvl < Limit /\ p.buff = <<>> /\ p.n = b.n /\ p.done = b.done
    BY <2>1, <2>2, AdjustHolds
  <2>4. Len(p.buff) <= BufferSize
    <3>1. Len(<<>>) = 0 /\ BufferSize \in Nat
      BY DEF Buf!BufferConstants
    <3> QED BY <2>3, <3>1
  <2> QED BY <2>3, <2>4 DEF Roomy, p
<1> QED BY <1>2, <1>3

\* k characters written where the array has room for them.
LEMMA WriteHolds ==
    ASSUME Buf!BufferConstants, NEW b, Roomy(b), NEW k \in Nat, Len(b.buff) + k <= BufferSize
    PROVE  LET w == [b EXCEPT !.buff = @ \o Buf!Fresh(b, k), !.n = @ + k]
           IN  Roomy(w) /\ w.done = b.done /\ w.n = b.n + k
<1> DEFINE f == Buf!Fresh(b, k)
           g == b.buff \o f
           w == [b EXCEPT !.buff = g, !.n = @ + k]
<1>1. /\ b \in Buffers /\ b.stack \in Seq(Seq(Nat)) /\ b.buff \in Seq(Nat) /\ b.n \in Nat
      /\ b.lvl = Len(b.stack)
  BY DEF Roomy, Holds, Buffers
<1>2. f \in Seq(Nat) /\ Len(f) = k /\ Text(b.n) \o f = Text(b.n + k)
  BY <1>1, FreshText DEF Buf!Fresh
<1> HIDE DEF f
<1>3. b.buff \o f \in Seq(Nat) /\ Len(b.buff \o f) = Len(b.buff) + k
  BY <1>1, <1>2, ConcatProperties
<1>4. Buf!Concat(b.stack) \in Seq(Nat)
  <2>1. <<>> \in Seq(Nat)
    BY EmptySeq
  <2> QED BY <1>1, <2>1, ConcatAppend
<1>5. Buf!Concat(b.stack) \o (b.buff \o f) = Text(b.n + k)
  <2>1. (Buf!Concat(b.stack) \o b.buff) \o f = Buf!Concat(b.stack) \o (b.buff \o f)
    <3> DEFINE p == Buf!Concat(b.stack)
               q == b.buff
               X == Nat
    <3>1. p \in Seq(X) /\ q \in Seq(X) /\ f \in Seq(X)
      BY <1>1, <1>2, <1>4
    <3> HIDE DEF p, q, X
    <3>2. (p \o q) \o f = p \o (q \o f)
      BY <3>1, ConcatAssociative
    <3> QED BY <3>2 DEF p, q
  <2>2. Buf!Concat(b.stack) \o b.buff = Text(b.n)
    BY DEF Roomy, Holds
  <2> QED BY <1>2, <2>1, <2>2
<1> HIDE DEF g
<1>6. /\ w.stack = b.stack /\ w.buff = g /\ w.lvl = b.lvl /\ w.n = b.n + k
      /\ w.done = b.done /\ w \in Buffers
  <2>1. g \in Seq(Nat) /\ b.n + k \in Nat
    BY <1>1, <1>3 DEF g
  <2> QED BY <1>1, <2>1 DEF Buffers
<1> HIDE DEF w
<1>7. Roomy(w)
  <2>1. Buf!Concat(w.stack) \o w.buff = Text(w.n)
    BY <1>5, <1>6, Zenon DEF g
  <2>2. w.lvl < Limit /\ Len(w.buff) <= BufferSize
    BY <1>3, <1>6 DEF Roomy, g
  <2> QED BY <1>1, <1>6, <2>1, <2>2 DEF Roomy, Holds
<1> QED BY <1>6, <1>7 DEF w, g, f

\* luaL_addchar.
LEMMA CharHolds ==
    ASSUME Buf!BufferConstants, NEW b, Roomy(b)
    PROVE  LET a == Buf!AddChar(b)
           IN  Roomy(a) /\ a.done = b.done
<1> DEFINE r == IF Len(b.buff) < BufferSize THEN b ELSE Buf!PrepBuffer(b)
<1>1. BufferSize \in Nat \ {0}
  BY DEF Buf!BufferConstants
<1>2. Roomy(r) /\ r.done = b.done /\ Len(r.buff) + 1 <= BufferSize
  <2>1. CASE Len(b.buff) < BufferSize
    <3>1. Len(b.buff) \in Nat
      BY DEF Roomy, Holds, Buffers
    <3> QED BY <1>1, <2>1, <3>1
  <2>2. CASE ~(Len(b.buff) < BufferSize)
    <3>1. r = Buf!PrepBuffer(b)
      BY <2>2
    <3> HIDE DEF r
    <3>2. Roomy(r) /\ r.done = b.done /\ r.buff = <<>>
      BY <3>1, PrepHolds
    <3>3. Len(<<>>) = 0
      OBVIOUS
    <3> QED BY <1>1, <3>2, <3>3
  <2> QED BY <2>1, <2>2
<1> HIDE DEF r
<1> DEFINE w == [r EXCEPT !.buff = @ \o Buf!Fresh(r, 1), !.n = @ + 1]
<1>3. Roomy(w) /\ w.done = b.done
  BY <1>2, WriteHolds
<1>4. r.buff \o Buf!Fresh(r, 1) = Append(r.buff, r.n + 1)
  <2>1. r.n \in Nat /\ r.buff \in Seq(Nat)
    BY <1>2 DEF Roomy, Holds, Buffers
  <2>2. Buf!Fresh(r, 1) = << r.n + 1 >>
    BY <2>1 DEF Buf!Fresh
  <2>3. \A p \in Seq(Nat) : \A c \in Nat : Append(p, c) = p \o <<c>>
    BY AppendIsConcat
  <2>4. r.n + 1 \in Nat
    BY <2>1
  <2> QED BY <2>1, <2>2, <2>3, <2>4
<1>5. Buf!AddChar(b) = [r EXCEPT !.buff = Append(@, r.n + 1), !.n = @ + 1]
  BY DEF Buf!AddChar, r
<1>6. Buf!AddChar(b) = w
  BY <1>4, <1>5
<1> HIDE DEF w
<1> QED BY <1>3, <1>6

\* luaL_addlstring, a luaL_addchar for each character.
LEMMA LStringHolds ==
    ASSUME Buf!BufferConstants, NEW b, Roomy(b), NEW k \in Nat
    PROVE  LET a == Buf!AddLString(b, k)
           IN  Roomy(a) /\ a.done = b.done
<1> DEFINE V == {a \in Buffers : Roomy(a) /\ a.done = b.done}
           Step == [n \in Nat |-> [a \in V |-> Buf!AddChar(a)]]
           add == CHOOSE add : add = [m \in 0..k |-> IF m = 0 THEN b ELSE Buf!AddChar(add[m - 1])]
<1>1. b \in V /\ \A a \in V : Buf!AddChar(a) \in V
  <2>1. \A a : Roomy(a) => a \in Buffers
    BY DEF Roomy, Holds
  <2>2. ASSUME NEW a \in V PROVE Buf!AddChar(a) \in V
    <3>1. Roomy(Buf!AddChar(a)) /\ Buf!AddChar(a).done = a.done
      BY CharHolds
    <3> QED BY <2>1, <3>1
  <2> QED BY <2>1, <2>2
<1>2. Buf!AddLString(b, k) = add[k]
  BY Zenon DEF Buf!AddLString
<1> HIDE DEF V
<1>3. add \in [0..k -> V] /\ add = [m \in 0..k |-> IF m = 0 THEN b ELSE Buf!AddChar(add[m - 1])]
  <2>1. Step \in [Nat -> [V -> V]]
    BY <1>1
  <2>2. RecursiveUpTo(V, b, Step, k)
    <3> HIDE DEF Step
    <3> QED BY <1>1, <2>1, BoundedRecursion
  <2>3. PICK g \in [0..k -> V] : g = [n \in 0..k |-> IF n = 0 THEN b ELSE Step[n - 1][g[n - 1]]]
    BY <2>2 DEF RecursiveUpTo
  <2>4. ASSUME NEW n \in 0..k, n # 0
        PROVE  Step[n - 1][g[n - 1]] = Buf!AddChar(g[n - 1])
    <3>1. n - 1 \in Nat /\ n - 1 \in 0..k
      BY <2>4
    <3>2. g[n - 1] \in V
      BY <3>1
    <3> QED BY <3>1, <3>2
  <2> HIDE DEF Step
  <2>5. g = [m \in 0..k |-> IF m = 0 THEN b ELSE Buf!AddChar(g[m - 1])]
    BY <2>3, <2>4
  <2>6. add = [m \in 0..k |-> IF m = 0 THEN b ELSE Buf!AddChar(add[m - 1])]
    BY <2>5
  <2> HIDE DEF add
  <2> DEFINE T == {m \in Nat : m \in 0..k => add[m] \in V}
  <2>7. 0 \in T
    BY <1>1, <2>6
  <2>8. ASSUME NEW m \in T PROVE m + 1 \in T
    <3>1. CASE m + 1 \in 0..k
      <4>1. m \in Nat /\ m \in 0..k /\ m + 1 # 0 /\ (m + 1) - 1 = m
        BY <3>1
      <4>2. add[m + 1] = Buf!AddChar(add[(m + 1) - 1])
        BY <2>6, <3>1, <4>1, Zenon
      <4>3. add[m + 1] = Buf!AddChar(add[m])
        BY <4>1, <4>2, Zenon
      <4>4. add[m] \in V
        BY <4>1
      <4> QED BY <1>1, <4>1, <4>3, <4>4
    <3>2. CASE ~(m + 1 \in 0..k)
      BY <3>2
    <3> QED BY <3>1, <3>2
  <2>9. T = Nat
    BY <2>7, <2>8, NatSetInduction
  <2>10. \A m \in 0..k : add[m] \in V
    BY <2>9
  <2> QED BY <2>6, <2>10
<1> HIDE DEF add
<1>4. add[k] \in V
  BY <1>3
<1> QED BY <1>2, <1>4 DEF V

\* luaL_addvalue.
LEMMA ValueHolds ==
    ASSUME Buf!BufferConstants, NEW b, Roomy(b), NEW k \in Nat
    PROVE  LET a == Buf!AddValue(b, k)
           IN  Roomy(a) /\ a.done = b.done
<1> DEFINE a == Buf!AddValue(b, k)
           e == Buf!EmptyBuffer(b)
           f == Buf!Fresh(b, k)
           w == [e EXCEPT !.stack = Append(@, f), !.lvl = @ + 1, !.n = @ + k]
<1>1. BufferSize \in Nat /\ Holds(b) /\ Len(b.buff) \in Nat /\ b.n \in Nat
  BY DEF Buf!BufferConstants, Roomy, Holds, Buffers
<1>2. CASE k <= BufferSize - Len(b.buff)
  <2>1. Len(b.buff) + k <= BufferSize
    BY <1>1, <1>2
  <2>2. a = [b EXCEPT !.buff = @ \o Buf!Fresh(b, k), !.n = @ + k]
    BY <1>2 DEF Buf!AddValue
  <2> QED BY <2>1, <2>2, WriteHolds
<1>3. CASE ~(k <= BufferSize - Len(b.buff))
  <2>1. a = Buf!AdjustStack(w)
    BY <1>3 DEF Buf!AddValue
  <2>2. Holds(e) /\ e.buff = <<>> /\ e.n = b.n /\ e.done = b.done
    BY <1>1, EmptyHolds
  <2>3. f \in Seq(Nat) /\ Text(b.n) \o f = Text(b.n + k) /\ Text(b.n) \in Seq(Nat)
    BY <1>1, FreshText DEF Buf!Fresh
  <2> HIDE DEF a, e, f
  <2>4. /\ e \in Buffers /\ e.stack \in Seq(Seq(Nat)) /\ e.lvl \in Nat /\ e.n \in Nat
        /\ e.lvl = Len(e.stack)
    BY <2>2 DEF Holds, Buffers
  <2> DEFINE s == Append(e.stack, f)
  <2>5. /\ s \in Seq(Seq(Nat)) /\ Len(s) = Len(e.stack) + 1 /\ Buf!Concat(s) = Buf!Concat(e.stack) \o f
        /\ Buf!Concat(e.stack) \in Seq(Nat)
    <3>1. s \in Seq(Seq(Nat)) /\ Len(s) = Len(e.stack) + 1
      BY <2>3, <2>4, AppendProperties
    <3>2. Buf!Concat(s) = Buf!Concat(e.stack) \o f /\ Buf!Concat(e.stack) \in Seq(Nat)
      BY <2>3, <2>4, ConcatAppend
    <3> QED BY <3>1, <3>2
  <2> HIDE DEF s
  <2>6. /\ w.stack = s /\ w.buff = e.buff /\ w.lvl = e.lvl + 1 /\ w.n = e.n + k /\ w.done = e.done
        /\ w \in Buffers
    <3>1. e.n + k \in Nat /\ e.lvl + 1 \in Nat
      BY <2>4
    <3>2. w = [e EXCEPT !.stack = s, !.lvl = @ + 1, !.n = @ + k]
      BY DEF s
    <3> QED BY <2>4, <2>5, <3>1, <3>2 DEF Buffers
  <2> HIDE DEF w
  <2>7. Buf!Concat(w.stack) \o w.buff = Text(w.n)
    <3>1. \A p \in Seq(Nat) : p \o <<>> = p
      BY ConcatEmptySeq
    <3>2. Buf!Concat(e.stack) = Text(b.n)
      BY <2>2, <2>5, <3>1 DEF Holds
    <3>3. Buf!Concat(s) = Text(b.n + k)
      BY <2>3, <2>5, <3>2
    <3>4. Buf!Concat(s) \in Seq(Nat)
      <4>1. \A p, q \in Seq(Nat) : p \o q \in Seq(Nat)
        BY ConcatProperties
      <4> QED BY <2>3, <2>5, <4>1, Zenon
    <3>5. Buf!Concat(s) \o <<>> = Buf!Concat(s)
      BY <3>1, <3>4, Zenon
    <3> QED BY <2>2, <2>6, <3>3, <3>5
  <2>8. Holds(w)
    BY <2>4, <2>5, <2>6, <2>7 DEF Holds
  <2>9. Holds(a) /\ a.lvl < Limit /\ a.buff = w.buff /\ a.done = w.done
    BY <2>1, <2>8, AdjustHolds
  <2>10. Len(a.buff) <= BufferSize
    <3>1. Len(<<>>) = 0
      OBVIOUS
    <3> QED BY <1>1, <2>2, <2>6, <2>9, <3>1
  <2> QED BY <2>2, <2>6, <2>9, <2>10 DEF Roomy, a
<1> QED BY <1>2, <1>3

\* luaL_prepbuffer, then characters written into the array.
LEMMA FillHolds ==
    ASSUME Buf!BufferConstants, NEW b, Roomy(b), NEW k \in 1..BufferSize
    PROVE  LET a == Buf!Fill(b, k)
           IN  Roomy(a) /\ a.done = b.done
<1> DEFINE p == Buf!PrepBuffer(b)
<1>1. Roomy(p) /\ p.buff = <<>> /\ p.done = b.done
  BY PrepHolds
<1>2. Buf!Fill(b, k) = [p EXCEPT !.buff = @ \o Buf!Fresh(b, k), !.n = @ + k] /\ p.n = b.n
  BY PrepHolds DEF Buf!Fill
<1> HIDE DEF p
<1>3. Buf!Fresh(b, k) = Buf!Fresh(p, k)
  BY <1>2 DEF Buf!Fresh
<1>4. k \in Nat /\ Len(p.buff) + k <= BufferSize
  <2>1. BufferSize \in Nat /\ Len(<<>>) = 0
    BY DEF Buf!BufferConstants
  <2> QED BY <1>1, <2>1
<1> DEFINE w == [p EXCEPT !.buff = @ \o Buf!Fresh(p, k), !.n = @ + k]
<1>5. Roomy(w) /\ w.done = p.done
  BY <1>1, <1>4, WriteHolds
<1>6. Buf!Fill(b, k) = w
  BY <1>2, <1>3
<1> HIDE DEF w
<1> QED BY <1>1, <1>5, <1>6

\* luaL_pushresult leaves all of the text as one string.
LEMMA ResultHolds ==
    ASSUME Buf!BufferConstants, NEW b, Roomy(b)
    PROVE  LET a == Buf!PushResult(b)
           IN  Roomy(a) /\ Len(a.stack) = 1 /\ a.buff = <<>>
<1> DEFINE e == Buf!EmptyBuffer(b)
           c == Buf!Concat(e.stack)
           a == [e EXCEPT !.stack = <<c>>, !.lvl = 1, !.done = TRUE]
<1>1. Holds(e) /\ e.buff = <<>>
  BY EmptyHolds DEF Roomy
<1>2. Buf!PushResult(b) = a
  BY DEF Buf!PushResult
<1> HIDE DEF e
<1>3. e \in Buffers /\ e.stack \in Seq(Seq(Nat)) /\ e.n \in Nat
  BY <1>1 DEF Holds, Buffers
<1>4. c \in Seq(Nat)
  <2>1. <<>> \in Seq(Nat)
    BY EmptySeq
  <2> QED BY <1>3, <2>1, ConcatAppend
<1>5. Buf!Concat(<<c>>) = c
  BY <1>4, ConcatOne
<1>6. c \o <<>> = Text(e.n)
  BY <1>1 DEF Holds
<1> HIDE DEF c
<1>7. /\ a.stack = <<c>> /\ a.lvl = 1 /\ a.buff = <<>> /\ a.n = e.n /\ a \in Buffers
  <2>1. <<c>> \in Seq(Seq(Nat))
    BY <1>4
  <2> QED BY <1>1, <1>3, <2>1 DEF Buffers
<1> HIDE DEF a
<1>8. Len(<<c>>) = 1 /\ Len(<<>>) = 0 /\ 1 < Limit /\ 0 <= BufferSize
  BY DEF Buf!BufferConstants
<1>9. Buf!Concat(a.stack) \o a.buff = Text(a.n)
  BY <1>5, <1>6, <1>7
<1> QED BY <1>2, <1>7, <1>8, <1>9 DEF Roomy, Holds

-----------------------------------------------------------------------------
BufferInv == Roomy(library) /\ (library.done => Len(library.stack) = 1 /\ library.buff = <<>>)

\* A new buffer holds no text.
LEMMA BufferInit == Buf!BufferConstants /\ Buf!Init => BufferInv
<1> SUFFICES ASSUME Buf!BufferConstants, Buf!Init PROVE BufferInv
  OBVIOUS
<1>1. <<>> \in Seq(Nat) /\ <<>> \in Seq(Seq(Nat)) /\ Len(<<>>) = 0 /\ <<>> \o <<>> = <<>>
  <2>1. <<>> \in Seq(Nat) /\ <<>> \in Seq(Seq(Nat)) /\ Len(<<>>) = 0
    BY EmptySeq
  <2> QED BY <2>1, ConcatEmptySeq
<1>2. Text(0) = <<>>
  BY DEF Text
<1>3. Limit \in Nat /\ 0 < Limit /\ 0 <= BufferSize
  BY DEF Buf!BufferConstants
<1>4. library \in Buffers
  BY <1>1 DEF Buf!Init, Buffers
<1>5. /\ library.stack = <<>> /\ library.buff = <<>>
      /\ library.lvl = 0 /\ library.n = 0 /\ library.done = FALSE
  BY DEF Buf!Init
<1> QED BY <1>1, <1>2, <1>3, <1>4, <1>5, ConcatNone DEF BufferInv, Roomy, Holds

\* Every operation keeps the text.
LEMMA BufferStep == Buf!BufferConstants /\ BufferInv /\ [Buf!Next]_library => BufferInv'
<1> SUFFICES ASSUME Buf!BufferConstants, BufferInv, [Buf!Next]_library PROVE BufferInv'
  OBVIOUS
<1>1. Roomy(library)
  BY DEF BufferInv
<1>2. CASE UNCHANGED library
  BY <1>2 DEF BufferInv
<1>3. ASSUME NEW after, library' = after, Roomy(after),
             after.done => Len(after.stack) = 1 /\ after.buff = <<>>
      PROVE  BufferInv'
  BY <1>3 DEF BufferInv, Roomy, Holds
<1>4. CASE Buf!Next
  <2>1. Buf!Adding
    BY <1>4 DEF Buf!Next
  <2>2. ~library.done
    BY <2>1 DEF Buf!Adding
  <2>3. \A k \in Lengths : k \in Nat
    BY DEF Buf!BufferConstants
  <2>4. ASSUME NEW k \in Lengths, library' = Buf!AddLString(library, k) PROVE BufferInv'
    <3>1. k \in Nat
      BY <2>3
    <3> QED BY <1>1, <1>3, <2>2, <2>4, <3>1, LStringHolds
  <2>5. ASSUME NEW k \in Lengths, library' = Buf!AddValue(library, k) PROVE BufferInv'
    <3>1. k \in Nat
      BY <2>3
    <3> QED BY <1>1, <1>3, <2>2, <2>5, <3>1, ValueHolds
  <2>6. ASSUME NEW k \in 1..BufferSize, library' = Buf!Fill(library, k) PROVE BufferInv'
    BY <1>1, <1>3, <2>2, <2>6, FillHolds
  <2>7. ASSUME library' = Buf!PushResult(library) PROVE BufferInv'
    BY <1>1, <1>3, <2>7, ResultHolds
  <2> QED BY <1>4, <2>4, <2>5, <2>6, <2>7 DEF Buf!Next
<1> QED BY <1>2, <1>4

\* Whatever mixture of characters, strings and filled arrays a library function adds,
\* luaL_Buffer holds the text in its order, in fewer than LIMIT stack slots and one array.
THEOREM BuffersHoldText == Buf!Spec => []BufferHoldsText
<1>1. Buf!BufferConstants
  BY PartsConstants
<1>2. BufferInv => BufferHoldsText
  BY DEF BufferInv, Roomy, Holds, Text, BufferHoldsText, Buf!BufferHoldsText
<1>3. Buf!Init => BufferInv
  BY <1>1, BufferInit
<1>4. BufferInv /\ [Buf!Next]_library => BufferInv'
  BY <1>1, BufferStep
<1> QED BY <1>2, <1>3, <1>4, PTL DEF Buf!Spec

-----------------------------------------------------------------------------
(* Lists: elements that move within a part.                                 *)

Elements == Int \X Int

\* y has the elements of x: the same outside of lo..hi, and each other's inside.
Within(x, y, lo, hi) ==
    /\ x \in Seq(Elements) /\ y \in Seq(Elements) /\ Len(y) = Len(x)
    /\ lo \in Int /\ hi \in Int /\ 1 <= lo /\ hi <= Len(x)
    /\ \A k \in 1..Len(x) : ~(lo <= k /\ k <= hi) => y[k] = x[k]
    /\ \A k \in lo..hi : (\E h \in lo..hi : y[k] = x[h]) /\ (\E h \in lo..hi : x[k] = y[h])

\* Two elements of a part change places.
LEMMA WithinSwap ==
    ASSUME NEW x \in Seq(Elements), NEW lo \in Int, NEW hi \in Int, 1 <= lo, hi <= Len(x),
           NEW i \in lo..hi, NEW j \in lo..hi
    PROVE  /\ Within(x, Lst!Swap(x, i, j), lo, hi)
           /\ Lst!Swap(x, i, j)[i] = x[j] /\ Lst!Swap(x, i, j)[j] = x[i]
           /\ \A k \in 1..Len(x) : k # i /\ k # j => Lst!Swap(x, i, j)[k] = x[k]
<1> DEFINE n == Len(x)
           y == Lst!Swap(x, i, j)
<1>1. n \in Nat /\ x \in [1..n -> Elements] /\ DOMAIN x = 1..n
  BY LenProperties
<1>2. i \in 1..n /\ j \in 1..n
  BY <1>1
<1>3. x[i] \in Elements /\ x[j] \in Elements
  BY <1>1, <1>2
<1>4. y = [k \in 1..n |-> IF k = j THEN x[i] ELSE IF k = i THEN x[j] ELSE x[k]]
  BY <1>1, <1>2 DEF Lst!Swap
<1> HIDE DEF y, n
<1>5. y \in [1..n -> Elements]
  BY <1>1, <1>3, <1>4
<1>6. y \in Seq(Elements) /\ Len(y) = n
  <2>1. y \in Seq(Elements)
    BY <1>1, <1>5, SeqDef
  <2>2. DOMAIN y = 1..n
    BY <1>5
  <2>3. Len(y) \in Nat /\ DOMAIN y = 1..Len(y)
    BY <2>1, LenProperties
  <2> QED BY <1>1, <2>1, <2>2, <2>3
<1>7. y[i] = x[j] /\ y[j] = x[i] /\ \A k \in 1..n : k # i /\ k # j => y[k] = x[k]
  BY <1>2, <1>4
<1>8. ASSUME NEW k \in lo..hi
      PROVE  (\E h \in lo..hi : y[k] = x[h]) /\ (\E h \in lo..hi : x[k] = y[h])
  <2>0. k \in 1..n
    BY <1>1 DEF n
  <2>1. CASE k = i
    BY <1>7, <2>1
  <2>2. CASE k = j
    BY <1>7, <2>2
  <2>3. CASE k # i /\ k # j
    BY <1>7, <2>0, <2>3
  <2> QED BY <2>1, <2>2, <2>3
<1>9. \A k \in 1..n : ~(lo <= k /\ k <= hi) => y[k] = x[k]
  BY <1>7
<1> QED BY <1>6, <1>7, <1>8, <1>9 DEF Within, y, n

\* One exchange after another.
LEMMA WithinTrans ==
    ASSUME NEW x, NEW y, NEW z, NEW lo, NEW hi, Within(x, y, lo, hi), Within(y, z, lo, hi)
    PROVE  Within(x, z, lo, hi)
<1>1. /\ Len(y) = Len(x) /\ Len(z) = Len(y)
      /\ x \in Seq(Elements) /\ z \in Seq(Elements)
      /\ lo \in Int /\ hi \in Int /\ 1 <= lo /\ hi <= Len(x)
  BY DEF Within
<1>2. \A k \in 1..Len(x) : ~(lo <= k /\ k <= hi) => z[k] = x[k]
  BY DEF Within
<1>3. ASSUME NEW k \in lo..hi
      PROVE  (\E h \in lo..hi : z[k] = x[h]) /\ (\E h \in lo..hi : x[k] = z[h])
  <2>1. PICK g \in lo..hi : z[k] = y[g]
    BY DEF Within
  <2>2. PICK h \in lo..hi : y[g] = x[h]
    BY DEF Within
  <2>3. PICK g2 \in lo..hi : x[k] = y[g2]
    BY DEF Within
  <2>4. PICK h2 \in lo..hi : y[g2] = z[h2]
    BY DEF Within
  <2> QED BY <2>1, <2>2, <2>3, <2>4
<1> QED BY <1>1, <1>2, <1>3, Zenon DEF Within

\* Nothing moved.
LEMMA WithinSelf ==
    ASSUME NEW x \in Seq(Elements), NEW lo \in Int, NEW hi \in Int, 1 <= lo, hi <= Len(x)
    PROVE  Within(x, x, lo, hi)
BY DEF Within

\* The keys of a list are integers.
LEMMA KeysAre ==
    ASSUME NEW x \in Seq(Elements)
    PROVE  Len(x) \in Nat /\ \A k \in 1..Len(x) : x[k] \in Elements /\ x[k][1] \in Int
<1>1. Len(x) \in Nat /\ x \in [1..Len(x) -> Elements]
  BY LenProperties
<1> QED BY <1>1 DEF Elements

\* The median of three puts three elements in order.
LEMMA MedianSorts ==
    ASSUME NEW x \in Seq(Elements), NEW lo \in Int, NEW hi \in Int, NEW mid \in lo..hi,
           1 <= lo, lo < hi, hi <= Len(x), hi - lo # 1 => lo < mid /\ mid < hi
    PROVE  LET y == Lst!MedianOfThree(x, lo, mid, hi)
           IN  /\ Within(x, y, lo, hi) /\ y[lo][1] <= y[hi][1]
               /\ hi - lo # 1 => y[lo][1] <= y[mid][1] /\ y[mid][1] <= y[hi][1]
<1> DEFINE b == IF Lst!Less(x[hi], x[lo]) THEN Lst!Swap(x, lo, hi) ELSE x
           y == Lst!MedianOfThree(x, lo, mid, hi)
<1>1. lo \in lo..hi /\ hi \in lo..hi /\ mid \in lo..hi
  OBVIOUS
<1>2. \A k \in lo..hi : k \in 1..Len(x)
  BY KeysAre
<1>3. \A k \in lo..hi : x[k][1] \in Int
  BY <1>2, KeysAre
<1>4. Within(x, b, lo, hi) /\ b[lo][1] <= b[hi][1]
  <2>1. CASE Lst!Less(x[hi], x[lo])
    <3>1. b = Lst!Swap(x, lo, hi)
      BY <2>1
    <3> HIDE DEF b
    <3>2. Within(x, b, lo, hi) /\ b[lo] = x[hi] /\ b[hi] = x[lo]
      BY <1>1, <3>1, WithinSwap
    <3> QED BY <1>1, <1>3, <2>1, <3>2 DEF Lst!Less
  <2>2. CASE ~Lst!Less(x[hi], x[lo])
    BY <1>1, <1>3, <2>2, WithinSelf DEF Lst!Less
  <2> QED BY <2>1, <2>2
<1> HIDE DEF b
<1>5. b \in Seq(Elements) /\ Len(b) = Len(x)
  BY <1>4 DEF Within
<1>6. \A k \in lo..hi : k \in 1..Len(b) /\ b[k][1] \in Int
  BY <1>2, <1>5, KeysAre
<1>7. y = IF hi - lo = 1 THEN b
          ELSE IF Lst!Less(b[mid], b[lo]) THEN Lst!Swap(b, mid, lo)
          ELSE IF Lst!Less(b[hi], b[mid]) THEN Lst!Swap(b, mid, hi) ELSE b
  BY DEF Lst!MedianOfThree, b
<1> DEFINE Goal == /\ Within(x, y, lo, hi) /\ y[lo][1] <= y[hi][1]
                   /\ hi - lo # 1 => y[lo][1] <= y[mid][1] /\ y[mid][1] <= y[hi][1]
<1> SUFFICES Goal
  OBVIOUS
<1> HIDE DEF y
<1>8. CASE hi - lo = 1
  BY <1>4, <1>7, <1>8
<1>9. CASE hi - lo # 1 /\ Lst!Less(b[mid], b[lo])
  <2>1. y = Lst!Swap(b, mid, lo)
    BY <1>7, <1>9
  <2>2. hi \in 1..Len(b) /\ hi # mid /\ hi # lo
    BY <1>1, <1>6, <1>9
  <2>3. Within(b, y, lo, hi) /\ y[mid] = b[lo] /\ y[lo] = b[mid] /\ y[hi] = b[hi]
    BY <1>1, <1>5, <2>1, <2>2, WithinSwap
  <2>4. Within(x, y, lo, hi)
    BY <1>4, <2>3, WithinTrans
  <2> QED BY <1>1, <1>4, <1>6, <1>9, <2>3, <2>4 DEF Lst!Less
<1>10. CASE hi - lo # 1 /\ ~Lst!Less(b[mid], b[lo]) /\ Lst!Less(b[hi], b[mid])
  <2>1. y = Lst!Swap(b, mid, hi)
    BY <1>7, <1>10
  <2>2. lo \in 1..Len(b) /\ lo # mid /\ hi # lo
    BY <1>1, <1>6, <1>10
  <2>3. Within(b, y, lo, hi) /\ y[mid] = b[hi] /\ y[hi] = b[mid] /\ y[lo] = b[lo]
    BY <1>1, <1>5, <2>1, <2>2, WithinSwap
  <2>4. Within(x, y, lo, hi)
    BY <1>4, <2>3, WithinTrans
  <2> QED BY <1>1, <1>4, <1>6, <1>10, <2>3, <2>4 DEF Lst!Less
<1>11. CASE hi - lo # 1 /\ ~Lst!Less(b[mid], b[lo]) /\ ~Lst!Less(b[hi], b[mid])
  BY <1>1, <1>4, <1>6, <1>7, <1>11 DEF Lst!Less
<1> QED BY <1>8, <1>9, <1>10, <1>11

-----------------------------------------------------------------------------
\* The parts on the stack lie in a list of n elements ...
Parted(stack, n) == \A k \in 1..Len(stack) : /\ stack[k] \in Int \X Int
                                             /\ 1 <= stack[k][1] /\ stack[k][2] <= n
                                             /\ stack[k][1] <= stack[k][2] + 1
\* ... apart from each other ...
Apart(stack) == \A k, h \in 1..Len(stack) :
                    k # h => stack[k][2] < stack[h][1] \/ stack[h][2] < stack[k][1]
\* ... each at most half of what was sorted when its call began ...
Halving(stack, n) == n > 0 => \A k \in 1..Len(stack) :
                        /\ stack[k][1] <= stack[k][2]
                        /\ (stack[k][2] - stack[k][1] + 2) * Lst!Pow2[k - 1] <= n + 1
\* ... and only elements of one part are still out of order.
Ordered(x, stack) == \A p, q \in 1..Len(x) :
                        p < q => \/ x[p][1] <= x[q][1]
                                 \/ \E k \in 1..Len(stack) : stack[k][1] <= p /\ q <= stack[k][2]
\* x has the elements of a.
Same(a, x) == Len(x) = Len(a) /\ \A i \in 1..Len(a) : \E j \in 1..Len(x) : x[j] = a[i]

\* Moving elements within a part keeps them all.
LEMMA SameWithin ==
    ASSUME NEW a, NEW x, NEW y, NEW lo, NEW hi, Same(a, x), Within(x, y, lo, hi)
    PROVE  Same(a, y)
<1>1. Len(y) = Len(x) /\ Len(x) = Len(a) /\ Len(x) \in Nat /\ lo \in Int /\ hi \in Int /\ 1 <= lo /\ hi <= Len(x)
  BY KeysAre DEF Within, Same
<1>2. ASSUME NEW i \in 1..Len(a)
      PROVE  \E j \in 1..Len(y) : y[j] = a[i]
  <2>1. PICK j \in 1..Len(x) : x[j] = a[i]
    BY DEF Same
  <2>2. CASE lo <= j /\ j <= hi
    <3>1. j \in lo..hi
      BY <1>1, <2>2
    <3>2. PICK h \in lo..hi : x[j] = y[h]
      BY <3>1 DEF Within
    <3>3. h \in 1..Len(y)
      BY <1>1
    <3> QED BY <2>1, <3>2, <3>3
  <2>3. CASE ~(lo <= j /\ j <= hi)
    <3>1. y[j] = x[j]
      BY <2>3 DEF Within
    <3> QED BY <1>1, <2>1, <3>1
  <2> QED BY <2>2, <2>3
<1> QED BY <1>1, <1>2 DEF Same

\* ... and the order to the elements outside of the part.
LEMMA OrderedWithin ==
    ASSUME NEW x, NEW y, NEW stack, NEW c \in 1..Len(stack),
           Parted(stack, Len(x)), Apart(stack), Ordered(x, stack), Len(stack) \in Nat,
           Within(x, y, stack[c][1], stack[c][2])
    PROVE  Ordered(y, stack)
<1> DEFINE lo == stack[c][1]
           hi == stack[c][2]
<1>1. /\ x \in Seq(Elements) /\ y \in Seq(Elements) /\ Len(y) = Len(x) /\ Len(x) \in Nat
      /\ lo \in Int /\ hi \in Int /\ 1 <= lo /\ hi <= Len(x)
  BY KeysAre DEF Within
<1>2. \A k \in 1..Len(x) : x[k][1] \in Int /\ y[k][1] \in Int
  BY <1>1, KeysAre
<1>3. \A k \in 1..Len(x) : ~(lo <= k /\ k <= hi) => y[k] = x[k]
  BY DEF Within
<1>4. \A k \in 1..Len(x) : lo <= k /\ k <= hi => \E h \in lo..hi : y[k] = x[h]
  BY <1>1 DEF Within
<1>5. \A p, q \in 1..Len(x) : p < q => \/ x[p][1] <= x[q][1]
                                       \/ \E k \in 1..Len(stack) : stack[k][1] <= p /\ q <= stack[k][2]
  BY DEF Ordered
<1>6. \A k \in 1..Len(stack) : k # c => /\ stack[k][1] \in Int /\ stack[k][2] \in Int
                                        /\ stack[k][2] < lo \/ hi < stack[k][1]
  BY DEF Apart, Parted
<1> HIDE DEF lo, hi
<1>7. SUFFICES ASSUME NEW p \in 1..Len(x), NEW q \in 1..Len(x), p < q,
                      ~ \E k \in 1..Len(stack) : stack[k][1] <= p /\ q <= stack[k][2]
               PROVE  y[p][1] <= y[q][1]
  BY <1>1 DEF Ordered
<1>8. \A g, h \in 1..Len(x) : g < h /\ ~(\E k \in 1..Len(stack) : stack[k][1] <= g /\ h <= stack[k][2])
                               => x[g][1] <= x[h][1]
  BY <1>5
<1>9. ~(lo <= p /\ q <= hi)
  BY <1>7 DEF lo, hi
<1>10. CASE lo <= p /\ p <= hi
  <2>1. hi < q
    BY <1>1, <1>9, <1>10
  <2>2. PICK h \in lo..hi : y[p] = x[h]
    BY <1>4, <1>10
  <2>3. h \in 1..Len(x) /\ h < q
    BY <1>1, <2>1
  <2>4. ASSUME NEW k \in 1..Len(stack), stack[k][1] <= h, q <= stack[k][2]
        PROVE  FALSE
    <3>1. CASE k = c
      BY <1>1, <2>1, <2>4, <3>1 DEF hi
    <3>2. CASE k # c
      <4>1. stack[k][1] \in Int /\ stack[k][2] \in Int /\ (stack[k][2] < lo \/ hi < stack[k][1])
        BY <1>6, <3>2
      <4> QED BY <1>1, <1>10, <2>1, <2>4, <4>1
    <3> QED BY <3>1, <3>2
  <2>5. x[h][1] <= x[q][1]
    BY <1>8, <2>3, <2>4
  <2>6. y[q] = x[q]
    BY <1>1, <1>3, <2>1
  <2> QED BY <2>2, <2>5, <2>6
<1>11. CASE lo <= q /\ q <= hi
  <2>1. p < lo
    BY <1>1, <1>9, <1>11
  <2>2. PICK h \in lo..hi : y[q] = x[h]
    BY <1>4, <1>11
  <2>3. h \in 1..Len(x) /\ p < h
    BY <1>1, <2>1
  <2>4. ASSUME NEW k \in 1..Len(stack), stack[k][1] <= p, h <= stack[k][2]
        PROVE  FALSE
    <3>1. CASE k = c
      BY <1>1, <2>1, <2>4, <3>1 DEF lo
    <3>2. CASE k # c
      <4>1. stack[k][1] \in Int /\ stack[k][2] \in Int /\ (stack[k][2] < lo \/ hi < stack[k][1])
        BY <1>6, <3>2
      <4> QED BY <1>1, <1>11, <2>1, <2>4, <4>1
    <3> QED BY <3>1, <3>2
  <2>5. x[p][1] <= x[h][1]
    BY <1>8, <2>3, <2>4
  <2>6. y[p] = x[p]
    BY <1>1, <1>3, <2>1
  <2> QED BY <2>2, <2>5, <2>6
<1>12. CASE ~(lo <= p /\ p <= hi) /\ ~(lo <= q /\ q <= hi)
  <2>1. y[p] = x[p] /\ y[q] = x[q]
    BY <1>3, <1>12
  <2>2. x[p][1] <= x[q][1]
    BY <1>7, <1>8
  <2> QED BY <2>1, <2>2
<1> QED BY <1>10, <1>11, <1>12

\* Pow2 is what its recursion says.
LEMMA Doubles ==
    /\ Lst!Pow2[0] = 1
    /\ \A n \in Nat : Lst!Pow2[n] \in Nat /\ Lst!Pow2[n] > n /\ Lst!Pow2[n + 1] = 2 * Lst!Pow2[n]
<1> DEFINE Step == [n \in Nat |-> [x \in Nat |-> 2 * x]]
           Is(f) == f = [n \in Nat |-> IF n = 0 THEN 1 ELSE 2 * f[n - 1]]
<1>1. Step \in [Nat -> [Nat -> Nat]]
  OBVIOUS
<1>2. PICK f \in [Nat -> Nat] : f[0] = 1 /\ \A n \in Nat : f[n + 1] = Step[n][f[n]]
  <2> HIDE DEF Step
  <2>1. Recursive(Nat, 1, Step)
    BY <1>1, Recursion
  <2> QED BY <2>1 DEF Recursive
<1>3. \A n \in Nat : f[n + 1] = 2 * f[n]
  BY <1>2
<1>4. Is(f)
  <2>1. ASSUME NEW n \in Nat PROVE f[n] = IF n = 0 THEN 1 ELSE 2 * f[n - 1]
    <3>1. CASE n = 0
      BY <1>2, <3>1
    <3>2. CASE n # 0
      <4>1. n - 1 \in Nat /\ (n - 1) + 1 = n
        BY <3>2
      <4> QED BY <1>3, <3>2, <4>1
    <3> QED BY <3>1, <3>2
  <2>2. f = [n \in Nat |-> f[n]]
    BY <1>2
  <2> QED BY <2>1, <2>2
<1>5. Is(Lst!Pow2)
  <2>1. Lst!Pow2 = CHOOSE g : Is(g)
    BY Zenon DEF Lst!Pow2
  <2> HIDE DEF Is
  <2> QED BY <1>4, <2>1
<1>6. Lst!Pow2[0] = 1 /\ \A n \in Nat : Lst!Pow2[n + 1] = 2 * Lst!Pow2[n]
  BY <1>5
<1> DEFINE T == {n \in Nat : Lst!Pow2[n] \in Nat /\ Lst!Pow2[n] > n}
<1>7. 0 \in T
  BY <1>6
<1>8. ASSUME NEW n \in T PROVE n + 1 \in T
  BY <1>6
<1>9. T = Nat
  BY <1>7, <1>8, NatSetInduction
<1>10. \A n \in Nat : Lst!Pow2[n] \in Nat /\ Lst!Pow2[n] > n
  BY <1>9
<1> QED BY <1>6, <1>10

\* What a return leaves of the stack ...
LEMMA Popped ==
    ASSUME NEW D, NEW stack \in Seq(D), stack # <<>>
    PROVE  LET d == Len(stack)
               w == SubSeq(stack, 1, d - 1)
           IN  /\ d \in Nat \ {0} /\ w \in Seq(D) /\ Len(w) = d - 1
               /\ \A k \in 1..(d - 1) : w[k] = stack[k]
<1> DEFINE d == Len(stack)
           w == SubSeq(stack, 1, d - 1)
<1>1. d \in Nat \ {0} /\ stack \in [1..d -> D]
  BY EmptySeq, LenProperties
<1>2. \A k \in 1..(d - 1) : stack[k] \in D
  BY <1>1
<1>3. d - 1 \in Int /\ 1 \in Int
  BY <1>1
<1> HIDE DEF d
<1>4. /\ w \in Seq(D) /\ Len(w) = IF 1 <= d - 1 THEN d - 1 - 1 + 1 ELSE 0
      /\ \A k \in 1..(d - 1 - 1 + 1) : w[k] = stack[1 + k - 1]
  BY <1>2, <1>3, SubSeqProperties
<1>5. Len(w) = d - 1
  BY <1>1, <1>4
<1>6. ASSUME NEW k \in 1..(d - 1) PROVE w[k] = stack[k]
  <2>1. k \in 1..(d - 1 - 1 + 1) /\ 1 + k - 1 = k
    BY <1>1
  <2> QED BY <1>4, <2>1
<1> QED BY <1>1, <1>4, <1>5, <1>6 DEF d

\* w has r and s in the place of the part on top of the stack.
PutOn(set, stack, w, r, s) ==
    /\ w \in Seq(set) /\ Len(w) = Len(stack) + 1
    /\ \A k \in 1..(Len(stack) - 1) : w[k] = stack[k]
    /\ w[Len(stack)] = r /\ w[Len(stack) + 1] = s

\* ... and the two halves put in the place of a part.
LEMMA Replaced ==
    ASSUME NEW set, NEW stack \in Seq(set), stack # <<>>, NEW one \in set, NEW two \in set,
           NEW result, result = SubSeq(stack, 1, Len(stack) - 1) \o <<one, two>>
    PROVE  PutOn(set, stack, result, one, two)
<1> DEFINE d == Len(stack)
           v == SubSeq(stack, 1, d - 1)
           z == <<one, two>>
<1>1. /\ d \in Nat \ {0} /\ v \in Seq(set) /\ Len(v) = d - 1
      /\ \A k \in 1..(d - 1) : v[k] = stack[k]
  BY Popped
<1>2. z \in Seq(set) /\ Len(z) = 2 /\ z[1] = one /\ z[2] = two
  OBVIOUS
<1> HIDE DEF d, v, z
<1> DEFINE y == v \o z
<1>0. result = y
  BY DEF d, v, z
<1>3. /\ y \in Seq(set) /\ Len(y) = Len(v) + Len(z)
      /\ \A k \in 1..(Len(v) + Len(z)) : y[k] = IF k <= Len(v) THEN v[k] ELSE z[k - Len(v)]
  BY <1>1, <1>2, ConcatProperties
<1> HIDE DEF y
<1>8. Len(v) + Len(z) = d + 1
  BY <1>1, <1>2
<1>4. Len(y) = d + 1 /\ \A k \in 1..(d + 1) : y[k] = IF k <= d - 1 THEN v[k] ELSE z[k - (d - 1)]
  BY <1>1, <1>3, <1>8
<1>5. y[d] = one
  <2>1. d \in 1..(d + 1) /\ ~(d <= d - 1) /\ d - (d - 1) = 1
    BY <1>1
  <2> QED BY <1>2, <1>4, <2>1
<1>6. y[d + 1] = two
  <2>1. d + 1 \in 1..(d + 1) /\ ~(d + 1 <= d - 1) /\ (d + 1) - (d - 1) = 2
    BY <1>1
  <2> QED BY <1>2, <1>4, <2>1
<1>7. ASSUME NEW k \in 1..(d - 1) PROVE y[k] = stack[k]
  <2>1. k \in 1..(d + 1) /\ k <= d - 1
    BY <1>1
  <2> QED BY <1>1, <1>4, <2>1
<1> QED BY <1>0, <1>3, <1>4, <1>5, <1>6, <1>7 DEF d, PutOn

\* What holds of the stack of a list of n elements that x is now.
Stacked(x, stack, n) == /\ stack \in Seq(Int \X Int) /\ n \in Nat /\ x \in Seq(Elements) /\ Len(x) = n
                        /\ Parted(stack, n) /\ Apart(stack) /\ Halving(stack, n) /\ Ordered(x, stack)

\* A part that is in order can be left.
LEMMA LeaveSorted ==
    ASSUME NEW x, NEW stack, NEW n, Stacked(x, stack, n), stack # <<>>,
           \A p, q \in stack[Len(stack)][1]..stack[Len(stack)][2] : p < q => x[p][1] <= x[q][1]
    PROVE  Stacked(x, SubSeq(stack, 1, Len(stack) - 1), n)
<1> DEFINE d == Len(stack)
           w == SubSeq(stack, 1, d - 1)
<1>1. /\ d \in Nat \ {0} /\ w \in Seq(Int \X Int) /\ Len(w) = d - 1
      /\ \A k \in 1..(d - 1) : w[k] = stack[k]
  BY Popped DEF Stacked
<1>2. \A k \in 1..Len(w) : k \in 1..d /\ w[k] = stack[k]
  BY <1>1
<1>3. \A k \in 1..d : k # d => k \in 1..Len(w) /\ w[k] = stack[k]
  BY <1>1
<1> DEFINE lo == stack[d][1]
           hi == stack[d][2]
<1>4. lo \in Int /\ hi \in Int /\ \A p, q \in lo..hi : p < q => x[p][1] <= x[q][1]
  BY <1>1 DEF Stacked, Parted
<1>5. n \in Nat /\ Len(x) = n
  BY DEF Stacked
<1> HIDE DEF w, lo, hi
<1>6. Parted(w, n)
  BY <1>2 DEF Stacked, Parted, d
<1>7. Apart(w)
  BY <1>2 DEF Stacked, Apart, d
<1>8. Halving(w, n)
  BY <1>2 DEF Stacked, Halving, d
<1>9. Ordered(x, w)
  <2> SUFFICES ASSUME NEW p \in 1..Len(x), NEW q \in 1..Len(x), p < q, ~(x[p][1] <= x[q][1])
               PROVE  \E k \in 1..Len(w) : w[k][1] <= p /\ q <= w[k][2]
    BY DEF Ordered
  <2>1. PICK k \in 1..d : stack[k][1] <= p /\ q <= stack[k][2]
    BY DEF Stacked, Ordered, d
  <2>2. k # d
    <3> SUFFICES ASSUME k = d PROVE FALSE
      OBVIOUS
    <3>1. lo <= p /\ q <= hi
      BY <2>1 DEF lo, hi
    <3>2. p \in lo..hi /\ q \in lo..hi
      BY <1>4, <1>5, <3>1
    <3> QED BY <1>4, <3>2
  <2> QED BY <1>3, <2>1, <2>2
<1> QED BY <1>1, <1>5, <1>6, <1>7, <1>8, <1>9 DEF Stacked, w, d

\* A factor does not turn a bound round.
LEMMA Factor ==
    ASSUME NEW x \in Int, NEW y \in Int, NEW c \in Nat, x <= y
    PROVE  x * c <= y * c /\ x * c \in Int /\ y * c \in Int
<1>1. (y - x) * c >= 0
  OBVIOUS
<1>2. (y - x) * c = y * c - x * c
  OBVIOUS
<1>3. x * c \in Int /\ y * c \in Int
  OBVIOUS
<1> QED BY <1>1, <1>2, <1>3

\* i parts lo..hi, the part on top of the stack, into the halves r and s, of which
\* s is no longer than r.
Halved(x, stack, lo, hi, i, r1, r2, s1, s2) ==
    /\ lo \in Int /\ hi \in Int /\ i \in Int /\ r1 \in Int /\ r2 \in Int /\ s1 \in Int /\ s2 \in Int
    /\ stack # <<>> /\ lo = stack[Len(stack)][1] /\ hi = stack[Len(stack)][2]
    /\ lo < i /\ i < hi
    /\ \A k \in lo..(i - 1) : x[k][1] <= x[i][1]
    /\ \A k \in (i + 1)..hi : x[i][1] <= x[k][1]
    /\ \/ i - lo < hi - i /\ r1 = i + 1 /\ r2 = hi /\ s1 = lo /\ s2 = i - 1
       \/ ~(i - lo < hi - i) /\ r1 = lo /\ r2 = i - 1 /\ s1 = i + 1 /\ s2 = hi

\* What the halves are.
LEMMA HalvesAre ==
    ASSUME NEW x, NEW stack, NEW lo \in Int, NEW hi \in Int, NEW i \in Int,
           NEW r1 \in Int, NEW r2 \in Int, NEW s1 \in Int, NEW s2 \in Int,
           Halved(x, stack, lo, hi, i, r1, r2, s1, s2)
    PROVE  /\ lo \in Int /\ hi \in Int /\ i \in Int /\ lo < i /\ i < hi
           /\ r1 \in Int /\ r2 \in Int /\ s1 \in Int /\ s2 \in Int
           /\ lo <= r1 /\ r1 <= r2 /\ r2 <= hi
           /\ lo <= s1 /\ s1 <= s2 /\ s2 <= hi
           /\ r2 < s1 \/ s2 < r1
           /\ 2 * (s2 - s1 + 2) <= hi - lo + 2
<1>1. /\ lo < i /\ i < hi
      /\ \/ i - lo < hi - i /\ r1 = i + 1 /\ r2 = hi /\ s1 = lo /\ s2 = i - 1
         \/ ~(i - lo < hi - i) /\ r1 = lo /\ r2 = i - 1 /\ s1 = i + 1 /\ s2 = hi
  BY DEF Halved
<1> QED BY <1>1

\* A part whose elements are in order to its pivot at i can be replaced by its
\* halves, the smaller one on top.
LEMMA SplitPart ==
    ASSUME NEW x, NEW stack, NEW n, Stacked(x, stack, n), n > 0,
           NEW lo \in Int, NEW hi \in Int, NEW i \in Int,
           NEW r1 \in Int, NEW r2 \in Int, NEW s1 \in Int, NEW s2 \in Int,
           Halved(x, stack, lo, hi, i, r1, r2, s1, s2),
           NEW w, PutOn(Int \X Int, stack, w, <<r1, r2>>, <<s1, s2>>)
    PROVE  Stacked(x, w, n)
<1> DEFINE d == Len(stack)
<1>1. /\ w \in Seq(Int \X Int) /\ Len(w) = d + 1 /\ d \in Nat \ {0}
      /\ \A k \in 1..(d - 1) : w[k] = stack[k]
      /\ w[d] = <<r1, r2>> /\ w[d + 1] = <<s1, s2>>
  <2>1. stack \in Seq(Int \X Int) /\ stack # <<>>
    BY DEF Stacked, Halved
  <2>2. d \in Nat \ {0}
    BY <2>1, Popped
  <2> QED BY <2>2 DEF PutOn
<1>2. lo \in Int /\ hi \in Int /\ 1 <= lo /\ hi <= n /\ n \in Nat /\ Len(x) = n
  <2>1. d \in 1..Len(stack)
    BY <1>1
  <2> QED BY <2>1 DEF Stacked, Parted, Halved
<1>3. \A k \in 1..Len(w) : \/ k \in 1..(d - 1) /\ k \in 1..Len(stack) /\ k # d /\ w[k] = stack[k]
                           \/ (k = d /\ w[k] = <<r1, r2>>) \/ (k = d + 1 /\ w[k] = <<s1, s2>>)
  <2> SUFFICES ASSUME NEW k \in 1..(d + 1)
               PROVE  \/ k \in 1..(d - 1) /\ k \in 1..Len(stack) /\ k # d /\ w[k] = stack[k]
                      \/ (k = d /\ w[k] = <<r1, r2>>) \/ (k = d + 1 /\ w[k] = <<s1, s2>>)
    BY <1>1
  <2> HIDE DEF d
  <2>1. k \in 1..(d - 1) \/ k = d \/ k = d + 1
    BY <1>1
  <2>2. k \in 1..(d - 1) => k \in 1..d /\ k # d
    BY <1>1
  <2>3. CASE k \in 1..(d - 1)
    <3>1. w[k] = stack[k]
      BY <1>1, <2>3
    <3> QED BY <2>2, <2>3, <3>1 DEF d
  <2>4. CASE k = d
    <3>1. w[k] = <<r1, r2>>
      BY <1>1, <2>4
    <3> QED BY <2>4, <3>1
  <2>5. CASE k = d + 1
    BY <1>1, <2>5
  <2> QED BY <2>1, <2>3, <2>4, <2>5
<1>4. /\ r1 \in Int /\ r2 \in Int /\ s1 \in Int /\ s2 \in Int
      /\ lo <= r1 /\ r1 <= r2 /\ r2 <= hi
      /\ lo <= s1 /\ s1 <= s2 /\ s2 <= hi
      /\ r2 < s1 \/ s2 < r1
      /\ 2 * (s2 - s1 + 2) <= hi - lo + 2
  BY HalvesAre
<1>5. \A p, q \in lo..hi : p < q /\ ~(x[p][1] <= x[q][1]) =>
                              (r1 <= p /\ q <= r2) \/ (s1 <= p /\ q <= s2)
  <2> SUFFICES ASSUME NEW p \in lo..hi, NEW q \in lo..hi, p < q, ~(x[p][1] <= x[q][1])
               PROVE  (r1 <= p /\ q <= r2) \/ (s1 <= p /\ q <= s2)
    OBVIOUS
  <2>0. /\ i \in Int /\ lo < i /\ i < hi
        /\ \/ i - lo < hi - i /\ r1 = i + 1 /\ r2 = hi /\ s1 = lo /\ s2 = i - 1
           \/ ~(i - lo < hi - i) /\ r1 = lo /\ r2 = i - 1 /\ s1 = i + 1 /\ s2 = hi
    BY DEF Halved
  <2> SUFFICES ASSUME p <= i, i <= q PROVE FALSE
    <3>1. p \in Int /\ q \in Int /\ lo <= p /\ q <= hi
      OBVIOUS
    <3>2. (r1 <= p /\ q <= r2) \/ (s1 <= p /\ q <= s2) \/ (p <= i /\ i <= q)
      BY <2>0, <3>1
    <3> QED BY <3>2
  <2>1. p \in 1..n /\ q \in 1..n /\ i \in 1..n
    BY <1>2, <2>0
  <2>2. x[p][1] \in Int /\ x[q][1] \in Int /\ x[i][1] \in Int
    BY <1>2, <2>1, KeysAre DEF Stacked
  <2>3. x[p][1] <= x[i][1]
    <3>1. CASE p = i
      BY <2>2, <3>1
    <3>2. CASE p # i
      <4>1. p \in lo..(i - 1)
        BY <1>2, <2>0, <3>2
      <4> QED BY <4>1 DEF Halved
    <3> QED BY <3>1, <3>2
  <2>4. x[i][1] <= x[q][1]
    <3>1. CASE q = i
      BY <2>2, <3>1
    <3>2. CASE q # i
      <4>1. q \in (i + 1)..hi
        BY <1>2, <2>0, <3>2
      <4> QED BY <4>1 DEF Halved
    <3> QED BY <3>1, <3>2
  <2> QED BY <2>2, <2>3, <2>4
<1>6. /\ lo = stack[d][1] /\ hi = stack[d][2] /\ d \in 1..Len(stack)
  BY <1>1 DEF Halved
<1>7. \A k \in 1..Len(stack) : k # d => /\ stack[k][1] \in Int /\ stack[k][2] \in Int
                                        /\ stack[k][2] < lo \/ hi < stack[k][1]
  BY <1>6 DEF Stacked, Parted, Apart
<1> HIDE DEF d
<1>8. Parted(w, n)
  <2> SUFFICES ASSUME NEW k \in 1..Len(w)
               PROVE  /\ w[k] \in Int \X Int /\ 1 <= w[k][1] /\ w[k][2] <= n /\ w[k][1] <= w[k][2] + 1
    BY DEF Parted
  <2>1. CASE k \in 1..Len(stack) /\ w[k] = stack[k]
    BY <2>1 DEF Stacked, Parted
  <2>2. CASE w[k] = <<r1, r2>>
    <3>1. 1 <= r1 /\ r2 <= n /\ r1 <= r2 + 1
      BY <1>2, <1>4
    <3> QED BY <2>2, <3>1
  <2>3. CASE w[k] = <<s1, s2>>
    <3>1. 1 <= s1 /\ s2 <= n /\ s1 <= s2 + 1
      BY <1>2, <1>4
    <3> QED BY <2>3, <3>1
  <2> QED BY <1>3, <2>1, <2>2, <2>3
<1>9. Apart(w)
  <2> SUFFICES ASSUME NEW k \in 1..Len(w), NEW h \in 1..Len(w), k # h
               PROVE  w[k][2] < w[h][1] \/ w[h][2] < w[k][1]
    BY DEF Apart
  <2> DEFINE Old(g) == g \in 1..Len(stack) /\ g # d /\ w[g] = stack[g]
             New2(g) == (g = d /\ w[g] = <<r1, r2>>) \/ (g = d + 1 /\ w[g] = <<s1, s2>>)
  <2>1. Old(k) \/ New2(k)
    BY <1>3
  <2>2. Old(h) \/ New2(h)
    BY <1>3
  <2>3. CASE Old(k) /\ Old(h)
    BY <2>3 DEF Stacked, Apart
  <2>4. CASE Old(k) /\ New2(h)
    <3>1. stack[k][1] \in Int /\ stack[k][2] \in Int /\ (stack[k][2] < lo \/ hi < stack[k][1])
      BY <1>7, <2>4
    <3>2. w[h] = <<r1, r2>> \/ w[h] = <<s1, s2>>
      BY <2>4
    <3>3. w[k] = stack[k]
      BY <2>4
    <3>4. stack[k][2] < r1 \/ r2 < stack[k][1]
      BY <1>4, <3>1
    <3>5. stack[k][2] < s1 \/ s2 < stack[k][1]
      BY <1>4, <3>1
    <3> QED BY <3>2, <3>3, <3>4, <3>5
  <2>5. CASE New2(k) /\ Old(h)
    <3>1. stack[h][1] \in Int /\ stack[h][2] \in Int /\ (stack[h][2] < lo \/ hi < stack[h][1])
      BY <1>7, <2>5
    <3>2. w[k] = <<r1, r2>> \/ w[k] = <<s1, s2>>
      BY <2>5
    <3>3. w[h] = stack[h]
      BY <2>5
    <3>4. stack[h][2] < r1 \/ r2 < stack[h][1]
      BY <1>4, <3>1
    <3>5. stack[h][2] < s1 \/ s2 < stack[h][1]
      BY <1>4, <3>1
    <3> QED BY <3>2, <3>3, <3>4, <3>5
  <2>6. CASE New2(k) /\ New2(h)
    <3>1. d # d + 1
      BY <1>1
    <3> QED BY <1>4, <2>6, <3>1
  <2> QED BY <2>1, <2>2, <2>3, <2>4, <2>5, <2>6
<1>10. Halving(w, n)
  <2>1. \A k \in 1..Len(stack) : /\ stack[k][1] <= stack[k][2]
                                 /\ (stack[k][2] - stack[k][1] + 2) * Lst!Pow2[k - 1] <= n + 1
    BY DEF Stacked, Halving
  <2>2. Lst!Pow2[d - 1] \in Nat /\ Lst!Pow2[d] \in Nat /\ Lst!Pow2[d] = 2 * Lst!Pow2[d - 1]
    <3>1. d - 1 \in Nat /\ (d - 1) + 1 = d /\ d \in Nat
      BY <1>1
    <3>2. Lst!Pow2[(d - 1) + 1] = 2 * Lst!Pow2[d - 1]
      BY <3>1, Doubles
    <3> QED BY <3>1, <3>2, Doubles
  <2>3. (hi - lo + 2) * Lst!Pow2[d - 1] <= n + 1
    BY <1>6, <2>1
  <2> SUFFICES ASSUME NEW k \in 1..Len(w)
               PROVE  w[k][1] <= w[k][2] /\ (w[k][2] - w[k][1] + 2) * Lst!Pow2[k - 1] <= n + 1
    BY DEF Halving
  <2>4. CASE k \in 1..Len(stack) /\ w[k] = stack[k]
    BY <2>1, <2>4
  <2>5. CASE k = d /\ w[k] = <<r1, r2>>
    <3>1. r2 - r1 + 2 <= hi - lo + 2 /\ r2 - r1 + 2 \in Int /\ hi - lo + 2 \in Int
      BY <1>4
    <3>2. /\ (r2 - r1 + 2) * Lst!Pow2[d - 1] <= (hi - lo + 2) * Lst!Pow2[d - 1]
          /\ (r2 - r1 + 2) * Lst!Pow2[d - 1] \in Int /\ (hi - lo + 2) * Lst!Pow2[d - 1] \in Int
      BY <2>2, <3>1, Factor
    <3>3. (r2 - r1 + 2) * Lst!Pow2[d - 1] <= n + 1
      <4> DEFINE a == (r2 - r1 + 2) * Lst!Pow2[d - 1]
                 b == (hi - lo + 2) * Lst!Pow2[d - 1]
      <4>1. a \in Int /\ b \in Int
        BY <3>2
      <4>2. a <= b /\ b <= n + 1
        BY <2>3, <3>2
      <4> HIDE DEF a, b
      <4>3. a <= n + 1
        BY <1>2, <4>1, <4>2
      <4> QED BY <4>3 DEF a
    <3> QED BY <1>4, <2>5, <3>3
  <2>6. CASE k = d + 1 /\ w[k] = <<s1, s2>>
    <3> DEFINE z == s2 - s1 + 2
               y == hi - lo + 2
               c == Lst!Pow2[d - 1]
    <3>1. z \in Int /\ y \in Int /\ 2 * z <= y /\ c \in Nat /\ 2 * z \in Int
      BY <1>4, <2>2
    <3>2. y * c <= n + 1
      BY <2>3
    <3>3. k - 1 = d
      BY <1>1, <2>6
    <3>4. Lst!Pow2[k - 1] = 2 * c
      BY <2>2, <3>3
    <3> HIDE DEF z, y, c
    <3>5. (2 * z) * c <= y * c
      BY <3>1, Factor
    <3>6. (2 * z) * c = z * (2 * c) /\ (2 * z) * c \in Int /\ y * c \in Int
      BY <3>1
    <3>7. z * (2 * c) <= n + 1
      <4> DEFINE a == (2 * z) * c
                 b == y * c
      <4>1. a \in Int /\ b \in Int /\ a <= b /\ b <= n + 1
        BY <3>2, <3>5, <3>6
      <4> HIDE DEF a, b
      <4>2. a <= n + 1
        BY <1>2, <4>1
      <4> QED BY <3>6, <4>2 DEF a
    <3> QED BY <1>4, <2>6, <3>4, <3>7 DEF z
  <2> QED BY <1>3, <2>4, <2>5, <2>6
<1>11. Ordered(x, w)
  <2> SUFFICES ASSUME NEW p \in 1..Len(x), NEW q \in 1..Len(x), p < q, ~(x[p][1] <= x[q][1])
               PROVE  \E k \in 1..Len(w) : w[k][1] <= p /\ q <= w[k][2]
    BY DEF Ordered
  <2>1. PICK k \in 1..Len(stack) : stack[k][1] <= p /\ q <= stack[k][2]
    BY DEF Stacked, Ordered
  <2>2. CASE k = d
    <3>1. lo <= p /\ q <= hi
      BY <1>6, <2>1, <2>2
    <3>2. p \in lo..hi /\ q \in lo..hi
      BY <1>2, <3>1
    <3>3. (r1 <= p /\ q <= r2) \/ (s1 <= p /\ q <= s2)
      BY <1>5, <3>2
    <3>4. d \in 1..(d + 1) /\ d + 1 \in 1..(d + 1) /\ Len(w) = d + 1
      <4>1. d \in Nat \ {0} /\ Len(w) = d + 1
        BY <1>1
      <4> QED BY <4>1
    <3>5. w[d][1] = r1 /\ w[d][2] = r2 /\ w[d + 1][1] = s1 /\ w[d + 1][2] = s2
      BY <1>1
    <3> QED BY <3>3, <3>4, <3>5
  <2>3. CASE k # d
    <3>0. k \in 1..d
      BY DEF d
    <3>1. k \in 1..(d - 1) /\ k \in 1..(d + 1)
      BY <1>1, <2>3, <3>0
    <3> QED BY <1>1, <2>1, <3>1
  <2> QED BY <2>2, <2>3
<1> QED BY <1>1, <1>8, <1>9, <1>10, <1>11 DEF Stacked

-----------------------------------------------------------------------------
\* The keys from lo to hi are at most, or at least, that of the pivot.
Lowered(x, lo, hi, pivot) == \A k \in lo..hi : x[k][1] <= pivot[1]
Raised(x, lo, hi, pivot) == \A k \in lo..hi : pivot[1] <= x[k][1]

\* Where the scans of the part lo..hi are: what they have passed is on its side of the pivot.
Scans(x, lo, hi, pivot, i, j, at) ==
    /\ hi - lo > 2 /\ x[hi - 1] = pivot
    /\ at = "up" => /\ lo <= i /\ i < hi - 1 /\ i <= j /\ lo < j /\ j <= hi - 1
                    /\ Lowered(x, lo, i, pivot) /\ Raised(x, j, hi, pivot)
    /\ at = "down" => /\ lo < i /\ i <= hi - 1 /\ i <= j + 1 /\ lo < j /\ j <= hi - 1
                      /\ Lowered(x, lo, i - 1, pivot) /\ pivot[1] <= x[i][1] /\ Raised(x, j, hi, pivot)
    /\ at = "sides" => /\ lo < i /\ i <= hi - 1 /\ lo <= j /\ j <= hi - 2
                       /\ Lowered(x, lo, i - 1, pivot) /\ pivot[1] <= x[i][1]
                       /\ Raised(x, j + 1, hi, pivot) /\ x[j][1] <= pivot[1]

\* lo..hi is a part of the list x.
PartOf(x, lo, hi) == x \in Seq(Elements) /\ lo \in Int /\ hi \in Int /\ 1 <= lo /\ hi <= Len(x)

\* The elements of a part are elements of the list.
LEMMA PartIs ==
    ASSUME NEW x, NEW lo, NEW hi, PartOf(x, lo, hi)
    PROVE  \A k \in lo..hi : k \in 1..Len(x) /\ x[k] \in Elements /\ x[k][1] \in Int
<1>1. /\ x \in Seq(Elements) /\ lo \in Int /\ hi \in Int /\ 1 <= lo /\ hi <= Len(x) /\ Len(x) \in Nat
      /\ \A k \in 1..Len(x) : x[k] \in Elements /\ x[k][1] \in Int
  BY KeysAre DEF PartOf
<1> QED BY <1>1

\* The middle of a part.
LEMMA MiddleIs ==
    ASSUME NEW lo \in Int, NEW hi \in Int, lo < hi
    PROVE  LET mid == (lo + hi) \div 2
           IN  /\ mid \in Int /\ lo <= mid /\ mid < hi
               /\ hi - lo = 1 => mid = lo
               /\ hi - lo = 2 => mid = lo + 1
               /\ hi - lo >= 2 => lo < mid
OBVIOUS

\* Up to three elements are in order after the median of three.
LEMMA FewSorts ==
    ASSUME NEW x, NEW lo, NEW hi, PartOf(x, lo, hi), lo < hi, hi - lo <= 2,
           NEW y, y = Lst!MedianOfThree(x, lo, (lo + hi) \div 2, hi)
    PROVE  Within(x, y, lo, hi) /\ \A p, q \in lo..hi : p < q => y[p][1] <= y[q][1]
<1> DEFINE mid == (lo + hi) \div 2
<1>1. lo \in Int /\ hi \in Int /\ x \in Seq(Elements) /\ 1 <= lo /\ hi <= Len(x)
  BY DEF PartOf
<1>2. /\ mid \in Int /\ lo <= mid /\ mid < hi
      /\ hi - lo = 1 => mid = lo
      /\ hi - lo = 2 => mid = lo + 1
  BY <1>1, MiddleIs
<1> HIDE DEF mid
<1>3. mid \in lo..hi /\ (hi - lo # 1 => lo < mid /\ mid < hi) /\ (hi - lo = 1 \/ hi - lo = 2)
  BY <1>1, <1>2
<1>4. y = Lst!MedianOfThree(x, lo, mid, hi)
  BY DEF mid
<1>5. /\ Within(x, y, lo, hi) /\ y[lo][1] <= y[hi][1]
      /\ hi - lo # 1 => y[lo][1] <= y[mid][1] /\ y[mid][1] <= y[hi][1]
  BY <1>1, <1>3, <1>4, MedianSorts
<1>6. ASSUME NEW p \in lo..hi, NEW q \in lo..hi, p < q PROVE y[p][1] <= y[q][1]
  <2>1. CASE hi - lo = 1
    <3>1. p = lo /\ q = hi
      BY <1>1, <1>6, <2>1
    <3> QED BY <1>5, <3>1
  <2>2. CASE hi - lo = 2
    <3>1. (p = lo /\ q = mid) \/ (p = lo /\ q = hi) \/ (p = mid /\ q = hi)
      BY <1>1, <1>2, <1>6, <2>2
    <3>2. hi - lo # 1
      BY <2>2
    <3> QED BY <1>5, <3>1, <3>2
  <2> QED BY <1>3, <2>1, <2>2
<1> QED BY <1>5, <1>6

\* The pivot is put before the last element, and the scans begin at the ends.
LEMMA PivotPlaced ==
    ASSUME NEW x, NEW lo, NEW hi, PartOf(x, lo, hi), hi - lo > 2,
           NEW mid, mid = (lo + hi) \div 2, NEW y, y = Lst!MedianOfThree(x, lo, mid, hi),
           NEW z, z = Lst!Swap(y, mid, hi - 1)
    PROVE  Within(x, z, lo, hi) /\ Scans(z, lo, hi, z[hi - 1], lo, hi - 1, "up")
<1>1. lo \in Int /\ hi \in Int /\ x \in Seq(Elements) /\ 1 <= lo /\ hi <= Len(x)
  BY DEF PartOf
<1>2. mid \in lo..hi /\ lo < mid /\ mid < hi /\ lo < hi
  <2>1. lo < hi /\ hi - lo >= 2
    BY <1>1
  <2> QED BY <1>1, <2>1, MiddleIs
<1>3. Within(x, y, lo, hi) /\ y[lo][1] <= y[mid][1] /\ y[mid][1] <= y[hi][1]
  <2>1. hi - lo # 1
    BY <1>1
  <2> QED BY <1>1, <1>2, <2>1, MedianSorts
<1>4. y \in Seq(Elements) /\ hi <= Len(y) /\ hi - 1 \in lo..hi
  BY <1>1, <1>3 DEF Within
<1>5. /\ Within(y, z, lo, hi) /\ z[hi - 1] = y[mid]
      /\ \A k \in 1..Len(y) : k # mid /\ k # hi - 1 => z[k] = y[k]
  BY <1>1, <1>2, <1>4, WithinSwap
<1>6. z[lo] = y[lo] /\ z[hi] = y[hi]
  <2>1. lo \in 1..Len(y) /\ hi \in 1..Len(y) /\ lo # hi - 1 /\ hi # hi - 1
    BY <1>1, <1>4, KeysAre
  <2> QED BY <1>1, <1>2, <1>5, <2>1
<1>7. Within(x, z, lo, hi)
  BY <1>3, <1>5, WithinTrans
<1>8. \A k \in lo..hi : z[k][1] \in Int
  <2>1. PartOf(z, lo, hi)
    BY <1>5 DEF Within, PartOf
  <2> QED BY <2>1, PartIs
<1>9. Lowered(z, lo, lo, z[hi - 1])
  <2>1. z[lo][1] <= z[hi - 1][1]
    BY <1>3, <1>5, <1>6
  <2>2. \A k \in lo..lo : k = lo
    BY <1>1
  <2> QED BY <2>1, <2>2 DEF Lowered
<1>10. Raised(z, hi - 1, hi, z[hi - 1])
  <2>1. z[hi - 1][1] <= z[hi][1]
    BY <1>3, <1>5, <1>6
  <2>2. z[hi - 1][1] <= z[hi - 1][1]
    <3>1. z[hi - 1][1] \in Int
      BY <1>4, <1>8
    <3> QED BY <3>1
  <2>3. \A k \in (hi - 1)..hi : k = hi - 1 \/ k = hi
    BY <1>1
  <2> QED BY <2>1, <2>2, <2>3 DEF Raised
<1>11. /\ hi - lo > 2 /\ lo <= lo /\ lo < hi - 1 /\ lo <= hi - 1 /\ hi - 1 <= hi - 1
  BY <1>1
<1> QED BY <1>7, <1>9, <1>10, <1>11 DEF Scans

\* The scan from below stays in the part, and stops at an element that is not less.
LEMMA ScanUp ==
    ASSUME NEW x, NEW lo, NEW hi, PartOf(x, lo, hi), NEW pivot \in Elements,
           NEW i \in Int, NEW j \in Int, Scans(x, lo, hi, pivot, i, j, "up")
    PROVE  /\ Lst!Less(x[i + 1], pivot) => Scans(x, lo, hi, pivot, i + 1, j, "up") /\ ~(i + 1 > hi)
           /\ ~Lst!Less(x[i + 1], pivot) => Scans(x, lo, hi, pivot, i + 1, j, "down")
<1>1. lo \in Int /\ hi \in Int /\ \A k \in lo..hi : x[k][1] \in Int
  BY PartIs DEF PartOf
<1>2. /\ hi - lo > 2 /\ x[hi - 1] = pivot
      /\ lo <= i /\ i < hi - 1 /\ i <= j /\ lo < j /\ j <= hi - 1
      /\ \A k \in lo..i : x[k][1] <= pivot[1]
      /\ \A k \in j..hi : pivot[1] <= x[k][1]
  BY DEF Scans, Lowered, Raised
<1>3. pivot[1] \in Int /\ i + 1 \in lo..hi /\ x[i + 1][1] \in Int /\ i + 1 <= hi - 1
  BY <1>1, <1>2 DEF Elements
<1>4. CASE Lst!Less(x[i + 1], pivot)
  <2>1. x[i + 1][1] < pivot[1] /\ x[i + 1][1] <= pivot[1]
    BY <1>3, <1>4 DEF Lst!Less
  <2>2. i + 1 # hi - 1
    BY <1>2, <1>3, <2>1
  <2>3. i + 1 <= j
    <3> SUFFICES ASSUME i = j PROVE FALSE
      BY <1>2
    <3>1. i + 1 \in j..hi
      BY <1>1, <1>3
    <3> QED BY <1>2, <1>3, <2>1, <3>1
  <2>4. Lowered(x, lo, i + 1, pivot)
    <3>1. \A k \in lo..(i + 1) : k \in lo..i \/ k = i + 1
      BY <1>1
    <3> QED BY <1>2, <2>1, <3>1 DEF Lowered
  <2>5. lo <= i + 1 /\ i + 1 < hi - 1 /\ ~(i + 1 > hi)
    BY <1>1, <1>2, <1>3, <2>2
  <2>6. Raised(x, j, hi, pivot)
    BY <1>2 DEF Raised
  <2>7. Scans(x, lo, hi, pivot, i + 1, j, "up")
    BY <1>2, <2>3, <2>4, <2>5, <2>6 DEF Scans
  <2> QED BY <1>4, <2>5, <2>7
<1>5. CASE ~Lst!Less(x[i + 1], pivot)
  <2>1. pivot[1] <= x[i + 1][1]
    BY <1>3, <1>5 DEF Lst!Less
  <2>2. lo < i + 1 /\ i + 1 <= hi - 1 /\ i + 1 <= j + 1 /\ (i + 1) - 1 = i
    BY <1>1, <1>2
  <2>3. Lowered(x, lo, (i + 1) - 1, pivot) /\ Raised(x, j, hi, pivot)
    BY <1>2, <2>2 DEF Lowered, Raised
  <2>4. Scans(x, lo, hi, pivot, i + 1, j, "down")
    BY <1>2, <2>1, <2>2, <2>3 DEF Scans
  <2> QED BY <1>5, <2>4
<1> QED BY <1>4, <1>5

\* The scan from above stays in the part, and stops at an element that is not greater.
LEMMA ScanDown ==
    ASSUME NEW x, NEW lo, NEW hi, PartOf(x, lo, hi), NEW pivot \in Elements,
           NEW i \in Int, NEW j \in Int, Scans(x, lo, hi, pivot, i, j, "down")
    PROVE  /\ Lst!Less(pivot, x[j - 1]) => Scans(x, lo, hi, pivot, i, j - 1, "down") /\ ~(j - 1 < lo)
           /\ ~Lst!Less(pivot, x[j - 1]) => Scans(x, lo, hi, pivot, i, j - 1, "sides")
<1>1. lo \in Int /\ hi \in Int /\ \A k \in lo..hi : x[k][1] \in Int
  BY PartIs DEF PartOf
<1>2. /\ hi - lo > 2 /\ x[hi - 1] = pivot
      /\ lo < i /\ i <= hi - 1 /\ i <= j + 1 /\ lo < j /\ j <= hi - 1
      /\ \A k \in lo..(i - 1) : x[k][1] <= pivot[1]
      /\ pivot[1] <= x[i][1]
      /\ \A k \in j..hi : pivot[1] <= x[k][1]
  BY DEF Scans, Lowered, Raised
<1>3. pivot[1] \in Int /\ j - 1 \in lo..hi /\ x[j - 1][1] \in Int
  BY <1>1, <1>2 DEF Elements
<1>6. Lowered(x, lo, i - 1, pivot)
  BY <1>2 DEF Lowered
<1>4. CASE Lst!Less(pivot, x[j - 1])
  <2>1. pivot[1] < x[j - 1][1] /\ pivot[1] <= x[j - 1][1]
    BY <1>3, <1>4 DEF Lst!Less
  <2>2. j - 1 # lo
    <3>1. lo \in lo..(i - 1)
      BY <1>1, <1>2
    <3> QED BY <1>2, <1>3, <2>1, <3>1
  <2>3. i <= j
    <3> SUFFICES ASSUME i = j + 1 PROVE FALSE
      BY <1>2
    <3>1. j - 1 \in lo..(i - 1)
      BY <1>1, <1>2, <1>3
    <3> QED BY <1>2, <1>3, <2>1, <3>1
  <2>4. Raised(x, j - 1, hi, pivot)
    <3>1. \A k \in (j - 1)..hi : k \in j..hi \/ k = j - 1
      BY <1>1
    <3> QED BY <1>2, <2>1, <3>1 DEF Raised
  <2>5. lo < j - 1 /\ j - 1 <= hi - 1 /\ ~(j - 1 < lo) /\ i <= (j - 1) + 1
    BY <1>1, <1>2, <1>3, <2>2, <2>3
  <2>7. Scans(x, lo, hi, pivot, i, j - 1, "down")
    BY <1>2, <1>6, <2>4, <2>5 DEF Scans
  <2> QED BY <1>4, <2>5, <2>7
<1>5. CASE ~Lst!Less(pivot, x[j - 1])
  <2>1. x[j - 1][1] <= pivot[1]
    BY <1>3, <1>5 DEF Lst!Less
  <2>2. lo <= j - 1 /\ j - 1 <= hi - 2 /\ (j - 1) + 1 = j
    BY <1>1, <1>2
  <2>3. Raised(x, (j - 1) + 1, hi, pivot)
    BY <1>2, <2>2 DEF Raised
  <2>4. Scans(x, lo, hi, pivot, i, j - 1, "sides")
    BY <1>2, <1>6, <2>1, <2>2, <2>3 DEF Scans
  <2> QED BY <1>5, <2>4
<1> QED BY <1>4, <1>5

\* Two elements on the wrong sides change places, and the scans go on.
LEMMA Exchanged ==
    ASSUME NEW x, NEW lo, NEW hi, PartOf(x, lo, hi), NEW pivot \in Elements,
           NEW i \in Int, NEW j \in Int, Scans(x, lo, hi, pivot, i, j, "sides"), j >= i,
           NEW y, y = Lst!Swap(x, i, j)
    PROVE  Within(x, y, lo, hi) /\ Scans(y, lo, hi, pivot, i, j, "up")
<1>1. /\ lo \in Int /\ hi \in Int /\ x \in Seq(Elements) /\ 1 <= lo /\ hi <= Len(x)
      /\ \A k \in lo..hi : k \in 1..Len(x) /\ x[k][1] \in Int
  BY PartIs DEF PartOf
<1>2. /\ hi - lo > 2 /\ x[hi - 1] = pivot
      /\ lo < i /\ i <= hi - 1 /\ lo <= j /\ j <= hi - 2
      /\ \A k \in lo..(i - 1) : x[k][1] <= pivot[1]
      /\ pivot[1] <= x[i][1] /\ x[j][1] <= pivot[1]
      /\ \A k \in (j + 1)..hi : pivot[1] <= x[k][1]
  BY DEF Scans, Lowered, Raised
<1>3. i \in lo..hi /\ j \in lo..hi
  BY <1>1, <1>2
<1>4. /\ Within(x, y, lo, hi) /\ y[i] = x[j] /\ y[j] = x[i]
      /\ \A k \in 1..Len(x) : k # i /\ k # j => y[k] = x[k]
  BY <1>1, <1>3, WithinSwap
<1>5. Lowered(y, lo, i, pivot)
  <2> SUFFICES ASSUME NEW k \in lo..i PROVE y[k][1] <= pivot[1]
    BY DEF Lowered
  <2>1. CASE k = i
    BY <1>2, <1>4, <2>1
  <2>2. CASE k # i
    <3>1. k \in lo..(i - 1) /\ k # j /\ k \in lo..hi
      BY <1>1, <1>2, <2>2
    <3> QED BY <1>1, <1>2, <1>4, <2>2, <3>1
  <2> QED BY <2>1, <2>2
<1>6. Raised(y, j, hi, pivot)
  <2> SUFFICES ASSUME NEW k \in j..hi PROVE pivot[1] <= y[k][1]
    BY DEF Raised
  <2>1. CASE k = j
    BY <1>2, <1>4, <2>1
  <2>2. CASE k # j
    <3>1. k \in (j + 1)..hi /\ k # i /\ k \in lo..hi
      BY <1>1, <1>2, <2>2
    <3> QED BY <1>1, <1>2, <1>4, <2>2, <3>1
  <2> QED BY <2>1, <2>2
<1>7. y[hi - 1] = pivot
  <2>1. hi - 1 \in lo..hi /\ hi - 1 # i /\ hi - 1 # j
    BY <1>1, <1>2
  <2> QED BY <1>1, <1>2, <1>4, <2>1
<1>8. lo <= i /\ i < hi - 1 /\ i <= j /\ lo < j /\ j <= hi - 1
  BY <1>1, <1>2
<1> QED BY <1>2, <1>4, <1>5, <1>6, <1>7, <1>8 DEF Scans

\* The pivot goes to where the scans crossed.
LEMMA Parting ==
    ASSUME NEW x, NEW lo, NEW hi, PartOf(x, lo, hi), NEW pivot \in Elements,
           NEW i \in Int, NEW j \in Int, Scans(x, lo, hi, pivot, i, j, "sides"), j < i,
           NEW y, y = Lst!Swap(x, hi - 1, i)
    PROVE  /\ Within(x, y, lo, hi) /\ lo < i /\ i < hi
           /\ \A k \in lo..(i - 1) : y[k][1] <= y[i][1]
           /\ \A k \in (i + 1)..hi : y[i][1] <= y[k][1]
<1>1. /\ lo \in Int /\ hi \in Int /\ x \in Seq(Elements) /\ 1 <= lo /\ hi <= Len(x)
      /\ \A k \in lo..hi : k \in 1..Len(x) /\ x[k][1] \in Int
  BY PartIs DEF PartOf
<1>2. /\ hi - lo > 2 /\ x[hi - 1] = pivot
      /\ lo < i /\ i <= hi - 1
      /\ \A k \in lo..(i - 1) : x[k][1] <= pivot[1]
      /\ pivot[1] <= x[i][1]
      /\ \A k \in (j + 1)..hi : pivot[1] <= x[k][1]
  BY DEF Scans, Lowered, Raised
<1>3. i \in lo..hi /\ hi - 1 \in lo..hi
  BY <1>1, <1>2
<1>4. /\ Within(x, y, lo, hi) /\ y[i] = pivot /\ y[hi - 1] = x[i]
      /\ \A k \in 1..Len(x) : k # i /\ k # hi - 1 => y[k] = x[k]
  <2> DEFINE h == hi - 1
  <2>1. h \in lo..hi /\ y = Lst!Swap(x, h, i) /\ x[h] = pivot
    BY <1>2, <1>3
  <2> HIDE DEF h
  <2>2. /\ x \in Seq(Elements) /\ lo \in Int /\ hi \in Int /\ 1 <= lo /\ hi <= Len(x)
        /\ h \in lo..hi /\ i \in lo..hi
    BY <1>1, <1>3, <2>1
  <2>3. /\ Within(x, Lst!Swap(x, h, i), lo, hi)
        /\ Lst!Swap(x, h, i)[i] = x[h] /\ Lst!Swap(x, h, i)[h] = x[i]
        /\ \A k \in 1..Len(x) : k # i /\ k # h => Lst!Swap(x, h, i)[k] = x[k]
    BY ONLY <2>2, WithinSwap
  <2> QED BY <2>1, <2>3 DEF h
<1>5. ASSUME NEW k \in lo..(i - 1) PROVE y[k][1] <= y[i][1]
  <2>1. k \in lo..hi /\ k # i /\ k # hi - 1
    BY <1>1, <1>2
  <2> QED BY <1>1, <1>2, <1>4, <2>1
<1>6. ASSUME NEW k \in (i + 1)..hi PROVE y[i][1] <= y[k][1]
  <2>1. CASE k = hi - 1
    BY <1>2, <1>4, <2>1
  <2>2. CASE k # hi - 1
    <3>1. k \in lo..hi /\ k # i /\ k \in (j + 1)..hi
      BY <1>1, <1>2
    <3> QED BY <1>1, <1>2, <1>4, <2>2, <3>1
  <2> QED BY <2>1, <2>2
<1>7. i < hi
  BY <1>1, <1>2
<1> QED BY <1>2, <1>4, <1>5, <1>6, <1>7

-----------------------------------------------------------------------------
\* The part on top of the stack is a part of the list.
LEMMA TopIs ==
    ASSUME NEW x, NEW stack, NEW n, Stacked(x, stack, n), stack # <<>>
    PROVE  /\ Len(stack) \in 1..Len(stack) /\ n = Len(x)
           /\ PartOf(x, stack[Len(stack)][1], stack[Len(stack)][2])
<1>1. Len(stack) \in Nat \ {0} /\ stack \in Seq(Int \X Int)
  BY Popped DEF Stacked
<1>2. Len(stack) \in 1..Len(stack)
  BY <1>1
<1> QED BY <1>2 DEF Stacked, Parted, PartOf

\* Moving elements of the part on top keeps what holds of the stack.
LEMMA StackedWithin ==
    ASSUME NEW x, NEW stack, NEW n, Stacked(x, stack, n), stack # <<>>,
           NEW y, Within(x, y, stack[Len(stack)][1], stack[Len(stack)][2])
    PROVE  Stacked(y, stack, n)
<1>1. Len(stack) \in 1..Len(stack) /\ n = Len(x)
  BY TopIs
<1>2. /\ stack \in Seq(Int \X Int) /\ Parted(stack, Len(x)) /\ Apart(stack) /\ Ordered(x, stack)
      /\ n \in Nat /\ Halving(stack, n) /\ Parted(stack, n)
  BY <1>1 DEF Stacked
<1>3. Len(stack) \in Nat
  BY <1>2, LenProperties
<1>4. Ordered(y, stack)
  BY <1>1, <1>2, <1>3, OrderedWithin
<1>5. y \in Seq(Elements) /\ Len(y) = n
  BY <1>1 DEF Within
<1> QED BY <1>2, <1>4, <1>5 DEF Stacked

\* The whole list, put on the stack first.
LEMMA StackedFirst ==
    ASSUME NEW x \in Seq(Elements)
    PROVE  Stacked(x, << <<1, Len(x)>> >>, Len(x))
<1> DEFINE n == Len(x)
           stack == << <<1, n>> >>
<1>1. n \in Nat
  BY KeysAre
<1> HIDE DEF n
<1>2. stack \in Seq(Int \X Int) /\ Len(stack) = 1 /\ stack[1] = <<1, n>>
  BY <1>1
<1> HIDE DEF stack
<1>3. \A k \in 1..Len(stack) : k = 1
  BY <1>2
<1>4. Parted(stack, n)
  <2>1. stack[1] \in Int \X Int /\ stack[1][1] = 1 /\ stack[1][2] = n
    BY <1>1, <1>2
  <2>2. 1 <= 1 /\ n <= n /\ 1 <= n + 1
    BY <1>1
  <2> QED BY <1>3, <2>1, <2>2 DEF Parted
<1>5. Apart(stack)
  BY <1>3 DEF Apart
<1>6. Halving(stack, n)
  <2> SUFFICES ASSUME n > 0, NEW k \in 1..Len(stack)
               PROVE  stack[k][1] <= stack[k][2] /\ (stack[k][2] - stack[k][1] + 2) * Lst!Pow2[k - 1] <= n + 1
    BY DEF Halving
  <2>1. k = 1 /\ Lst!Pow2[0] = 1
    BY <1>3, Doubles
  <2>2. k - 1 = 0
    BY <2>1
  <2>3. Lst!Pow2[k - 1] = 1
    BY <2>1, <2>2
  <2>4. (n - 1 + 2) * 1 <= n + 1
    BY <1>1
  <2> QED BY <1>1, <1>2, <2>1, <2>3, <2>4
<1>7. Ordered(x, stack)
  <2>1. \A p, q \in 1..n : stack[1][1] <= p /\ q <= stack[1][2]
    BY <1>1, <1>2
  <2>2. 1 \in 1..Len(stack)
    BY <1>2
  <2> QED BY <2>1, <2>2 DEF Ordered, n
<1> QED BY <1>1, <1>2, <1>4, <1>5, <1>6, <1>7 DEF Stacked, n, stack

\* A stack is no deeper than the logarithm of the length.
LEMMA DepthIs ==
    ASSUME NEW x, NEW stack, NEW n, Stacked(x, stack, n), stack # <<>>, n > 0
    PROVE  Lst!Pow2[Len(stack)] <= n + 1
<1> DEFINE d == Len(stack)
           z == stack[d][2] - stack[d][1]
           c == Lst!Pow2[d - 1]
<1>1. d \in Nat \ {0} /\ d \in 1..d
  <2>1. stack \in Seq(Int \X Int)
    BY DEF Stacked
  <2>2. d \in Nat \ {0}
    BY <2>1, Popped
  <2> QED BY <2>2
<1>2. stack[d][1] \in Int /\ stack[d][2] \in Int
  BY <1>1 DEF Stacked, Parted
<1>3. stack[d][1] <= stack[d][2] /\ (z + 2) * c <= n + 1 /\ n \in Nat
  BY <1>1 DEF Stacked, Halving
<1>4. z \in Int /\ 2 <= z + 2 /\ z + 2 \in Int
  BY <1>2, <1>3
<1>5. c \in Nat /\ Lst!Pow2[d] = 2 * c
  <2>1. d - 1 \in Nat /\ (d - 1) + 1 = d
    BY <1>1
  <2>2. Lst!Pow2[(d - 1) + 1] = 2 * Lst!Pow2[d - 1] /\ Lst!Pow2[d - 1] \in Nat
    BY <2>1, Doubles
  <2> QED BY <2>1, <2>2
<1> HIDE DEF z, c, d
<1>6. 2 * c <= (z + 2) * c /\ 2 * c \in Int /\ (z + 2) * c \in Int
  BY <1>4, <1>5, Factor
<1> DEFINE a == 2 * c
           b == (z + 2) * c
<1>7. a \in Int /\ b \in Int /\ a <= b /\ b <= n + 1
  BY <1>3, <1>6
<1> HIDE DEF a, b
<1>8. a <= n + 1
  BY <1>3, <1>7
<1> QED BY <1>5, <1>8 DEF a, d

-----------------------------------------------------------------------------
\* A call of table.sort, insert or remove as it goes on.
Calls == [of : {"list"}, call : {"none", "sort", "insert", "remove"},
          at : {"call", "while", "up", "down", "sides", "insert", "remove", "done"},
          a : Seq(Elements), out : Seq(Elements), pos : Int, stack : Seq(Int \X Int),
          pivot : Elements, i : Int, j : Int, error : BOOLEAN]

Low(stack) == stack[Len(stack)][1]
Upp(stack) == stack[Len(stack)][2]
\* sort has the elements of a, in order but for the parts on the stack.
Sorting(r) ==
    /\ r.at \in {"while", "up", "down", "sides", "done"} /\ (r.at = "done" <=> r.stack = <<>>)
    /\ Same(r.a, r.out) /\ ~r.error /\ Stacked(r.out, r.stack, Len(r.a))
    /\ r.at \in {"up", "down", "sides"} =>
           Scans(r.out, Low(r.stack), Upp(r.stack), r.pivot, r.i, r.j, r.at)
\* insert has moved the elements behind i up, and remove those before i down.
Inserting(r) ==
    /\ r.at \in {"insert", "done"} /\ r.stack = <<>> /\ Len(r.out) = Len(r.a) + 1
    /\ r.pos \in 1..Len(r.out)
    /\ r.at = "insert" => /\ r.i \in r.pos..Len(r.out)
                          /\ \A k \in 1..Len(r.out) : /\ k < r.i => r.out[k] = r.a[k]
                                                      /\ k > r.i => r.out[k] = r.a[k - 1]
    /\ r.at = "done" => /\ r.out[r.pos] = Lst!New
                        /\ \A k \in 1..Len(r.out) : /\ k < r.pos => r.out[k] = r.a[k]
                                                    /\ k > r.pos => r.out[k] = r.a[k - 1]
Removing(r) ==
    /\ r.at \in {"remove", "done"} /\ r.stack = <<>>
    /\ r.at = "remove" => /\ Len(r.out) = Len(r.a) /\ r.pos \in 1..Len(r.a) /\ r.i \in r.pos..Len(r.a)
                          /\ \A k \in 1..Len(r.a) :
                                 r.out[k] = IF r.pos <= k /\ k < r.i THEN r.a[k + 1] ELSE r.a[k]
    /\ r.at = "done" => \/ r.pos \notin 1..Len(r.a) /\ r.out = r.a
                        \/ /\ r.pos \in 1..Len(r.a) /\ Len(r.out) = Len(r.a) - 1
                           /\ \A k \in 1..(Len(r.a) - 1) :
                                  r.out[k] = IF k < r.pos THEN r.a[k] ELSE r.a[k + 1]
Kept(r) ==
    /\ r \in Calls
    /\ r.call = "none" => r.at = "call" /\ r.out = r.a /\ r.stack = <<>> /\ ~r.error
    /\ r.call = "sort" => Sorting(r)
    /\ r.call = "insert" => Inserting(r)
    /\ r.call = "remove" => Removing(r)

\* A list starts as its elements.
LEMMA ListInit == Lst!ListConstants /\ Lst!Init => Kept(library)
<1> SUFFICES ASSUME Lst!ListConstants, Lst!Init PROVE Kept(library)
  OBVIOUS
<1>1. PICK keys \in Lst!Lists :
          library = [of |-> "list", call |-> "none", at |-> "call", a |-> Lst!Tagged(keys),
                     out |-> Lst!Tagged(keys),
                     pos |-> 0, stack |-> <<>>, pivot |-> Lst!New, i |-> 0, j |-> 0, error |-> FALSE]
  BY DEF Lst!Init
<1>2. PICK n \in 0..MaxLen : keys \in [1..n -> Keys]
  BY DEF Lst!Lists
<1>3. \A k \in 1..n : <<keys[k], k>> \in Elements
  <2>1. \A k \in 1..n : keys[k] \in Int /\ k \in Int
    <3>1. Keys \subseteq Int
      BY DEF Lst!ListConstants
    <3>2. \A k \in 1..n : keys[k] \in Keys
      BY <1>2
    <3>3. \A k \in 1..n : k \in Int
      OBVIOUS
    <3>4. \A k \in 1..n : keys[k] \in Int
      BY <3>1, <3>2
    <3> QED BY <3>3, <3>4
  <2> QED BY <2>1 DEF Elements
<1>4. Lst!Tagged(keys) \in [1..n -> Elements]
  BY <1>2, <1>3 DEF Lst!Tagged
<1>5. Lst!Tagged(keys) \in Seq(Elements)
  <2>1. n \in Nat
    BY DEF Lst!ListConstants
  <2> QED BY <1>4, <2>1, SeqDef
<1>6. Lst!New \in Elements /\ <<>> \in Seq(Int \X Int)
  BY DEF Lst!New, Elements
<1> DEFINE t == Lst!Tagged(keys)
<1> HIDE DEF t
<1>7. library = [of |-> "list", call |-> "none", at |-> "call", a |-> t, out |-> t,
                 pos |-> 0, stack |-> <<>>, pivot |-> Lst!New, i |-> 0, j |-> 0, error |-> FALSE]
  BY <1>1 DEF t
<1>8. t \in Seq(Elements)
  BY <1>5 DEF t
<1>9. /\ library.call = "none" /\ library.at = "call" /\ library.out = library.a
      /\ library.stack = <<>> /\ ~library.error
  BY <1>7
<1>10. library \in Calls
  BY <1>6, <1>7, <1>8 DEF Calls
<1> QED BY <1>9, <1>10 DEF Kept

\* What the fields of a call are, and where it is while it sorts.
LEMMA CallIs ==
    ASSUME NEW r, Kept(r)
    PROVE  /\ r.of = "list" /\ r.a \in Seq(Elements) /\ r.out \in Seq(Elements) /\ r.pos \in Int
           /\ r.stack \in Seq(Int \X Int) /\ r.pivot \in Elements /\ r.i \in Int /\ r.j \in Int
           /\ r.error \in BOOLEAN /\ Len(r.a) \in Nat /\ Len(r.out) \in Nat
           /\ r.at \in {"while", "up", "down", "sides"} => r.call = "sort"
           /\ r.at = "insert" => r.call = "insert"
           /\ r.at = "remove" => r.call = "remove"
           /\ r.at = "call" => r.call = "none"
<1>1. r \in Calls
  BY DEF Kept
<1>2. /\ r.of = "list" /\ r.a \in Seq(Elements) /\ r.out \in Seq(Elements) /\ r.pos \in Int
      /\ r.stack \in Seq(Int \X Int) /\ r.pivot \in Elements /\ r.i \in Int /\ r.j \in Int
      /\ r.error \in BOOLEAN /\ r.call \in {"none", "sort", "insert", "remove"}
  BY <1>1 DEF Calls
<1>3. Len(r.a) \in Nat /\ Len(r.out) \in Nat
  BY <1>2, KeysAre
<1>4. /\ r.call = "none" => r.at = "call"
      /\ r.call = "sort" => r.at \in {"while", "up", "down", "sides", "done"}
      /\ r.call = "insert" => r.at \in {"insert", "done"}
      /\ r.call = "remove" => r.at \in {"remove", "done"}
  BY DEF Kept, Sorting, Inserting, Removing
<1> QED BY <1>2, <1>3, <1>4

\* Sorting starts with the whole list.
LEMMA SortKeeps ==
    ASSUME NEW r, Kept(r), r.at = "call",
           NEW w, w = [r EXCEPT !.call = "sort", !.at = "while", !.stack = << <<1, Len(r.a)>> >>]
    PROVE  Kept(w)
<1>1. /\ r.a \in Seq(Elements) /\ Len(r.a) \in Nat /\ r.call = "none" /\ r \in Calls
      /\ r.out = r.a /\ ~r.error
  BY CallIs DEF Kept
<1> DEFINE s == << <<1, Len(r.a)>> >>
<1>2. s \in Seq(Int \X Int) /\ s # <<>>
  BY <1>1
<1>3. Stacked(r.a, s, Len(r.a))
  BY <1>1, StackedFirst
<1> HIDE DEF s
<1>4. /\ w.call = "sort" /\ w.at = "while" /\ w.stack = s /\ w.a = r.a /\ w.out = r.a /\ ~w.error
      /\ w \in Calls
  BY <1>1, <1>2 DEF Calls, s
<1>5. Same(r.a, r.a)
  BY DEF Same
<1>6. Sorting(w)
  BY <1>2, <1>3, <1>4, <1>5 DEF Sorting
<1> QED BY <1>4, <1>6 DEF Kept

\* What is known of a call that sorts.
LEMMA SortingIs ==
    ASSUME NEW r, Kept(r), r.at \in {"while", "up", "down", "sides"},
           NEW lo, lo = Low(r.stack), NEW hi, hi = Upp(r.stack)
    PROVE  /\ r \in Calls /\ r.call = "sort" /\ r.stack # <<>> /\ Same(r.a, r.out) /\ ~r.error
           /\ Stacked(r.out, r.stack, Len(r.a)) /\ PartOf(r.out, lo, hi)
           /\ r.at \in {"up", "down", "sides"} => Scans(r.out, lo, hi, r.pivot, r.i, r.j, r.at)
           /\ lo \in Int /\ hi \in Int
<1>1. r \in Calls /\ r.call = "sort" /\ Sorting(r)
  BY CallIs DEF Kept
<1>2. /\ r.stack # <<>> /\ Same(r.a, r.out) /\ ~r.error /\ Stacked(r.out, r.stack, Len(r.a))
      /\ r.at \in {"up", "down", "sides"} => Scans(r.out, lo, hi, r.pivot, r.i, r.j, r.at)
  BY <1>1 DEF Sorting
<1>3. PartOf(r.out, lo, hi)
  BY <1>2, TopIs DEF Low, Upp
<1> QED BY <1>1, <1>2, <1>3 DEF PartOf

\* A part of up to three elements is sorted at once, and left.
LEMMA FewKeeps ==
    ASSUME Kept(library), Lst!Few
    PROVE  Kept(library')
<1> DEFINE lo == Low(library.stack)
           hi == Upp(library.stack)
           y == IF lo >= hi THEN library.out ELSE Lst!MedianOfThree(library.out, lo, (lo + hi) \div 2, hi)
           rest == SubSeq(library.stack, 1, Len(library.stack) - 1)
<1>1. library.at = "while" /\ hi - lo <= 2
  BY DEF Lst!Few, Lst!At, Lst!Lower, Lst!Upper, Low, Upp
<1>2. /\ library \in Calls /\ library.call = "sort" /\ library.stack # <<>>
      /\ Same(library.a, library.out) /\ ~library.error
      /\ Stacked(library.out, library.stack, Len(library.a)) /\ PartOf(library.out, lo, hi)
      /\ lo \in Int /\ hi \in Int
  BY <1>1, SortingIs
<1>3. library' = [library EXCEPT !.out = y, !.stack = rest, !.at = IF rest = <<>> THEN "done" ELSE "while"]
  <2>1. CASE lo >= hi
    <3>1. library' = [library EXCEPT !.stack = rest, !.at = IF rest = <<>> THEN "done" ELSE "while"]
      BY <2>1 DEF Lst!Few, Lst!Finished, Lst!Outer, Lst!Lower, Lst!Upper, Low, Upp
    <3>2. y = library.out
      BY <2>1
    <3> HIDE DEF y, rest
    <3> QED BY <1>2, <3>1, <3>2 DEF Calls
  <2>2. CASE ~(lo >= hi)
    BY <2>2 DEF Lst!Few, Lst!Finished, Lst!Outer, Lst!Lower, Lst!Upper, Low, Upp, Lst!Median
  <2> QED BY <2>1, <2>2
<1>4. Within(library.out, y, lo, hi) /\ \A p, q \in lo..hi : p < q => y[p][1] <= y[q][1]
  <2>1. CASE lo >= hi
    <3>1. y = library.out
      BY <2>1
    <3>2. Within(library.out, library.out, lo, hi)
      BY <1>2, WithinSelf DEF PartOf
    <3>3. \A p, q \in lo..hi : ~(p < q)
      BY <1>2, <2>1
    <3> QED BY <3>1, <3>2, <3>3
  <2>2. CASE ~(lo >= hi)
    <3>1. y = Lst!MedianOfThree(library.out, lo, (lo + hi) \div 2, hi) /\ lo < hi
      BY <1>2, <2>2
    <3> HIDE DEF y, lo, hi
    <3> QED BY <1>1, <1>2, <3>1, FewSorts
  <2> QED BY <2>1, <2>2
<1> HIDE DEF y
<1>5. Stacked(y, library.stack, Len(library.a)) /\ Same(library.a, y)
  <2>1. Within(library.out, y, library.stack[Len(library.stack)][1], library.stack[Len(library.stack)][2])
    BY <1>4 DEF Low, Upp
  <2> QED BY <1>2, <2>1, StackedWithin, SameWithin
<1>6. Stacked(y, rest, Len(library.a))
  BY <1>2, <1>4, <1>5, LeaveSorted DEF Low, Upp
<1> HIDE DEF rest, lo, hi
<1>7. y \in Seq(Elements) /\ rest \in Seq(Int \X Int)
  BY <1>6 DEF Stacked
<1>8. /\ library' \in Calls /\ library'.out = y /\ library'.stack = rest /\ library'.a = library.a
      /\ library'.call = "sort"
      /\ ~library'.error /\ library'.at = IF rest = <<>> THEN "done" ELSE "while"
  BY <1>2, <1>3, <1>7 DEF Calls
<1>9. Sorting(library')
  BY <1>5, <1>6, <1>8 DEF Sorting
<1> QED BY <1>8, <1>9 DEF Kept

\* The pivot of a longer part is chosen.
LEMMA PivotKeeps ==
    ASSUME Kept(library), Lst!Pivot
    PROVE  Kept(library')
<1> DEFINE lo == Low(library.stack)
           hi == Upp(library.stack)
           mid == (lo + hi) \div 2
           y == Lst!MedianOfThree(library.out, lo, mid, hi)
           z == Lst!Swap(y, mid, hi - 1)
<1>1. library.at = "while" /\ hi - lo > 2
  BY DEF Lst!Pivot, Lst!At, Lst!Lower, Lst!Upper, Low, Upp
<1>2. /\ library \in Calls /\ library.call = "sort" /\ library.stack # <<>>
      /\ Same(library.a, library.out) /\ ~library.error
      /\ Stacked(library.out, library.stack, Len(library.a)) /\ PartOf(library.out, lo, hi)
      /\ lo \in Int /\ hi \in Int
  BY <1>1, SortingIs
<1>3. library' = [library EXCEPT !.out = z, !.pivot = z[hi - 1], !.at = "up", !.i = lo, !.j = hi - 1]
  BY DEF Lst!Pivot, Lst!Lower, Lst!Upper, Low, Upp, Lst!Median
<1>4. Within(library.out, z, lo, hi) /\ Scans(z, lo, hi, z[hi - 1], lo, hi - 1, "up")
  <2> HIDE DEF lo, hi
  <2> QED BY <1>1, <1>2, PivotPlaced
<1> HIDE DEF z
<1>5. Stacked(z, library.stack, Len(library.a)) /\ Same(library.a, z)
  <2>1. Within(library.out, z, library.stack[Len(library.stack)][1], library.stack[Len(library.stack)][2])
    BY <1>4 DEF Low, Upp
  <2> QED BY <1>2, <2>1, StackedWithin, SameWithin
<1>6. z \in Seq(Elements) /\ z[hi - 1] \in Elements
  <2>1. PartOf(z, lo, hi)
    BY <1>4 DEF Within, PartOf
  <2>2. hi - 1 \in lo..hi
    BY <1>1, <1>2
  <2> QED BY <2>1, <2>2, PartIs DEF PartOf
<1>7. /\ library' \in Calls /\ library'.out = z /\ library'.stack = library.stack
      /\ library'.a = library.a
      /\ library'.call = "sort" /\ ~library'.error /\ library'.at = "up" /\ library'.pivot = z[hi - 1]
      /\ library'.i = lo /\ library'.j = hi - 1
  <2> DEFINE h == hi - 1
  <2>1. h \in Int
    BY <1>2
  <2> HIDE DEF lo, hi, h
  <2> QED BY <1>2, <1>3, <1>6, <2>1 DEF Calls, h
<1>8. Sorting(library')
  BY <1>2, <1>4, <1>5, <1>7 DEF Sorting
<1> QED BY <1>7, <1>8 DEF Kept

\* The scan from below goes on.
LEMMA UpKeeps ==
    ASSUME Kept(library), Lst!Up
    PROVE  Kept(library')
<1> DEFINE lo == Low(library.stack)
           hi == Upp(library.stack)
           h == library.i + 1
           less == Lst!Less(library.out[h], library.pivot)
<1>1. library.at = "up"
  BY DEF Lst!Up, Lst!At
<1>2. /\ library \in Calls /\ library.call = "sort" /\ library.stack # <<>>
      /\ Same(library.a, library.out) /\ ~library.error
      /\ Stacked(library.out, library.stack, Len(library.a)) /\ PartOf(library.out, lo, hi)
      /\ lo \in Int /\ hi \in Int
      /\ Scans(library.out, lo, hi, library.pivot, library.i, library.j, "up")
  <2> HIDE DEF lo, hi
  <2>1. library.at \in {"while", "up", "down", "sides"} /\ library.at \in {"up", "down", "sides"}
    BY <1>1
  <2> QED BY <1>1, <2>1, SortingIs DEF lo, hi
<1>3. library' = IF less THEN [library EXCEPT !.i = h, !.error = @ \/ h > hi]
                 ELSE [library EXCEPT !.i = h, !.at = "down"]
  BY DEF Lst!Up, Lst!Upper, Upp
<1>4. library.i \in Int /\ library.j \in Int /\ library.pivot \in Elements /\ h \in Int
  BY <1>2 DEF Calls
<1>5. /\ less => Scans(library.out, lo, hi, library.pivot, h, library.j, "up") /\ ~(h > hi)
      /\ ~less => Scans(library.out, lo, hi, library.pivot, h, library.j, "down")
  <2> HIDE DEF lo, hi
  <2> QED BY <1>2, <1>4, ScanUp
<1> HIDE DEF h, less
<1>6. CASE less
  <2>1. library' = [library EXCEPT !.i = h, !.error = @ \/ h > hi]
    BY <1>3, <1>6
  <2> DEFINE e == library.error \/ h > hi
  <2>2. e \in BOOLEAN /\ ~e
    BY <1>2, <1>5, <1>6
  <2> HIDE DEF e, lo, hi
  <2>3. library' = [library EXCEPT !.i = h, !.error = e]
    BY <2>1 DEF e
  <2>4. /\ library' \in Calls /\ library'.out = library.out /\ library'.stack = library.stack
        /\ library'.a = library.a
        /\ library'.call = "sort" /\ library'.at = "up" /\ library'.pivot = library.pivot
        /\ library'.i = h /\ library'.j = library.j /\ ~library'.error
    BY <1>1, <1>2, <1>4, <2>2, <2>3 DEF Calls
  <2>5. Sorting(library')
    BY <1>2, <1>5, <1>6, <2>4 DEF Sorting, lo, hi
  <2> QED BY <2>4, <2>5 DEF Kept
<1>7. CASE ~less
  <2>1. library' = [library EXCEPT !.i = h, !.at = "down"]
    BY <1>3, <1>7
  <2>2. /\ library' \in Calls /\ library'.out = library.out /\ library'.stack = library.stack
        /\ library'.a = library.a
        /\ library'.call = "sort" /\ library'.at = "down" /\ library'.pivot = library.pivot
        /\ library'.i = h /\ library'.j = library.j /\ ~library'.error
    BY <1>1, <1>2, <1>4, <2>1 DEF Calls
  <2>3. Sorting(library')
    BY <1>2, <1>5, <1>7, <2>2 DEF Sorting
  <2> QED BY <2>2, <2>3 DEF Kept
<1> QED BY <1>6, <1>7

\* The scan from above goes on.
LEMMA DownKeeps ==
    ASSUME Kept(library), Lst!Down
    PROVE  Kept(library')
<1> DEFINE lo == Low(library.stack)
           hi == Upp(library.stack)
           h == library.j - 1
           more == Lst!Less(library.pivot, library.out[h])
<1>1. library.at = "down"
  BY DEF Lst!Down, Lst!At
<1>2. /\ library \in Calls /\ library.call = "sort" /\ library.stack # <<>>
      /\ Same(library.a, library.out) /\ ~library.error
      /\ Stacked(library.out, library.stack, Len(library.a)) /\ PartOf(library.out, lo, hi)
      /\ lo \in Int /\ hi \in Int
      /\ Scans(library.out, lo, hi, library.pivot, library.i, library.j, "down")
  <2> HIDE DEF lo, hi
  <2>1. library.at \in {"while", "up", "down", "sides"} /\ library.at \in {"up", "down", "sides"}
    BY <1>1
  <2> QED BY <1>1, <2>1, SortingIs DEF lo, hi
<1>3. library' = IF more THEN [library EXCEPT !.j = h, !.error = @ \/ h < lo]
                 ELSE [library EXCEPT !.j = h, !.at = "sides"]
  BY DEF Lst!Down, Lst!Lower, Low
<1>4. library.i \in Int /\ library.j \in Int /\ library.pivot \in Elements /\ h \in Int
  BY <1>2 DEF Calls
<1>5. /\ more => Scans(library.out, lo, hi, library.pivot, library.i, h, "down") /\ ~(h < lo)
      /\ ~more => Scans(library.out, lo, hi, library.pivot, library.i, h, "sides")
  <2> HIDE DEF lo, hi
  <2> QED BY <1>2, <1>4, ScanDown
<1> HIDE DEF h, more
<1>6. CASE more
  <2>1. library' = [library EXCEPT !.j = h, !.error = @ \/ h < lo]
    BY <1>3, <1>6
  <2> DEFINE e == library.error \/ h < lo
  <2>2. e \in BOOLEAN /\ ~e
    BY <1>2, <1>5, <1>6
  <2> HIDE DEF e, lo, hi
  <2>3. library' = [library EXCEPT !.j = h, !.error = e]
    BY <2>1 DEF e
  <2>4. /\ library' \in Calls /\ library'.out = library.out /\ library'.stack = library.stack
        /\ library'.a = library.a
        /\ library'.call = "sort" /\ library'.at = "down" /\ library'.pivot = library.pivot
        /\ library'.i = library.i /\ library'.j = h /\ ~library'.error
    BY <1>1, <1>2, <1>4, <2>2, <2>3 DEF Calls
  <2>5. Sorting(library')
    BY <1>2, <1>5, <1>6, <2>4 DEF Sorting, lo, hi
  <2> QED BY <2>4, <2>5 DEF Kept
<1>7. CASE ~more
  <2>1. library' = [library EXCEPT !.j = h, !.at = "sides"]
    BY <1>3, <1>7
  <2>2. /\ library' \in Calls /\ library'.out = library.out /\ library'.stack = library.stack
        /\ library'.a = library.a
        /\ library'.call = "sort" /\ library'.at = "sides" /\ library'.pivot = library.pivot
        /\ library'.i = library.i /\ library'.j = h /\ ~library'.error
    BY <1>1, <1>2, <1>4, <2>1 DEF Calls
  <2>3. Sorting(library')
    BY <1>2, <1>5, <1>7, <2>2 DEF Sorting
  <2> QED BY <2>2, <2>3 DEF Kept
<1> QED BY <1>6, <1>7

\* Two elements change places.
LEMMA ExchangeKeeps ==
    ASSUME Kept(library), Lst!Exchange
    PROVE  Kept(library')
<1> DEFINE lo == Low(library.stack)
           hi == Upp(library.stack)
           y == Lst!Swap(library.out, library.i, library.j)
<1>1. library.at = "sides" /\ library.j >= library.i
  BY DEF Lst!Exchange, Lst!At
<1>2. /\ library \in Calls /\ library.call = "sort" /\ library.stack # <<>>
      /\ Same(library.a, library.out) /\ ~library.error
      /\ Stacked(library.out, library.stack, Len(library.a)) /\ PartOf(library.out, lo, hi)
      /\ lo \in Int /\ hi \in Int
      /\ Scans(library.out, lo, hi, library.pivot, library.i, library.j, "sides")
  <2> HIDE DEF lo, hi
  <2>1. library.at \in {"while", "up", "down", "sides"} /\ library.at \in {"up", "down", "sides"}
    BY <1>1
  <2> QED BY <1>1, <2>1, SortingIs DEF lo, hi
<1>3. library' = [library EXCEPT !.out = y, !.at = "up"]
  BY DEF Lst!Exchange
<1>4. library.i \in Int /\ library.j \in Int /\ library.pivot \in Elements
  BY <1>2 DEF Calls
<1>5. Within(library.out, y, lo, hi) /\ Scans(y, lo, hi, library.pivot, library.i, library.j, "up")
  <2> HIDE DEF lo, hi
  <2> QED BY <1>1, <1>2, <1>4, Exchanged
<1> HIDE DEF y
<1>6. Stacked(y, library.stack, Len(library.a)) /\ Same(library.a, y)
  <2>1. Within(library.out, y, library.stack[Len(library.stack)][1], library.stack[Len(library.stack)][2])
    BY <1>5 DEF Low, Upp
  <2> QED BY <1>2, <2>1, StackedWithin, SameWithin
<1>7. y \in Seq(Elements)
  BY <1>6 DEF Stacked
<1>8. /\ library' \in Calls /\ library'.out = y /\ library'.stack = library.stack
      /\ library'.a = library.a
      /\ library'.call = "sort" /\ library'.at = "up" /\ library'.pivot = library.pivot
      /\ library'.i = library.i /\ library'.j = library.j /\ ~library'.error
  BY <1>2, <1>3, <1>7 DEF Calls
<1>9. Sorting(library')
  BY <1>2, <1>5, <1>6, <1>8 DEF Sorting
<1> QED BY <1>8, <1>9 DEF Kept

\* The part is divided.
LEMMA SplitKeeps ==
    ASSUME Kept(library), Lst!Split
    PROVE  Kept(library')
<1> DEFINE lo == Low(library.stack)
           hi == Upp(library.stack)
           i == library.i
           y == Lst!Swap(library.out, hi - 1, i)
           small == i - lo < hi - i
           r1 == IF small THEN i + 1 ELSE lo
           r2 == IF small THEN hi ELSE i - 1
           s1 == IF small THEN lo ELSE i + 1
           s2 == IF small THEN i - 1 ELSE hi
           w == SubSeq(library.stack, 1, Len(library.stack) - 1) \o << <<r1, r2>>, <<s1, s2>> >>
<1>1. library.at = "sides" /\ library.j < i
  BY DEF Lst!Split, Lst!At
<1>2. /\ library \in Calls /\ library.call = "sort" /\ library.stack # <<>>
      /\ Same(library.a, library.out) /\ ~library.error
      /\ Stacked(library.out, library.stack, Len(library.a)) /\ PartOf(library.out, lo, hi)
      /\ lo \in Int /\ hi \in Int /\ Scans(library.out, lo, hi, library.pivot, i, library.j, "sides")
  <2> HIDE DEF lo, hi
  <2>1. library.at \in {"while", "up", "down", "sides"} /\ library.at \in {"up", "down", "sides"}
    BY <1>1
  <2> QED BY <1>1, <2>1, SortingIs DEF lo, hi
<1>3. library' = [library EXCEPT !.out = y, !.at = "while", !.stack = w]
  <2>1. Lst!Halves(i) = << <<r1, r2>>, <<s1, s2>> >>
    BY DEF Lst!Halves, Lst!Lower, Lst!Upper, Low, Upp
  <2> HIDE DEF r1, r2, s1, s2
  <2> QED BY <2>1 DEF Lst!Split, Lst!Outer, Lst!Upper, Upp
<1>4. i \in Int /\ library.j \in Int /\ library.pivot \in Elements
  BY <1>2 DEF Calls
<1>5. /\ Within(library.out, y, lo, hi) /\ lo < i /\ i < hi
      /\ \A k \in lo..(i - 1) : y[k][1] <= y[i][1]
      /\ \A k \in (i + 1)..hi : y[i][1] <= y[k][1]
  <2> HIDE DEF lo, hi, i
  <2> QED BY <1>1, <1>2, <1>4, Parting
<1> HIDE DEF y
<1>6. Stacked(y, library.stack, Len(library.a)) /\ Same(library.a, y)
  <2>1. Within(library.out, y, library.stack[Len(library.stack)][1], library.stack[Len(library.stack)][2])
    BY <1>5 DEF Low, Upp
  <2> QED BY <1>2, <2>1, StackedWithin, SameWithin
<1>7. lo = library.stack[Len(library.stack)][1] /\ hi = library.stack[Len(library.stack)][2]
  BY DEF Low, Upp
<1> HIDE DEF lo, hi, i
<1>8. r1 \in Int /\ r2 \in Int /\ s1 \in Int /\ s2 \in Int
  BY <1>2, <1>4
<1>9. Halved(y, library.stack, lo, hi, i, r1, r2, s1, s2)
  <2>1. \/ i - lo < hi - i /\ r1 = i + 1 /\ r2 = hi /\ s1 = lo /\ s2 = i - 1
        \/ ~(i - lo < hi - i) /\ r1 = lo /\ r2 = i - 1 /\ s1 = i + 1 /\ s2 = hi
    OBVIOUS
  <2> HIDE DEF r1, r2, s1, s2
  <2> QED BY <1>2, <1>4, <1>5, <1>7, <1>8, <2>1 DEF Halved
<1> HIDE DEF small, r1, r2, s1, s2
<1>10. PutOn(Int \X Int, library.stack, w, <<r1, r2>>, <<s1, s2>>)
  <2>1. library.stack \in Seq(Int \X Int)
    BY <1>2 DEF Calls
  <2>2. <<r1, r2>> \in Int \X Int /\ <<s1, s2>> \in Int \X Int
    BY <1>8
  <2> QED BY <1>2, <2>1, <2>2, Replaced
<1> HIDE DEF w
<1>11. Len(library.a) > 0
  <2>1. 1 <= lo /\ lo < hi /\ hi <= Len(library.out) /\ Len(library.out) = Len(library.a) /\ Len(library.a) \in Nat
    BY <1>2, <1>4, <1>5 DEF PartOf, Stacked
  <2> QED BY <1>2, <2>1
<1>12. Stacked(y, w, Len(library.a))
  BY <1>2, <1>4, <1>6, <1>8, <1>9, <1>10, <1>11, SplitPart
<1>13. y \in Seq(Elements) /\ w \in Seq(Int \X Int) /\ w # <<>>
  <2>1. Len(w) = Len(library.stack) + 1 /\ Len(library.stack) \in Nat
    <3>1. Len(w) = Len(library.stack) + 1
      BY <1>10 DEF PutOn
    <3>2. library.stack \in Seq(Int \X Int)
      BY <1>2 DEF Calls
    <3> QED BY <3>1, <3>2, LenProperties
  <2> QED BY <1>6, <1>10, <2>1 DEF Stacked, PutOn
<1>14. /\ library' \in Calls /\ library'.out = y /\ library'.stack = w /\ library'.a = library.a
       /\ library'.call = "sort" /\ library'.at = "while" /\ ~library'.error
  BY <1>2, <1>3, <1>13 DEF Calls
<1>15. Sorting(library')
  BY <1>6, <1>12, <1>13, <1>14 DEF Sorting
<1> QED BY <1>14, <1>15 DEF Kept

-----------------------------------------------------------------------------
\* A new element is put behind the list ...
LEMMA InsertKeeps ==
    ASSUME Kept(library), Lst!Insert
    PROVE  Kept(library')
<1> DEFINE n == Len(library.a)
           y == Append(library.out, Lst!New)
<1>1. library.at = "call"
  BY DEF Lst!Insert, Lst!At
<1>2. /\ library \in Calls /\ library.call = "none" /\ library.out = library.a
      /\ library.stack = <<>> /\ n \in Nat
      /\ library.a \in Seq(Elements)
  BY <1>1, CallIs DEF Kept
<1>3. PICK pos \in 1..(n + 1) :
          library' = [library EXCEPT !.call = "insert", !.at = "insert", !.pos = pos, !.out = y, !.i = n + 1]
  BY DEF Lst!Insert
<1>4. Lst!New \in Elements
  BY DEF Lst!New, Elements
<1>5. y \in Seq(Elements) /\ Len(y) = n + 1 /\ \A k \in 1..n : y[k] = library.a[k]
  BY <1>2, <1>4, AppendProperties
<1> HIDE DEF y, n
<1>6. /\ library' \in Calls /\ library'.call = "insert" /\ library'.at = "insert"
      /\ library'.pos = pos /\ library'.out = y
      /\ library'.i = n + 1 /\ library'.stack = <<>> /\ library'.a = library.a
  <2>1. pos \in Int /\ n + 1 \in Int
    BY <1>2
  <2> QED BY <1>2, <1>3, <1>5, <2>1 DEF Calls
<1>7. n + 1 \in pos..(n + 1) /\ pos \in 1..(n + 1)
  BY <1>2
<1>8. ASSUME NEW k \in 1..(n + 1)
      PROVE  (k < n + 1 => y[k] = library.a[k]) /\ ~(k > n + 1)
  BY <1>2, <1>5
<1>9. Inserting(library')
  BY <1>5, <1>6, <1>7, <1>8 DEF Inserting, n
<1> QED BY <1>6, <1>9 DEF Kept

\* ... and those from its place on are moved, from the end.
LEMMA MoveUpKeeps ==
    ASSUME Kept(library), Lst!MoveUp
    PROVE  Kept(library')
<1> DEFINE a == library.a
           out == library.out
           pos == library.pos
           i == library.i
           n == Len(out)
<1>1. library.at = "insert"
  BY DEF Lst!MoveUp, Lst!At
<1>2. /\ library \in Calls /\ library.call = "insert" /\ a \in Seq(Elements) /\ out \in Seq(Elements)
      /\ n \in Nat /\ Len(a) \in Nat
  <2>1. library \in Calls
    BY DEF Kept
  <2> QED BY <1>1, <2>1, CallIs
<1>3. /\ library.stack = <<>> /\ n = Len(a) + 1 /\ pos \in 1..n /\ i \in pos..n
      /\ \A k \in 1..n : (k < i => out[k] = a[k]) /\ (k > i => out[k] = a[k - 1])
  BY <1>1, <1>2 DEF Kept, Inserting
<1>4. /\ i > pos => library' = [library EXCEPT !.out = [out EXCEPT ![i] = out[i - 1]], !.i = i - 1]
      /\ ~(i > pos) => library' = [library EXCEPT !.out = [out EXCEPT ![pos] = Lst!New], !.at = "done"]
  BY <1>2 DEF Lst!MoveUp, Calls
<1> HIDE DEF a, out, pos, i, n
<1>5. i \in 1..n /\ i \in Int /\ pos \in Int
  BY <1>2, <1>3
<1>6. CASE i > pos
  <2> DEFINE y == [out EXCEPT ![i] = out[i - 1]]
             h == i - 1
  <2>1. i - 1 \in 1..n /\ h < i
    BY <1>2, <1>3, <1>5, <1>6
  <2>2. out[i - 1] \in Elements /\ out[i - 1] = a[i - 1]
    BY <1>2, <1>3, <2>1, ElementOfSeq DEF n
  <2>3. y \in Seq(Elements) /\ Len(y) = n /\ \A k \in 1..n : y[k] = IF k = i THEN out[i - 1] ELSE out[k]
    BY <1>2, <1>5, <2>2, ExceptSeq DEF n
  <2> HIDE DEF y
  <2>4. /\ library' \in Calls /\ library'.out = y /\ library'.i = h /\ library'.at = "insert"
        /\ library'.call = "insert"
        /\ library'.a = a /\ library'.pos = pos /\ library'.stack = <<>>
    <3>1. h \in Int
      BY <1>5
    <3>2. library' = [library EXCEPT !.out = y, !.i = h]
      BY <1>4, <1>6 DEF y, h
    <3> HIDE DEF h
    <3> QED BY <1>1, <1>2, <1>3, <2>3, <3>1, <3>2 DEF Calls, a, pos
  <2>5. h \in pos..n
    BY <1>2, <1>3, <1>5, <1>6
  <2>6. ASSUME NEW k \in 1..n
        PROVE  (k < h => y[k] = a[k]) /\ (k > h => y[k] = a[k - 1])
    <3>1. CASE k = i
      BY <1>5, <2>2, <2>3, <3>1
    <3>2. CASE k # i
      <4>1. y[k] = out[k]
        BY <2>3, <3>2
      <4>2. (k < h => k < i) /\ (k > h => k > i)
        BY <1>5, <3>2
      <4> QED BY <1>3, <4>1, <4>2
    <3> QED BY <3>1, <3>2
  <2>7. Inserting(library')
    BY <1>3, <2>3, <2>4, <2>5, <2>6 DEF Inserting
  <2> QED BY <2>4, <2>7 DEF Kept
<1>7. CASE ~(i > pos)
  <2> DEFINE y == [out EXCEPT ![pos] = Lst!New]
  <2>1. i = pos
    BY <1>3, <1>5, <1>7
  <2>2. Lst!New \in Elements
    BY DEF Lst!New, Elements
  <2>3. y \in Seq(Elements) /\ Len(y) = n /\ \A k \in 1..n : y[k] = IF k = pos THEN Lst!New ELSE out[k]
    BY <1>2, <1>3, <2>2, ExceptSeq DEF n
  <2> HIDE DEF y
  <2>4. /\ library' \in Calls /\ library'.out = y /\ library'.at = "done" /\ library'.call = "insert"
        /\ library'.a = a /\ library'.pos = pos /\ library'.stack = <<>>
    <3>1. library' = [library EXCEPT !.out = y, !.at = "done"]
      BY <1>4, <1>7 DEF y
    <3> QED BY <1>2, <1>3, <2>3, <3>1 DEF Calls, a, pos
  <2>5. y[pos] = Lst!New
    BY <1>3, <2>3
  <2>6. ASSUME NEW k \in 1..n
        PROVE  (k < pos => y[k] = a[k]) /\ (k > pos => y[k] = a[k - 1])
    <3>1. k < pos \/ k > pos => y[k] = out[k]
      BY <1>5, <2>3
    <3> QED BY <1>3, <2>1, <3>1
  <2>7. Inserting(library')
    BY <1>3, <2>3, <2>4, <2>5, <2>6 DEF Inserting
  <2> QED BY <2>4, <2>7 DEF Kept
<1> QED BY <1>6, <1>7

\* An element is to be removed ...
LEMMA RemoveKeeps ==
    ASSUME Kept(library), Lst!Remove
    PROVE  Kept(library')
<1> DEFINE n == Len(library.a)
<1>1. library.at = "call"
  BY DEF Lst!Remove, Lst!At
<1>2. /\ library \in Calls /\ library.call = "none" /\ library.out = library.a
      /\ library.stack = <<>> /\ n \in Nat
      /\ library.a \in Seq(Elements)
  BY <1>1, CallIs DEF Kept
<1>3. PICK pos \in 0..(n + 1) :
          library' = [library EXCEPT !.call = "remove", !.pos = pos, !.i = pos,
                                     !.at = IF 1 <= pos /\ pos <= n THEN "remove" ELSE "done"]
  BY DEF Lst!Remove
<1> HIDE DEF n
<1>4. /\ library' \in Calls /\ library'.call = "remove" /\ library'.pos = pos
      /\ library'.out = library.a
      /\ library'.i = pos /\ library'.stack = <<>> /\ library'.a = library.a
      /\ library'.at = IF 1 <= pos /\ pos <= n THEN "remove" ELSE "done"
  <2>1. pos \in Int
    BY <1>2
  <2> QED BY <1>2, <1>3, <2>1 DEF Calls
<1>5. CASE 1 <= pos /\ pos <= n
  <2>1. pos \in 1..n /\ pos \in pos..n
    BY <1>2, <1>5
  <2>2. \A k \in 1..n : ~(pos <= k /\ k < pos)
    BY <1>2
  <2>3. library'.at = "remove"
    BY <1>4, <1>5
  <2>4. Removing(library')
    BY <1>4, <2>1, <2>2, <2>3 DEF Removing, n
  <2> QED BY <1>4, <2>4 DEF Kept
<1>6. CASE ~(1 <= pos /\ pos <= n)
  <2>1. pos \notin 1..n
    BY <1>2, <1>6
  <2>2. library'.at = "done"
    BY <1>4, <1>6
  <2>3. Removing(library')
    BY <1>4, <2>1, <2>2 DEF Removing, n
  <2> QED BY <1>4, <2>3 DEF Kept
<1> QED BY <1>5, <1>6

\* ... and those behind it are moved, from its place on.
LEMMA MoveDownKeeps ==
    ASSUME Kept(library), Lst!MoveDown
    PROVE  Kept(library')
<1> DEFINE a == library.a
           out == library.out
           pos == library.pos
           i == library.i
           n == Len(a)
<1>1. library.at = "remove"
  BY DEF Lst!MoveDown, Lst!At
<1>2. /\ library \in Calls /\ library.call = "remove" /\ a \in Seq(Elements) /\ out \in Seq(Elements)
      /\ n \in Nat /\ i \in Int /\ pos \in Int
  <2>1. library \in Calls
    BY DEF Kept
  <2> QED BY <1>1, <2>1, CallIs
<1>3. /\ library.stack = <<>> /\ Len(out) = n /\ pos \in 1..n /\ i \in pos..n
      /\ \A k \in 1..n : out[k] = IF pos <= k /\ k < i THEN a[k + 1] ELSE a[k]
  BY <1>1, <1>2 DEF Kept, Removing
<1>4. /\ i < n => library' = [library EXCEPT !.out = [out EXCEPT ![i] = out[i + 1]], !.i = i + 1]
      /\ ~(i < n) => library' = [library EXCEPT !.out = SubSeq(out, 1, n - 1), !.at = "done"]
  BY <1>2, <1>3 DEF Lst!MoveDown, Calls
<1> HIDE DEF a, out, pos, i, n
<1>5. i \in 1..n
  BY <1>2, <1>3
<1>6. CASE i < n
  <2> DEFINE y == [out EXCEPT ![i] = out[i + 1]]
             h == i + 1
  <2>1. i + 1 \in 1..n /\ ~(i + 1 < i)
    BY <1>2, <1>3, <1>5, <1>6
  <2>2. out[i + 1] \in Elements /\ out[i + 1] = a[i + 1]
    BY <1>2, <1>3, <2>1, ElementOfSeq
  <2>3. y \in Seq(Elements) /\ Len(y) = n /\ \A k \in 1..n : y[k] = IF k = i THEN out[i + 1] ELSE out[k]
    BY <1>2, <1>3, <1>5, <2>2, ExceptSeq
  <2> HIDE DEF y
  <2>4. /\ library' \in Calls /\ library'.out = y /\ library'.i = h /\ library'.at = "remove"
        /\ library'.call = "remove"
        /\ library'.a = a /\ library'.pos = pos /\ library'.stack = <<>>
    <3>1. h \in Int
      BY <1>2
    <3>2. library' = [library EXCEPT !.out = y, !.i = h]
      BY <1>4, <1>6 DEF y, h
    <3> HIDE DEF h
    <3> QED BY <1>1, <1>2, <1>3, <2>3, <3>1, <3>2 DEF Calls, a, pos
  <2>5. h \in pos..n
    BY <1>2, <1>3, <1>5, <1>6
  <2>6. ASSUME NEW k \in 1..n
        PROVE  y[k] = IF pos <= k /\ k < h THEN a[k + 1] ELSE a[k]
    <3>1. CASE k = i
      <4>1. pos <= k /\ k < h
        BY <1>2, <1>3, <3>1
      <4> QED BY <2>2, <2>3, <3>1, <4>1
    <3>2. CASE k # i
      <4>1. y[k] = out[k]
        BY <2>3, <3>2
      <4>2. k < h <=> k < i
        BY <1>2, <3>2
      <4> QED BY <1>3, <4>1, <4>2
    <3> QED BY <3>1, <3>2
  <2>7. Removing(library')
    BY <1>3, <2>3, <2>4, <2>5, <2>6 DEF Removing, n
  <2> QED BY <2>4, <2>7 DEF Kept
<1>7. CASE ~(i < n)
  <2> DEFINE y == SubSeq(out, 1, n - 1)
  <2>1. i = n
    BY <1>2, <1>3, <1>7
  <2>2. y \in Seq(Elements) /\ Len(y) = n - 1 /\ \A k \in 1..(n - 1) : y[k] = out[k]
    <3>1. out # <<>>
      <4>1. Len(out) = n /\ n >= 1
        BY <1>2, <1>3
      <4>2. Len(<<>>) = 0
        BY EmptySeq
      <4> QED BY <1>2, <4>1, <4>2
    <3> QED BY <1>2, <1>3, <3>1, Popped
  <2> HIDE DEF y
  <2>3. /\ library' \in Calls /\ library'.out = y /\ library'.at = "done" /\ library'.call = "remove"
        /\ library'.a = a /\ library'.pos = pos /\ library'.stack = <<>>
    <3>1. library' = [library EXCEPT !.out = y, !.at = "done"]
      BY <1>4, <1>7 DEF y
    <3> QED BY <1>2, <1>3, <2>2, <3>1 DEF Calls, a, pos
  <2>4. ASSUME NEW k \in 1..(n - 1)
        PROVE  y[k] = IF k < pos THEN a[k] ELSE a[k + 1]
    <3>1. k \in 1..n /\ k < i /\ (pos <= k <=> ~(k < pos))
      BY <1>2, <2>1
    <3>2. y[k] = out[k]
      BY <2>2
    <3>3. out[k] = IF pos <= k /\ k < i THEN a[k + 1] ELSE a[k]
      BY <1>3, <3>1
    <3> QED BY <3>1, <3>2, <3>3
  <2>5. Removing(library')
    BY <1>3, <2>2, <2>3, <2>4 DEF Removing, n
  <2> QED BY <2>3, <2>5 DEF Kept
<1> QED BY <1>6, <1>7

\* Every step of a call keeps it.
LEMMA ListStep == Kept(library) /\ [Lst!Next]_library => Kept(library')
<1> SUFFICES ASSUME Kept(library), [Lst!Next]_library PROVE Kept(library')
  OBVIOUS
<1>1. CASE UNCHANGED library
  BY <1>1
<1>2. CASE Lst!Sort
  <2>1. /\ library.at = "call"
        /\ library' = [library EXCEPT !.call = "sort", !.at = "while", !.stack = << <<1, Len(library.a)>> >>]
    BY <1>2 DEF Lst!Sort, Lst!At
  <2> QED BY <2>1, SortKeeps
<1> QED BY <1>1, <1>2, FewKeeps, PivotKeeps, UpKeeps, DownKeeps, ExchangeKeeps, SplitKeeps,
           InsertKeeps, MoveUpKeeps, RemoveKeeps, MoveDownKeeps DEF Lst!Next

-----------------------------------------------------------------------------
\* A list cut in two and joined with an element between.
LEMMA PutBetween ==
    ASSUME NEW a \in Seq(Elements), NEW pos \in 1..(Len(a) + 1), NEW e \in Elements,
           NEW out \in Seq(Elements), Len(out) = Len(a) + 1, out[pos] = e,
           \A k \in 1..Len(out) : (k < pos => out[k] = a[k]) /\ (k > pos => out[k] = a[k - 1])
    PROVE  out = SubSeq(a, 1, pos - 1) \o <<e>> \o SubSeq(a, pos, Len(a))
<1> DEFINE n == Len(a)
           p == SubSeq(a, 1, pos - 1)
           q == SubSeq(a, pos, n)
           m == <<e>>
<1>1. n \in Nat /\ \A k \in 1..n : a[k] \in Elements
  BY KeysAre
<1>2. p \in Seq(Elements) /\ Len(p) = pos - 1 /\ \A k \in 1..(pos - 1) : p[k] = a[k]
  <2> DEFINE h == pos - 1
  <2>1. 1 \in Int /\ h \in Int /\ \A k \in 1..h : a[k] \in Elements
    BY <1>1
  <2> HIDE DEF h
  <2>2. /\ SubSeq(a, 1, h) \in Seq(Elements) /\ Len(SubSeq(a, 1, h)) = IF 1 <= h THEN h - 1 + 1 ELSE 0
        /\ \A k \in 1..(h - 1 + 1) : SubSeq(a, 1, h)[k] = a[1 + k - 1]
    BY <2>1, SubSeqProperties
  <2>3. h - 1 + 1 = h /\ \A k \in 1..h : 1 + k - 1 = k
    BY <2>1
  <2>4. h \in Nat
    BY <1>1 DEF h
  <2>5. (IF 1 <= h THEN h - 1 + 1 ELSE 0) = h
    BY <2>3, <2>4
  <2> QED BY <2>2, <2>3, <2>5 DEF h
<1>3. q \in Seq(Elements) /\ Len(q) = n + 1 - pos /\ \A k \in 1..(n + 1 - pos) : q[k] = a[pos + k - 1]
  <2>1. pos \in Int /\ n \in Int /\ \A k \in pos..n : a[k] \in Elements
    BY <1>1
  <2>2. /\ q \in Seq(Elements) /\ Len(q) = IF pos <= n THEN n - pos + 1 ELSE 0
        /\ \A k \in 1..(n - pos + 1) : q[k] = a[pos + k - 1]
    <3> HIDE DEF n
    <3> QED BY <2>1, SubSeqProperties
  <2>3. n - pos + 1 = n + 1 - pos /\ (pos <= n \/ n + 1 - pos = 0)
    BY <1>1
  <2> QED BY <2>2, <2>3
<1>4. m \in Seq(Elements) /\ Len(m) = 1 /\ m[1] = e
  OBVIOUS
<1> HIDE DEF n, p, q, m
<1> DEFINE pm == p \o m
           r == pm \o q
<1>5. /\ pm \in Seq(Elements) /\ Len(pm) = Len(p) + Len(m)
      /\ \A k \in 1..(Len(p) + Len(m)) : pm[k] = IF k <= Len(p) THEN p[k] ELSE m[k - Len(p)]
  BY <1>2, <1>4, ConcatProperties
<1> HIDE DEF pm
<1>6. /\ r \in Seq(Elements) /\ Len(r) = Len(pm) + Len(q)
      /\ \A k \in 1..(Len(pm) + Len(q)) : r[k] = IF k <= Len(pm) THEN pm[k] ELSE q[k - Len(pm)]
  BY <1>3, <1>5, ConcatProperties
<1> HIDE DEF r
<1>7. Len(pm) = pos /\ Len(r) = n + 1 /\ pos \in Int /\ pos \in 1..(n + 1)
  BY <1>1, <1>2, <1>3, <1>4, <1>5, <1>6 DEF n
<1>8. ASSUME NEW k \in 1..(n + 1) PROVE out[k] = r[k]
  <2>0. k \in Int /\ k \in 1..Len(out) /\ k \in 1..(Len(pm) + Len(q))
    BY <1>1, <1>6, <1>7 DEF n
  <2>1. CASE k < pos
    <3>1. k <= Len(pm) /\ k \in 1..(Len(p) + Len(m)) /\ k <= Len(p) /\ k \in 1..(pos - 1)
      BY <1>2, <1>4, <1>7, <2>0, <2>1
    <3> QED BY <1>2, <1>5, <1>6, <2>0, <2>1, <3>1
  <2>2. CASE k = pos
    <3>0. Len(p) = pos - 1 /\ Len(m) = 1 /\ Len(pm) = pos
      BY <1>2, <1>4, <1>7
    <3>1. k <= Len(pm) /\ k \in 1..(Len(p) + Len(m)) /\ ~(k <= Len(p)) /\ k - Len(p) = 1
      BY <1>7, <2>0, <2>2, <3>0
    <3>2. pm[k] = m[1]
      BY <1>5, <3>1
    <3>3. r[k] = m[1]
      BY <1>6, <2>0, <3>1, <3>2
    <3> QED BY <1>4, <2>2, <3>3
  <2>3. CASE k > pos
    <3>1. ~(k <= Len(pm)) /\ k - Len(pm) = k - pos /\ k - pos \in 1..(n + 1 - pos)
      BY <1>1, <1>7, <2>0, <2>3
    <3>2. q[k - pos] = a[k - 1]
      <4>1. pos + (k - pos) - 1 = k - 1
        BY <1>7, <2>0
      <4>2. q[k - pos] = a[pos + (k - pos) - 1]
        BY <1>3, <3>1
      <4> QED BY <4>1, <4>2
    <3> QED BY <1>6, <2>0, <2>3, <3>1, <3>2
  <2> QED BY <1>7, <2>0, <2>1, <2>2, <2>3
<1>9. out = r
  <2>1. Len(out) = n + 1
    BY DEF n
  <2> QED BY <1>6, <1>7, <1>8, <2>1, SeqEqual
<1> QED BY <1>9 DEF r, pm, p, q, m, n

\* A list cut in two around an element.
LEMMA TakenOut ==
    ASSUME NEW a \in Seq(Elements), NEW pos \in 1..Len(a), NEW out \in Seq(Elements), Len(out) = Len(a) - 1,
           \A k \in 1..(Len(a) - 1) : out[k] = IF k < pos THEN a[k] ELSE a[k + 1]
    PROVE  out = SubSeq(a, 1, pos - 1) \o SubSeq(a, pos + 1, Len(a))
<1> DEFINE n == Len(a)
           p == SubSeq(a, 1, pos - 1)
           c == pos + 1
           q == SubSeq(a, c, n)
<1>1. n \in Nat /\ \A k \in 1..n : a[k] \in Elements
  BY KeysAre
<1>2. p \in Seq(Elements) /\ Len(p) = pos - 1 /\ \A k \in 1..(pos - 1) : p[k] = a[k]
  <2> DEFINE h == pos - 1
  <2>1. 1 \in Int /\ h \in Int /\ \A k \in 1..h : a[k] \in Elements
    BY <1>1
  <2> HIDE DEF h
  <2>2. /\ SubSeq(a, 1, h) \in Seq(Elements) /\ Len(SubSeq(a, 1, h)) = IF 1 <= h THEN h - 1 + 1 ELSE 0
        /\ \A k \in 1..(h - 1 + 1) : SubSeq(a, 1, h)[k] = a[1 + k - 1]
    BY <2>1, SubSeqProperties
  <2>3. h - 1 + 1 = h /\ \A k \in 1..h : 1 + k - 1 = k
    BY <2>1
  <2>4. h \in Nat
    BY <1>1 DEF h
  <2>5. (IF 1 <= h THEN h - 1 + 1 ELSE 0) = h
    BY <2>3, <2>4
  <2> QED BY <2>2, <2>3, <2>5 DEF h
<1>3. q \in Seq(Elements) /\ Len(q) = n - pos /\ \A k \in 1..(n - pos) : q[k] = a[pos + k]
  <2>1. c \in Int /\ n \in Int /\ \A k \in c..n : a[k] \in Elements
    BY <1>1
  <2>2. /\ q \in Seq(Elements) /\ Len(q) = IF c <= n THEN n - c + 1 ELSE 0
        /\ \A k \in 1..(n - c + 1) : q[k] = a[c + k - 1]
    <3> HIDE DEF n, c
    <3> QED BY <2>1, SubSeqProperties
  <2>3. n - c + 1 = n - pos /\ (c <= n \/ n - pos = 0)
    BY <1>1
  <2>4. \A k \in 1..(n - pos) : c + k - 1 = pos + k
    BY <1>1
  <2>5. (IF c <= n THEN n - c + 1 ELSE 0) = n - pos
    BY <2>3
  <2> HIDE DEF c, q
  <2> QED BY <2>2, <2>3, <2>4, <2>5
<1> HIDE DEF n, p, q
<1> DEFINE r == p \o q
<1>5. /\ r \in Seq(Elements) /\ Len(r) = Len(p) + Len(q)
      /\ \A k \in 1..(Len(p) + Len(q)) : r[k] = IF k <= Len(p) THEN p[k] ELSE q[k - Len(p)]
  BY <1>2, <1>3, ConcatProperties
<1> HIDE DEF r
<1>7. Len(r) = n - 1 /\ pos \in 1..n /\ pos \in Int
  BY <1>1, <1>2, <1>3, <1>5 DEF n
<1>8. ASSUME NEW k \in 1..(n - 1) PROVE out[k] = r[k]
  <2>0. k \in Int /\ k \in 1..(Len(p) + Len(q)) /\ out[k] = IF k < pos THEN a[k] ELSE a[k + 1]
    BY <1>1, <1>5, <1>7 DEF n
  <2>1. CASE k < pos
    <3>1. k <= Len(p) /\ k \in 1..(pos - 1)
      BY <1>2, <1>7, <2>0, <2>1
    <3> QED BY <1>2, <1>5, <2>0, <2>1, <3>1
  <2>2. CASE ~(k < pos)
    <3>0. Len(p) = pos - 1 /\ n \in Int
      BY <1>1, <1>2
    <3>1. ~(k <= Len(p)) /\ k - Len(p) = (k + 1) - pos /\ (k + 1) - pos \in 1..(n - pos)
      <4>1. k \in 1..(n - 1) /\ pos <= k /\ pos \in Int /\ 1 <= pos
        BY <1>7, <2>0, <2>2
      <4>2. (k + 1) - pos \in Int /\ 1 <= (k + 1) - pos /\ (k + 1) - pos <= n - pos
        BY <3>0, <4>1
      <4>3. ~(k <= Len(p)) /\ k - Len(p) = (k + 1) - pos
        BY <3>0, <4>1
      <4> QED BY <3>0, <4>1, <4>2, <4>3
    <3>2. q[(k + 1) - pos] = a[k + 1]
      <4>1. pos + ((k + 1) - pos) = k + 1
        BY <1>7, <2>0
      <4>2. q[(k + 1) - pos] = a[pos + ((k + 1) - pos)]
        BY <1>3, <3>1
      <4> QED BY <4>1, <4>2
    <3> QED BY <1>5, <2>0, <2>2, <3>1, <3>2
  <2> QED BY <2>1, <2>2
<1>9. out = r
  <2>1. Len(out) = n - 1
    BY DEF n
  <2> QED BY <1>5, <1>7, <1>8, <2>1, SeqEqual
<1> QED BY <1>9 DEF r, p, q, n

\* The invariant says what ListsKept says.
LEMMA KeptSays == Kept(library) => ListsKept
<1> SUFFICES ASSUME Kept(library) PROVE ListsKept
  OBVIOUS
<1> DEFINE a == library.a
           out == library.out
<1>1. /\ library \in Calls /\ a \in Seq(Elements) /\ out \in Seq(Elements)
      /\ Len(a) \in Nat /\ Len(out) \in Nat
  <2>1. library \in Calls
    BY DEF Kept
  <2> QED BY <2>1, CallIs
<1>2. DOMAIN a = 1..Len(a) /\ DOMAIN out = 1..Len(out)
  BY <1>1, LenProperties
<1>3. ASSUME library.call = "sort"
      PROVE  /\ Len(out) = Len(a) /\ \A i \in DOMAIN a : \E j \in DOMAIN out : out[j] = a[i]
             /\ ~library.error
             /\ library.at = "up" => Lst!Lower <= library.i /\ library.i < Lst!Upper
             /\ library.at = "down" => Lst!Lower < library.j /\ library.j <= Lst!Upper
             /\ a # <<>> /\ library.stack # <<>> => Lst!Pow2[Len(library.stack)] <= Len(a) + 1
             /\ library.at = "done" => \A i, j \in DOMAIN out : i < j => ~Lst!Less(out[j], out[i])
  <2>1. Sorting(library)
    BY <1>3 DEF Kept
  <2>2. /\ Same(a, out) /\ ~library.error /\ Stacked(out, library.stack, Len(a))
        /\ library.at = "done" <=> library.stack = <<>>
    BY <2>1 DEF Sorting
  <2>3. Len(out) = Len(a) /\ \A i \in DOMAIN a : \E j \in DOMAIN out : out[j] = a[i]
    BY <1>2, <2>2 DEF Same
  <2>4. ASSUME library.at = "up" PROVE Lst!Lower <= library.i /\ library.i < Lst!Upper
    <3>1. Scans(out, Lst!Lower, Lst!Upper, library.pivot, library.i, library.j, "up")
      BY <2>1, <2>4 DEF Sorting, Lst!Lower, Lst!Upper, Low, Upp
    <3>2. PartOf(out, Lst!Lower, Lst!Upper)
      BY <2>2, <2>4, TopIs DEF Lst!Lower, Lst!Upper
    <3> HIDE DEF out
    <3> QED BY <1>1, <3>1, <3>2 DEF Scans, PartOf, Calls
  <2>5. ASSUME library.at = "down" PROVE Lst!Lower < library.j /\ library.j <= Lst!Upper
    <3>1. Scans(out, Lst!Lower, Lst!Upper, library.pivot, library.i, library.j, "down")
      BY <2>1, <2>5 DEF Sorting, Lst!Lower, Lst!Upper, Low, Upp
    <3>2. PartOf(out, Lst!Lower, Lst!Upper)
      BY <2>2, <2>5, TopIs DEF Lst!Lower, Lst!Upper
    <3> HIDE DEF out
    <3> QED BY <1>1, <3>1, <3>2 DEF Scans, PartOf, Calls
  <2>6. ASSUME a # <<>>, library.stack # <<>> PROVE Lst!Pow2[Len(library.stack)] <= Len(a) + 1
    <3>1. Len(a) > 0
      BY <1>1, <2>6, EmptySeq
    <3> QED BY <2>2, <2>6, <3>1, DepthIs
  <2>7. ASSUME library.at = "done" PROVE \A i, j \in DOMAIN out : i < j => ~Lst!Less(out[j], out[i])
    <3>1. library.stack = <<>> /\ Ordered(out, library.stack)
      BY <2>2, <2>7 DEF Stacked
    <3>2. Len(library.stack) = 0
      BY <3>1, EmptySeq
    <3>3. \A p, q \in 1..Len(out) : p < q => out[p][1] <= out[q][1]
      BY <3>1, <3>2 DEF Ordered
    <3>4. \A k \in 1..Len(out) : out[k][1] \in Int
      BY <1>1, KeysAre
    <3> QED BY <1>2, <3>3, <3>4 DEF Lst!Less
  <2> QED BY <2>2, <2>3, <2>4, <2>5, <2>6, <2>7
<1>4. ASSUME library.call = "insert", library.at = "done"
      PROVE  out = SubSeq(a, 1, library.pos - 1) \o <<Lst!New>> \o SubSeq(a, library.pos, Len(a))
  <2>1. /\ Len(out) = Len(a) + 1 /\ library.pos \in 1..Len(out) /\ out[library.pos] = Lst!New
        /\ \A k \in 1..Len(out) : /\ k < library.pos => out[k] = a[k]
                                  /\ k > library.pos => out[k] = a[k - 1]
    BY <1>4 DEF Kept, Inserting
  <2>2. Lst!New \in Elements /\ library.pos \in 1..(Len(a) + 1)
    BY <2>1 DEF Lst!New, Elements
  <2> HIDE DEF a, out
  <2> QED BY <1>1, <2>1, <2>2, PutBetween
<1>5. ASSUME library.call = "remove", library.at = "done"
      PROVE  out = IF library.pos \in DOMAIN a
                   THEN SubSeq(a, 1, library.pos - 1) \o SubSeq(a, library.pos + 1, Len(a)) ELSE a
  <2>1. \/ library.pos \notin 1..Len(a) /\ out = a
        \/ /\ library.pos \in 1..Len(a) /\ Len(out) = Len(a) - 1
           /\ \A k \in 1..(Len(a) - 1) : out[k] = IF k < library.pos THEN a[k] ELSE a[k + 1]
    BY <1>5 DEF Kept, Removing
  <2> HIDE DEF a, out
  <2> QED BY <1>1, <1>2, <2>1, TakenOut
<1> QED BY <1>3, <1>4, <1>5 DEF ListsKept, Lst!ListsKept

\* sort leaves the elements of the list in order and stays in the list and on few stack
\* slots; insert and remove leave the other elements as they were.
THEOREM ListsAreKept == Lst!Spec => []ListsKept
<1>1. Lst!ListConstants
  BY PartsConstants
<1>2. Lst!Init => Kept(library)
  BY <1>1, ListInit
<1>3. Kept(library) /\ [Lst!Next]_library => Kept(library)'
  BY ListStep
<1> QED BY <1>2, <1>3, KeptSays, PTL DEF Lst!Spec
===============================================================================
