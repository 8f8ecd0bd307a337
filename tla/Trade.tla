------------------------------- MODULE Trade -------------------------------
(***************************************************************************)
(* The trading game of merchFuncs.js: what the player owns, the trade       *)
(* history that moves the prices, the price formula, and the island window  *)
(* whose Buy and Sell buttons the player presses.                           *)
(*                                                                          *)
(* Prices are exact: a value v of the code is the integer                   *)
(* v * 10000 * Reach, so Math.floor is one integer division.  The wave      *)
(* pattern is a constant table of percentages (Wave), the distance between  *)
(* islands the table Near of infDist in units of priceChangeRange / Reach.  *)
(* The counter "time" of line 10 is written and never read: it is left out. *)
(***************************************************************************)
EXTENDS Integers, Sequences, FiniteSets, SequencesExt, FiniteSetsExt

CONSTANTS
    Commodities,    \* the keys of "commodities"
    Islands,        \* coordinates of the islands that can be clicked
    NoIsland,       \* currentPosition before the first click (undefined)
    InitialFunds,   \* player.funds at load
    MaxCargo,       \* player.maxCargo
    SellPct,        \* 100 * sellValue
    ChangePct,      \* 100 * priceChangePerUnit
    Reach,          \* priceChangeRange, the unit of Near
    Near,           \* Near[i][j]: max(0, priceChangeRange - distance)
    Wave,           \* Wave[c][i]: 100 * percentValue, 0..100
    FloorAtLoad,    \* floorPrice in the source, a number
    Ceiling,        \* ceilingPrice
    FloorEdits,     \* numerals the player may type in a Floor box
    MaxNet,         \* bound: largest size of one history entry
    MaxFunds        \* bound: funds beyond which no Sell is explored

ASSUME TradeConstants ==
    /\ NoIsland \notin Islands
    /\ InitialFunds \in Nat /\ MaxCargo \in Nat
    /\ SellPct \in 0..100 /\ ChangePct \in Nat /\ Reach \in Nat \ {0}
    /\ Near \in [Islands -> [Islands -> 0..Reach]]
    /\ \A i \in Islands : Near[i][i] = Reach
    /\ Wave \in [Commodities -> [Islands -> 0..100]]
    /\ FloorAtLoad \in [Commodities -> Nat] /\ Ceiling \in [Commodities -> Nat]
    /\ FloorEdits \subseteq Nat

VARIABLES
    funds,          \* player.funds
    cargo,          \* player[commodity.name]
    hist,           \* player.tradeHist: one sequence of entries per commodity
    position,       \* currentPosition
    floor,          \* commodity.floorPrice, and whether it became a string
    shown           \* what the island window displays

vars == <<funds, cargo, hist, position, floor, shown>>

Entry == [coord : Islands, value : Int]
Abs(n) == IF n < 0 THEN -n ELSE n

\* The entries of h added up, each as many times as w says of its place.
Total(h, w) ==
    LET sum[n \in 0..Len(h)] ==
            IF n = 0 THEN 0 ELSE sum[n - 1] + w[h[n].coord] * h[n].value
    IN  sum[Len(h)]
Net(h) == Total(h, [i \in Islands |-> 1])

-----------------------------------------------------------------------------
(* Prices *)

\* Decimal digits of a natural number below 1000, in powers of ten.
Shift(n) == IF n < 10 THEN 10 ELSE IF n < 100 THEN 100 ELSE 1000

\* 100 * normalValue.  A floor typed in the page is a string: "+" joins the
\* two numerals, while "-" still converts.
NormalValue(c, i) ==
    LET f == floor[c].amount
        rise == (Ceiling[c] - f) * Wave[c][i]
    IN  IF floor[c].text THEN 100 * f * Shift(rise \div 100) + rise
                         ELSE 100 * f + rise

\* 100 * Reach * inflation
Inflation(h, i) ==
    100 * Reach + ChangePct * Total(h, [j \in Islands |-> Near[j][i]])

Value(c, i) == NormalValue(c, i) * Inflation(hist[c], i)
Unit == 10000 * Reach

BuyPrice(c) == Value(c, position) \div Unit
SellPrice(c) == (Value(c, position) * SellPct) \div (100 * Unit)

-----------------------------------------------------------------------------
(* The island window *)

\* updateInfoWindow: the text of the two buttons, and the floors it was made
\* from (the page does not refresh it when a parameter is edited).
Window ==
    [floors |-> floor,
     buy    |-> [c \in Commodities |-> BuyPrice(c)],
     sell   |-> [c \in Commodities |-> (BuyPrice(c) * SellPct) \div 100]]
NoWindow == [floors |-> <<>>, buy |-> <<>>, sell |-> <<>>]

Init ==
    /\ funds = InitialFunds
    /\ cargo = [c \in Commodities |-> 0]
    /\ hist = [c \in Commodities |-> <<>>]
    /\ position = NoIsland
    /\ floor = [c \in Commodities |-> [amount |-> FloorAtLoad[c], text |-> FALSE]]
    /\ shown = NoWindow

ShowInfoWindow(i) ==
    /\ position' = i
    /\ UNCHANGED <<funds, cargo, hist, floor>>
    /\ shown' = Window'

-----------------------------------------------------------------------------
(* Trading.  The buttons exist only in an opened window. *)

TotalCargo == MapThenSumSet(LAMBDA c : cargo[c], Commodities)

\* Mutant: an entry that nets to zero is not spliced out.
TradedNoSplice(h, d) ==
    LET i == SelectInSeq(h, LAMBDA t : t.coord = position)
    IN  IF i = 0 THEN Append(h, [coord |-> position, value |-> d])
        ELSE [h EXCEPT ![i].value = @ + d]

\* Mutant: a place not yet in the history is always entered as bought.
TradedAlwaysBought(h, d) ==
    LET i == SelectInSeq(h, LAMBDA t : t.coord = position)
    IN  IF i = 0 THEN Append(h, [coord |-> position, value |-> 1])
        ELSE IF h[i].value + d = 0 THEN RemoveAt(h, i)
        ELSE [h EXCEPT ![i].value = @ + d]

\* The history after d units change hands at the current position.
Traded(h, d) ==
    LET i == SelectInSeq(h, LAMBDA t : t.coord = position)
    IN  IF i = 0 THEN Append(h, [coord |-> position, value |-> d])
        ELSE IF h[i].value + d = 0 THEN RemoveAt(h, i)
        ELSE [h EXCEPT ![i].value = @ + d]

\* Bound of the exploration, not of the code.
Explored(h) == \A t \in ToSet(h) : Abs(t.value) <= MaxNet

\* Mutant: no check of the funds.
BuyCommodityOnCredit(c) ==
    /\ position # NoIsland
    /\ TotalCargo < MaxCargo
    /\ Explored(Traded(hist[c], 1))
    /\ funds' = funds - BuyPrice(c)
    /\ cargo' = [cargo EXCEPT ![c] = @ + 1]
    /\ hist' = [hist EXCEPT ![c] = Traded(@, 1)]
    /\ UNCHANGED <<position, floor>>
    /\ shown' = Window'

BuyCommodity(c) ==
    /\ position # NoIsland
    /\ funds >= BuyPrice(c)
    /\ TotalCargo < MaxCargo
    /\ Explored(Traded(hist[c], 1))
    /\ funds' = funds - BuyPrice(c)
    /\ cargo' = [cargo EXCEPT ![c] = @ + 1]
    /\ hist' = [hist EXCEPT ![c] = Traded(@, 1)]
    /\ UNCHANGED <<position, floor>>
    /\ shown' = Window'

SellCommodity(c) ==
    /\ position # NoIsland
    /\ cargo[c] >= 1
    /\ funds <= MaxFunds
    /\ Explored(Traded(hist[c], -1))
    /\ funds' = funds + SellPrice(c)
    /\ cargo' = [cargo EXCEPT ![c] = @ - 1]
    /\ hist' = [hist EXCEPT ![c] = Traded(@, -1)]
    /\ UNCHANGED <<position, floor>>
    /\ shown' = Window'

-----------------------------------------------------------------------------
(* Time and parameters *)

\* Mutant: only what was bought decays.
TowardsZeroFromAbove(t) == [t EXCEPT !.value = IF @ < 0 THEN @ ELSE @ - 1]

TowardsZero(t) == [t EXCEPT !.value = IF @ < 0 THEN @ + 1 ELSE @ - 1]

\* One pass of the loop of AdvanceTime over a history.  An entry that reaches
\* zero is spliced out while the index still moves on, so the entry behind it
\* is stepped over.
AgedEntry(acc, t) ==
    IF acc.skip THEN [kept |-> Append(acc.kept, t), skip |-> FALSE]
    ELSE IF Abs(t.value) = 1 THEN [acc EXCEPT !.skip = TRUE]
    ELSE [acc EXCEPT !.kept = Append(@, TowardsZero(t))]
Aged(h) ==
    LET pass[n \in 0..Len(h)] ==
            IF n = 0 THEN [kept |-> <<>>, skip |-> FALSE]
            ELSE AgedEntry(pass[n - 1], h[n])
    IN  pass[Len(h)].kept

\* Mutant: the window is not written again.
AdvanceTimeNoRefresh ==
    /\ hist' = [c \in Commodities |-> Aged(hist[c])]
    /\ UNCHANGED <<funds, cargo, position, floor, shown>>

\* Before the first click updateInfoWindow throws on the undefined position:
\* the histories have aged, the window stays as it was.
AdvanceTime ==
    /\ hist' = [c \in Commodities |-> Aged(hist[c])]
    /\ UNCHANGED <<funds, cargo, position, floor>>
    /\ shown' = IF position = NoIsland THEN shown ELSE Window'

\* onchange of a Floor box: the value of the box is a string.  The code takes
\* any (merchFuncs.js:117); here it is a whole number up to the ceiling.  A floor
\* above it or a fraction joins with the rise to what is no numeral ("9-2"): the
\* price is NaN (247), nothing is refused, and the funds become NaN (362-367).
EditFloor(c, n) ==
    /\ n <= Ceiling[c]
    /\ floor' = [floor EXCEPT ![c] = [amount |-> n, text |-> TRUE]]
    /\ UNCHANGED <<funds, cargo, hist, position, shown>>

Next ==
    \/ \E i \in Islands : ShowInfoWindow(i)
    \/ \E c \in Commodities : BuyCommodity(c)
    \/ \E c \in Commodities : SellCommodity(c)
    \/ AdvanceTime
    \/ \E c \in Commodities, n \in FloorEdits : EditFloor(c, n)

Spec == Init /\ [][Next]_vars

\* A player who keeps pressing "Advance time".
PatientSpec == Spec /\ WF_vars(AdvanceTime)

-----------------------------------------------------------------------------
(* Properties *)

TypeOK ==
    /\ funds \in Int
    /\ cargo \in [Commodities -> 0..MaxCargo]
    /\ hist \in [Commodities -> Seq(Entry)]
    /\ position \in Islands \cup {NoIsland}
    /\ floor \in [Commodities -> [amount : Nat, text : BOOLEAN]]

\* A history has one entry per place and none that nets to nothing, however
\* buys, sells and ticks were interleaved: getCommodityValue counts a place
\* once, and the first match of the search is the only one.
HistCanonical ==
    \A c \in Commodities : \A i, j \in DOMAIN hist[c] :
        /\ hist[c][i].value # 0
        /\ hist[c][i].coord = hist[c][j].coord => i = j

\* The number on the Buy button is the sum that buyCommodity charges, unless
\* a Floor box was edited since the window was written.  The Sell button rounds
\* twice, sellCommodity once: what is paid is what is shown or one coin more,
\* also at negative prices.
ShownPriceHolds ==
    position # NoIsland /\ shown.floors = floor =>
        \A c \in Commodities :
            shown.buy[c] = BuyPrice(c) /\ SellPrice(c) - shown.sell[c] \in {0, 1}

\* Whatever moves cargo moves the ledger of that commodity by as much, also
\* when an entry appears, changes sign, or is spliced out.
LedgerFollowsCargo ==
    [][cargo' # cargo =>
         \A c \in Commodities :
             cargo'[c] - cargo[c] = Net(hist'[c]) - Net(hist[c])]_vars

\* Funds turn negative only by a sale at a place so oversold that its price is
\* below zero; buying never does it.  And where nothing has been sold short, a
\* unit bought and sold back at once never makes money.
FundsFollowPrices ==
    [][/\ funds >= 0 /\ funds' < 0 =>
            \E c \in Commodities :
                cargo'[c] < cargo[c] /\ Inflation(hist[c], position) < 0
       /\ \A c \in Commodities :
            /\ cargo'[c] > cargo[c]
            /\ \A t \in ToSet(hist[c]) : t.value > 0
            => funds' + SellPrice(c)' <= funds]_vars

\* Once the player only lets time pass, every price returns to normal.
PricesRecover ==
    <>[][AdvanceTime]_vars => <>[](\A c \in Commodities : hist[c] = <<>>)
=============================================================================
