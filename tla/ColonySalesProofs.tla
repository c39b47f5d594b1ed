--------------------------- MODULE ColonySalesProofs ---------------------------
(***************************************************************************)
(* ColonySales for any number of plots, calls and sales: no plot gets two  *)
(* sales with a deed unless one was cancelled amid another call, no sale   *)
(* two deeds unless calls that make one overlapped or died, a plot with an *)
(* old deed gets no sale, and calls that come one after another and to     *)
(* their end leave a plot's status and its sales in step.                  *)
(***************************************************************************)
EXTENDS ColonySales, TLAPS

(* A call is about to make, or has just made, the deed of its sale.        *)
Making == {"deed.create", "deed.mark"}
(* It took its sale for one that is not cancelled.                         *)
Relying == Making \union {"drafted", "checks.plot", "checks.other"}

(* What a call at a point holds: a sale of its plot, ...                   *)
Sound(point, l) ==
  /\ l.sale <= Len(sales)
  /\ l.sale > 0 => sales[l.sale].plot = l.plot
  /\ point \in Making \union {"sale.read", "drafted", "deed.sold", "cancel.save",
                             "cancel.count", "cancel.free"}
       => l.sale > 0
  /\ point \in {"checks.plot", "checks.other"} => l.kind = "enter" \/ l.sale > 0

(* ... which nobody cancelled meanwhile.                                   *)
Standing(point, l) ==
  point \in Relying /\ l.sale > 0 /\ l.plot \notin interrupted
    => sales[l.sale].status # "CANCELLED"

ClaimedSale(n) ==
  \/ sales[n].status = "DEED_CREATED"
  \/ \E c \in Callers : stage[c] \in Making /\ held[c].sale = n

(* So the calls that make deeds and the sales that have one agree.         *)
OneClaim ==
  \A m, n \in 1..Len(sales) :
    ClaimedSale(m) /\ ClaimedSale(n) /\ sales[m].plot = sales[n].plot
      /\ sales[m].plot \notin interrupted => m = n

SaleInv ==
  /\ SaleTypeOK /\ OneClaim
  /\ \A c \in Callers : Sound(stage[c], held[c]) /\ Standing(stage[c], held[c])

-----------------------------------------------------------------------------
(* The types.                                                              *)

(* What an idle call holds has its type.                                   *)
LEMMA NothingHeldFits == ASSUME MaxSales \in Nat, Plots # {} PROVE NoHolding \in Holdings
BY DEF NoHolding, Holdings, SaleKinds

(* The fields of what a call holds.                                        *)
LEMMA HeldFields ==
  ASSUME SaleTypeOK, NEW c \in Callers
  PROVE  /\ held[c] \in Holdings /\ held[c].kind \in SaleKinds /\ held[c].plot \in Plots
         /\ held[c].sale \in 0..MaxSales /\ held[c].number \in 0..(MaxSales + 1)
         /\ held[c].sold \in BOOLEAN /\ stage[c] \in SalePoints
BY DEF SaleTypeOK, Holdings

(* Where the calls are after one of them went on.                          *)
LEMMA OneMoves ==
  ASSUME SaleTypeOK, NEW c \in Callers, NEW point, NEW l, GoOn(c, point, l)
  PROVE  /\ stage'[c] = point /\ held'[c] = l
         /\ \A o \in Callers \ {c} : stage'[o] = stage[o] /\ held'[o] = held[o]
         /\ point \in SalePoints => stage' \in [Callers -> SalePoints]
         /\ l \in Holdings => held' \in [Callers -> Holdings]
BY DEF SaleTypeOK, GoOn

(* A row of the sales.                                                     *)
LEMMA Rows ==
  ASSUME SaleTypeOK, NEW n \in 1..Len(sales)
  PROVE  /\ sales[n] \in SaleRows /\ sales[n].plot \in Plots
         /\ sales[n].status \in {"DRAFT", "DEED_CREATED", "CANCELLED"}
         /\ sales[n].deeds \in 0..2
<1>1. sales \in Seq(SaleRows)
  BY DEF SaleTypeOK
<1>2. sales[n] \in SaleRows
  BY <1>1
<1> QED BY <1>2 DEF SaleRows

-----------------------------------------------------------------------------
(* A step that leaves the sales alone moves one call; if it keeps what the *)
(* call holds sound, and gives it a deed to make only when no other sale   *)
(* of the plot is claimed, the claims stay one per plot.                   *)
LEMMA MoveKeeps ==
  ASSUME SaleInv, NEW c \in Callers, NEW point, NEW l, GoOn(c, point, l),
         UNCHANGED <<sales, interrupted>>,
         Sound(point, l), Standing(point, l),
         point \in Making =>
           \A m \in 1..Len(sales) :
             ClaimedSale(m) /\ sales[m].plot = l.plot /\ l.plot \notin interrupted => m = l.sale
  PROVE  /\ OneClaim'
         /\ \A o \in Callers : Sound(stage[o], held[o])' /\ Standing(stage[o], held[o])'
<1>1. /\ stage'[c] = point /\ held'[c] = l
      /\ \A o \in Callers \ {c} : stage'[o] = stage[o] /\ held'[o] = held[o]
  BY OneMoves DEF SaleInv
<1>2. ASSUME NEW o \in Callers
      PROVE  Sound(stage[o], held[o])' /\ Standing(stage[o], held[o])'
  BY <1>1 DEF SaleInv, Sound, Standing
<1>3. ASSUME NEW n \in 1..Len(sales), ClaimedSale(n)'
      PROVE  ClaimedSale(n) \/ (point \in Making /\ l.sale = n)
  BY <1>1, <1>3 DEF ClaimedSale
<1>4. OneClaim'
  <2> SUFFICES ASSUME NEW m \in 1..Len(sales), NEW n \in 1..Len(sales),
                      ClaimedSale(m)', ClaimedSale(n)', sales[m].plot = sales[n].plot,
                      sales[m].plot \notin interrupted
               PROVE  m = n
    BY DEF OneClaim
  <2>1. CASE ClaimedSale(m) /\ ClaimedSale(n)
    BY <2>1 DEF SaleInv, OneClaim
  <2>2. CASE point \in Making /\ (l.sale = n \/ l.sale = m)
    BY <2>2, <1>3 DEF Sound
  <2> QED BY <1>3, <2>1, <2>2
<1> QED BY <1>2, <1>4

-----------------------------------------------------------------------------
(* Each step; first the calls that read, end or write to a plot.           *)

(* Nothing changes but one call, the plots and who is to blame.            *)
Quiet ==
  /\ UNCHANGED <<sales, interrupted>>
  /\ plots' \in [Plots -> PlotStatuses]
  /\ imported' \subseteq Plots /\ old' \subseteq imported' /\ uneven' \subseteq Plots
  /\ rushed' \subseteq Plots

(* A call that ends holds nothing.                                         *)
LEMMA EndKeeps ==
  ASSUME MaxSales \in Nat, Plots # {}, SaleInv, NEW c \in Callers, EndCall(c), Quiet
  PROVE  SaleInv'
<1>1. Sound("idle", NoHolding) /\ Standing("idle", NoHolding)
  BY DEF Sound, Standing, NoHolding, Making, Relying
<1>2. stage' \in [Callers -> SalePoints] /\ held' \in [Callers -> Holdings]
  BY NothingHeldFits, OneMoves DEF EndCall, SaleInv, SalePoints
<1>3. GoOn(c, "idle", NoHolding) /\ "idle" \notin Making
  BY DEF EndCall, Making
<1>4. /\ OneClaim'
      /\ \A o \in Callers : Sound(stage[o], held[o])' /\ Standing(stage[o], held[o])'
  BY <1>1, <1>3, MoveKeeps DEF Quiet
<1> QED BY <1>2, <1>4 DEF SaleInv, SaleTypeOK, Quiet

(* A call that goes on with what it holds, or with another sale, plot or   *)
(* number of the right type.                                               *)
LEMMA GoKeeps ==
  ASSUME SaleInv, NEW c \in Callers, NEW point \in SalePoints, NEW l \in Holdings,
         GoOn(c, point, l), Quiet, Sound(point, l), Standing(point, l), point \notin Making
  PROVE  SaleInv'
<1>1. stage' \in [Callers -> SalePoints] /\ held' \in [Callers -> Holdings]
  BY OneMoves DEF SaleInv
<1>2. /\ OneClaim'
      /\ \A o \in Callers : Sound(stage[o], held[o])' /\ Standing(stage[o], held[o])'
  BY MoveKeeps DEF Quiet
<1> QED BY <1>1, <1>2 DEF SaleInv, SaleTypeOK, Quiet

(* What a step that only reads leaves alone.                               *)
LEMMA ReadingIsQuiet == ASSUME SaleTypeOK, Reading PROVE Quiet
BY DEF SaleTypeOK, Reading, register, Quiet

(* A step that only writes the status of its plot.                         *)
LEMMA SettingIsQuiet ==
  ASSUME SaleTypeOK, NEW c \in Callers, NEW status \in PlotStatuses, SetPlot(c, status)
  PROVE  Quiet
BY HeldFields DEF SaleTypeOK, SetPlot, Quiet

LEMMA BeginKeeps ==
  ASSUME MaxSales \in Nat, Plots # {}, SaleInv, NEW c \in Callers, NEW kind \in SaleKinds,
         NEW p \in Plots, NEW n \in 0..MaxSales, BeginSale(c, kind, p, n)
  PROVE  SaleInv'
<1> DEFINE l == [NoHolding EXCEPT !.kind = kind, !.plot = p, !.sale = n]
<1>1. /\ l \in Holdings /\ l.kind = kind /\ l.plot = p /\ l.sale = n
  <2>1. NoHolding \in Holdings
    BY NothingHeldFits
  <2> HIDE DEF NoHolding
  <2> QED BY <2>1 DEF Holdings
<1>2. GoOn(c, FirstPoint(kind), l) /\ Quiet
  BY DEF BeginSale, Quiet, register, SaleInv, SaleTypeOK
<1>3. /\ FirstPoint(kind) \in SalePoints /\ FirstPoint(kind) \notin Making
      /\ kind \in {"enter", "text", "paper"} =>
           FirstPoint(kind) \in {"checks.plot", "text.plot", "paper.plot"}
      /\ FirstPoint(kind) = "checks.plot" => kind = "enter"
      /\ kind \notin {"enter", "text", "paper"} => FirstPoint(kind) = "sale.read"
  BY DEF FirstPoint, SalePoints, Making, SaleKinds
<1>4. \/ kind \in {"enter", "text", "paper"} /\ n = 0
      \/ kind \notin {"enter", "text", "paper"} /\ n \in 1..Len(sales) /\ sales[n].plot = p
  BY DEF BeginSale
<1> HIDE DEF l
<1>5. Len(sales) \in Nat
  BY DEF SaleInv, SaleTypeOK
<1>6. Sound(FirstPoint(kind), l) /\ Standing(FirstPoint(kind), l)
  BY <1>1, <1>3, <1>4, <1>5 DEF Sound, Standing, Making, Relying
<1> QED BY <1>1, <1>2, <1>3, <1>6, GoKeeps

(* The plot read by what company sends, and the sale a paper fills in.     *)
LEMMA ReadsKeep ==
  ASSUME MaxSales \in Nat, Plots # {}, SaleInv, NEW c \in Callers,
         TextPlot(c) \/ PaperPlot(c) \/ PaperExisting(c) \/ ReadSale(c) \/ ChecksPlot(c)
           \/ NextNumber(c)
  PROVE  SaleInv'
<1>1. Quiet
  BY ReadingIsQuiet DEF SaleInv, TextPlot, PaperPlot, PaperExisting, ReadSale, ChecksPlot,
    NextNumber
<1>2. /\ held[c] \in Holdings /\ held[c].kind \in SaleKinds /\ held[c].plot \in Plots
      /\ held[c].sale \in 0..MaxSales /\ Len(sales) \in Nat
      /\ Sound(stage[c], held[c]) /\ Standing(stage[c], held[c])
  BY HeldFields DEF SaleInv, SaleTypeOK
<1>3. CASE EndCall(c)
  BY <1>1, <1>3, EndKeeps
<1>4. CASE TextPlot(c) /\ ~EndCall(c)
  <2>1. GoOn(c, "number", held[c])
    BY <1>4 DEF TextPlot
  <2>2. Sound("number", held[c]) /\ Standing("number", held[c])
    BY <1>2 DEF Sound, Standing, Making, Relying
  <2> QED BY <1>1, <1>2, <2>1, <2>2, GoKeeps DEF SalePoints, Making
<1>5. CASE PaperPlot(c)
  <2> DEFINE l == [held[c] EXCEPT !.sold = plots[held[c].plot] = "SOLD"]
  <2>1. GoOn(c, "paper.existing", l)
    BY <1>5 DEF PaperPlot
  <2>2. l \in Holdings /\ l.sale = held[c].sale /\ l.plot = held[c].plot
    BY <1>2 DEF Holdings
  <2> HIDE DEF l
  <2>3. Sound("paper.existing", l) /\ Standing("paper.existing", l)
    BY <1>2, <2>2 DEF Sound, Standing, Making, Relying
  <2> QED BY <1>1, <2>1, <2>2, <2>3, GoKeeps DEF SalePoints, Making
<1>6. CASE PaperExisting(c) /\ ~EndCall(c)
  <2> DEFINE mine == SalesOf(held[c].plot)
  <2> DEFINE l == [held[c] EXCEPT !.sold = FALSE]
  <2>1. l \in Holdings /\ l.sale = held[c].sale /\ l.plot = held[c].plot
    BY <1>2 DEF Holdings
  <2>2. CASE GoOn(c, "number", l)
    <3> HIDE DEF l
    <3>1. Sound("number", l) /\ Standing("number", l)
      BY <1>2, <2>1 DEF Sound, Standing, Making, Relying
    <3> QED BY <1>1, <2>1, <2>2, <3>1, GoKeeps DEF SalePoints, Making
  <2>3. ASSUME NEW last \in mine, sales[last].status # "DEED_CREATED",
               GoOn(c, "drafted", [l EXCEPT !.sale = last])
        PROVE  SaleInv'
    <3>1. last \in 1..Len(sales) /\ last \in 0..MaxSales /\ sales[last].plot = held[c].plot
          /\ sales[last].status # "CANCELLED"
      BY <1>2 DEF SalesOf, SaleInv, SaleTypeOK
    <3> DEFINE k == [l EXCEPT !.sale = last]
    <3>2. k \in Holdings /\ k.sale = last /\ k.plot = held[c].plot
      BY <2>1, <3>1 DEF Holdings
    <3>3. GoOn(c, "drafted", k)
      BY <2>3
    <3> HIDE DEF k, l, mine
    <3>4. Sound("drafted", k) /\ Standing("drafted", k)
      BY <1>2, <3>1, <3>2 DEF Sound, Standing, Making, Relying
    <3> QED BY <1>1, <3>2, <3>3, <3>4, GoKeeps DEF SalePoints, Making
  <2> QED BY <1>6, <2>2, <2>3 DEF PaperExisting
<1>7. CASE ReadSale(c) /\ ~EndCall(c)
  <2>1. stage[c] = "sale.read"
    BY <1>7 DEF ReadSale, Reached
  <2>2. held[c].sale > 0
    BY <1>2, <2>1 DEF Sound
  <2>3. CASE GoOn(c, "cancel.save", held[c])
    <3>1. Sound("cancel.save", held[c]) /\ Standing("cancel.save", held[c])
      BY <1>2, <2>2 DEF Sound, Standing, Making, Relying
    <3> QED BY <1>1, <1>2, <2>3, <3>1, GoKeeps DEF SalePoints, Making
  <2>4. CASE sales[held[c].sale].status = "DRAFT" /\ GoOn(c, "checks.plot", held[c])
    <3>1. Sound("checks.plot", held[c]) /\ Standing("checks.plot", held[c])
      BY <1>2, <2>2, <2>4 DEF Sound, Standing, Making, Relying
    <3> QED BY <1>1, <1>2, <2>4, <3>1, GoKeeps DEF SalePoints, Making
  <2> QED BY <1>7, <2>3, <2>4 DEF ReadSale
<1>8. CASE ChecksPlot(c)
  <2> DEFINE l == [held[c] EXCEPT !.sold = plots[held[c].plot] = "SOLD"]
  <2>1. GoOn(c, "checks.other", l) /\ stage[c] = "checks.plot"
    BY <1>8 DEF ChecksPlot, Reached
  <2>2. l \in Holdings /\ l.sale = held[c].sale /\ l.plot = held[c].plot /\ l.kind = held[c].kind
    BY <1>2 DEF Holdings
  <2> HIDE DEF l
  <2>3. Sound("checks.other", l) /\ Standing("checks.other", l)
    BY <1>2, <2>1, <2>2 DEF Sound, Standing, Making, Relying
  <2> QED BY <1>1, <2>1, <2>2, <2>3, GoKeeps DEF SalePoints, Making
<1>9. CASE NextNumber(c)
  <2> DEFINE l == [held[c] EXCEPT !.number = Len(sales) + 1]
  <2>1. GoOn(c, "create", l)
    BY <1>9 DEF NextNumber
  <2>2. Len(sales) + 1 \in 0..(MaxSales + 1)
    BY <1>2 DEF SaleInv, SaleTypeOK
  <2>3. l \in Holdings /\ l.sale = held[c].sale /\ l.plot = held[c].plot
    BY <1>2, <2>2 DEF Holdings
  <2> HIDE DEF l
  <2>4. Sound("create", l) /\ Standing("create", l)
    BY <1>2, <2>3 DEF Sound, Standing, Making, Relying
  <2> QED BY <1>1, <2>1, <2>3, <2>4, GoKeeps DEF SalePoints, Making
<1> QED BY <1>3, <1>4, <1>5, <1>6, <1>7, <1>8, <1>9

(* The checks: a deed is made when no other sale of the plot stands, so no *)
(* other one is claimed.                                                   *)
LEMMA ChecksKeep ==
  ASSUME MaxSales \in Nat, Plots # {}, SaleInv, NEW c \in Callers, ChecksOther(c)
  PROVE  SaleInv'
<1> DEFINE l == [held[c] EXCEPT !.sold = FALSE]
<1>1. Quiet /\ stage[c] = "checks.other"
  BY ReadingIsQuiet DEF SaleInv, ChecksOther, Reached
<1>2. /\ held[c] \in Holdings /\ held[c].plot \in Plots
      /\ held[c].sale \in 0..MaxSales /\ Len(sales) \in Nat
      /\ Sound(stage[c], held[c]) /\ Standing(stage[c], held[c])
  BY HeldFields DEF SaleInv, SaleTypeOK
<1>3. l \in Holdings /\ l.sale = held[c].sale /\ l.plot = held[c].plot /\ l.kind = held[c].kind
  BY <1>2 DEF Holdings
<1>4. CASE EndCall(c)
  BY <1>1, <1>4, EndKeeps
<1>5. CASE GoOn(c, "number", l)
  <2> HIDE DEF l
  <2>1. Sound("number", l) /\ Standing("number", l)
    BY <1>2, <1>3 DEF Sound, Standing, Making, Relying
  <2> QED BY <1>1, <1>3, <1>5, <2>1, GoKeeps DEF SalePoints, Making
<1>6. CASE ~DoubleSale(c) /\ l.kind # "enter" /\ GoOn(c, "deed.create", l)
  <2>1. l.sale \in 1..Len(sales) /\ sales[l.sale].plot = l.plot
    BY <1>1, <1>2, <1>3, <1>6 DEF Sound
  <2>2. Sound("deed.create", l) /\ Standing("deed.create", l)
    BY <1>1, <1>2, <1>3, <2>1 DEF Sound, Standing, Making, Relying
  <2>3. ASSUME NEW m \in 1..Len(sales), ClaimedSale(m), sales[m].plot = l.plot,
               l.plot \notin interrupted
        PROVE  m = l.sale
    <3>1. sales[m].status # "CANCELLED"
      <4>1. CASE sales[m].status = "DEED_CREATED"
        BY <4>1
      <4>2. ASSUME NEW o \in Callers, stage[o] \in Making, held[o].sale = m
            PROVE  sales[m].status # "CANCELLED"
        <5>1. Sound(stage[o], held[o]) /\ Standing(stage[o], held[o])
          BY DEF SaleInv
        <5>2. held[o].plot = l.plot
          BY <5>1, <4>2, <2>3 DEF Sound
        <5> QED BY <5>1, <5>2, <4>2, <2>3 DEF Standing, Relying
      <4> QED BY <2>3, <4>1, <4>2 DEF ClaimedSale
    <3>2. m \in SalesOf(held[c].plot)
      BY <1>3, <2>3, <3>1 DEF SalesOf
    <3> QED BY <1>3, <1>6, <3>2 DEF DoubleSale
  <2> HIDE DEF l
  <2>4. /\ OneClaim'
        /\ \A o \in Callers : Sound(stage[o], held[o])' /\ Standing(stage[o], held[o])'
    BY <1>1, <1>6, <2>2, <2>3, MoveKeeps DEF Quiet
  <2>5. stage' \in [Callers -> SalePoints] /\ held' \in [Callers -> Holdings]
    BY <1>3, <1>6, OneMoves DEF SaleInv, SalePoints
  <2> QED BY <1>1, <2>4, <2>5 DEF SaleInv, SaleTypeOK, Quiet
<1> QED BY <1>4, <1>5, <1>6 DEF ChecksOther

(* The steps that write to the plot, and those that count what is left.    *)
LEMMA PlotStepsKeep ==
  ASSUME MaxSales \in Nat, Plots # {}, SaleInv, NEW c \in Callers,
         Drafted(c) \/ DeedSold(c) \/ CancelCount(c) \/ CancelFree(c) \/ FailSale(c)
  PROVE  SaleInv'
<1>1. /\ held[c] \in Holdings /\ held[c].plot \in Plots /\ Len(sales) \in Nat
      /\ held[c].sale \in 0..MaxSales
      /\ Sound(stage[c], held[c]) /\ Standing(stage[c], held[c])
  BY HeldFields DEF SaleInv, SaleTypeOK
<1>2. Quiet
  <2>1. CASE Drafted(c) \/ DeedSold(c) \/ CancelFree(c)
    BY <2>1, SettingIsQuiet DEF SaleInv, Drafted, DeedSold, CancelFree, PlotStatuses
  <2>2. CASE CancelCount(c)
    BY <2>2, ReadingIsQuiet DEF SaleInv, CancelCount
  <2>3. CASE FailSale(c)
    BY <1>1, <2>3 DEF FailSale, Quiet, register, SaleInv, SaleTypeOK
  <2> QED BY <2>1, <2>2, <2>3
<1>3. CASE EndCall(c)
  BY <1>2, <1>3, EndKeeps
<1>4. CASE Reached(c, "drafted") /\ GoOn(c, "checks.plot", held[c])
  <2>1. Sound("checks.plot", held[c]) /\ Standing("checks.plot", held[c])
    BY <1>1, <1>4 DEF Sound, Standing, Making, Relying, Reached
  <2> QED BY <1>1, <1>2, <1>4, <2>1, GoKeeps DEF SalePoints, Making
<1>5. CASE Reached(c, "cancel.count") /\ GoOn(c, "cancel.free", held[c])
  <2>1. Sound("cancel.free", held[c]) /\ Standing("cancel.free", held[c])
    BY <1>1, <1>5 DEF Sound, Standing, Making, Relying, Reached
  <2> QED BY <1>1, <1>2, <1>5, <2>1, GoKeeps DEF SalePoints, Making
<1> QED BY <1>3, <1>4, <1>5 DEF Drafted, DeedSold, CancelCount, CancelFree, FailSale

(* An import of sold plots touches no sale.                                *)
LEMMA ImportKeeps ==
  ASSUME SaleInv, NEW p \in Plots, ImportSold(p)
  PROVE  SaleInv'
<1>1. SaleTypeOK'
  BY DEF SaleInv, SaleTypeOK, ImportSold, PlotStatuses
<1>2. UNCHANGED <<sales, stage, held, interrupted>>
  BY DEF ImportSold
<1>3. OneClaim'
  BY <1>2 DEF SaleInv, OneClaim, ClaimedSale
<1>4. \A o \in Callers : Sound(stage[o], held[o])' /\ Standing(stage[o], held[o])'
  BY <1>2 DEF SaleInv, Sound, Standing
<1> QED BY <1>1, <1>3, <1>4 DEF SaleInv

-----------------------------------------------------------------------------
(* The steps that write to the sales.                                      *)

(* A sale that is written keeps its place and its plot.                    *)
LEMMA RowWritten ==
  ASSUME SaleTypeOK, NEW n \in 1..Len(sales), NEW row \in SaleRows,
         row.plot = sales[n].plot, sales' = [sales EXCEPT ![n] = row]
  PROVE  /\ sales' \in Seq(SaleRows) /\ Len(sales') = Len(sales)
         /\ sales'[n] = row /\ \A m \in 1..Len(sales) \ {n} : sales'[m] = sales[m]
         /\ \A m \in 1..Len(sales) : sales'[m].plot = sales[m].plot
<1>1. sales \in Seq(SaleRows)
  BY DEF SaleTypeOK
<1> QED BY <1>1

(* What a call that has a sale to write holds.                             *)
LEMMA SaleHeld ==
  ASSUME SaleInv, NEW c \in Callers,
         stage[c] \in {"deed.create", "deed.mark", "cancel.save"}
  PROVE  /\ held[c] \in Holdings /\ held[c].plot \in Plots /\ Len(sales) \in Nat
         /\ held[c].sale \in 1..Len(sales) /\ sales[held[c].sale].plot = held[c].plot
<1>1. /\ held[c] \in Holdings /\ held[c].plot \in Plots /\ Len(sales) \in Nat
      /\ held[c].sale \in 0..MaxSales /\ Sound(stage[c], held[c])
  BY HeldFields DEF SaleInv, SaleTypeOK
<1> QED BY <1>1 DEF Sound, Making

(* The deed of a sale that is claimed already; the sale may get the deed's *)
(* status.                                                                 *)
LEMMA DeedStepsKeep ==
  ASSUME SaleInv, NEW c \in Callers, DeedCreate(c) \/ DeedMark(c)
  PROVE  SaleInv'
<1> DEFINE n == held[c].sale
<1>1. /\ stage[c] \in Making
      /\ UNCHANGED <<plots, imported, old, uneven, interrupted, rushed>>
      /\ \E point \in {"deed.mark", "deed.sold"} : GoOn(c, point, held[c])
  BY DEF DeedCreate, DeedMark, Reached, SetSale, Making
<1>2. /\ held[c] \in Holdings /\ Len(sales) \in Nat /\ n \in 1..Len(sales)
      /\ sales[n].plot = held[c].plot
  BY <1>1, SaleHeld DEF Making
<1>3. /\ sales[n] \in SaleRows /\ sales[n].plot \in Plots
      /\ sales[n].status \in {"DRAFT", "DEED_CREATED", "CANCELLED"}
      /\ sales[n].deeds \in 0..2
  BY <1>2, Rows DEF SaleInv
<1>4. PICK row \in SaleRows :
        /\ sales' = [sales EXCEPT ![n] = row] /\ row.plot = sales[n].plot
        /\ row.status \in {sales[n].status, "DEED_CREATED"}
  <2>1. CASE DeedCreate(c)
    <3> DEFINE made == [sales[n] EXCEPT !.deeds = Once(@)]
    <3>1. made \in SaleRows /\ made.plot = sales[n].plot /\ made.status = sales[n].status
      BY <1>3 DEF SaleRows, Once
    <3> QED BY <2>1, <3>1 DEF DeedCreate, SetSale
  <2>2. CASE DeedMark(c)
    <3> DEFINE marked == [sales[n] EXCEPT !.status = "DEED_CREATED"]
    <3>1. marked \in SaleRows /\ marked.plot = sales[n].plot /\ marked.status = "DEED_CREATED"
      BY <1>3 DEF SaleRows
    <3> QED BY <2>2, <3>1 DEF DeedMark, SetSale
  <2> QED BY <2>1, <2>2
<1> HIDE DEF n
<1>5. /\ sales' \in Seq(SaleRows) /\ Len(sales') = Len(sales)
      /\ sales'[n] = row /\ \A m \in 1..Len(sales) \ {n} : sales'[m] = sales[m]
      /\ \A m \in 1..Len(sales) : sales'[m].plot = sales[m].plot
  BY <1>2, <1>4, RowWritten DEF SaleInv
<1>6. PICK point \in {"deed.mark", "deed.sold"} : GoOn(c, point, held[c])
  BY <1>1
<1>7. /\ stage' \in [Callers -> SalePoints] /\ held' \in [Callers -> Holdings]
      /\ stage'[c] = point /\ held'[c] = held[c]
      /\ \A o \in Callers \ {c} : stage'[o] = stage[o] /\ held'[o] = held[o]
  BY <1>2, <1>6, OneMoves DEF SaleInv, SalePoints
<1>8. SaleTypeOK'
  BY <1>1, <1>5, <1>7 DEF SaleInv, SaleTypeOK
<1>9. ASSUME NEW o \in Callers
      PROVE  Sound(stage[o], held[o])' /\ Standing(stage[o], held[o])'
  <2>1. Sound(stage[o], held[o]) /\ Standing(stage[o], held[o])
    BY DEF SaleInv
  <2>2. held'[o] = held[o] /\ held[o].sale \in 0..MaxSales
    BY <1>7, HeldFields DEF SaleInv
  <2>3. held[o].sale > 0 => held[o].sale \in 1..Len(sales)
    BY <2>1, <2>2, <1>2 DEF Sound
  <2>4. Sound(stage[o], held[o])'
    BY <2>1, <2>2, <2>3, <1>1, <1>2, <1>5, <1>7 DEF Sound, Making, n
  <2>5. Standing(stage[o], held[o])'
    <3>1. held[o].sale > 0 /\ sales[held[o].sale].status # "CANCELLED"
            => sales'[held[o].sale].status # "CANCELLED"
      BY <2>3, <1>4, <1>5
    <3>2. stage'[o] \in Relying => stage[o] \in Relying
      BY <1>1, <1>7 DEF Relying, Making
    <3> QED BY <2>1, <2>2, <3>1, <3>2, <1>1 DEF Standing
  <2> QED BY <2>4, <2>5
<1>10. ASSUME NEW m \in 1..Len(sales), ClaimedSale(m)' PROVE ClaimedSale(m)
  <2>1. ASSUME NEW o \in Callers, stage'[o] \in Making, held'[o].sale = m PROVE ClaimedSale(m)
    BY <2>1, <1>1, <1>7 DEF ClaimedSale
  <2>2. CASE sales'[m].status = "DEED_CREATED"
    BY <2>2, <1>1, <1>4, <1>5 DEF ClaimedSale, n
  <2> QED BY <1>10, <2>1, <2>2 DEF ClaimedSale
<1>11. OneClaim'
  BY <1>1, <1>5, <1>10 DEF SaleInv, OneClaim
<1> QED BY <1>8, <1>9, <1>11 DEF SaleInv

(* A new sale is a draft that nobody makes a deed of.                      *)
LEMMA CreateKeeps ==
  ASSUME MaxSales \in Nat, Plots # {}, SaleInv, NEW c \in Callers, CreateSale(c)
  PROVE  SaleInv'
<1> DEFINE row == [plot |-> held[c].plot, status |-> "DRAFT", deeds |-> 0]
<1> DEFINE l == [held[c] EXCEPT !.sale = Len(sales) + 1, !.number = 0]
<1>1. /\ held[c] \in Holdings /\ held[c].plot \in Plots /\ sales \in Seq(SaleRows)
      /\ Len(sales) \in Nat /\ Len(sales) < MaxSales
  BY HeldFields DEF SaleInv, SaleTypeOK, CreateSale
<1>2. CASE EndCall(c) /\ UNCHANGED sales
  <2>1. Quiet
    BY <1>2 DEF CreateSale, Quiet, SaleInv, SaleTypeOK
  <2> QED BY <1>2, <2>1, EndKeeps
<1>3. CASE sales' = Append(sales, row) /\ GoOn(c, "drafted", l)
  <2>1. row \in SaleRows /\ row.plot = held[c].plot /\ row.status = "DRAFT"
    <3>1. held[c].plot \in Plots /\ "DRAFT" \in {"DRAFT", "DEED_CREATED", "CANCELLED"}
          /\ 0 \in 0..2
      BY <1>1
    <3>2. row \in SaleRows
      BY <3>1, Zenon DEF SaleRows
    <3> QED BY <3>2
  <2>2. l \in Holdings /\ l.sale = Len(sales) + 1 /\ l.plot = held[c].plot
    <3>1. Len(sales) + 1 \in 0..MaxSales /\ 0 \in 0..(MaxSales + 1)
      BY <1>1
    <3> DEFINE k == [held[c] EXCEPT !.sale = Len(sales) + 1]
    <3>2. k \in Holdings /\ k.sale = Len(sales) + 1 /\ k.plot = held[c].plot
      BY <1>1, <3>1 DEF Holdings
    <3>3. l = [k EXCEPT !.number = 0]
      BY <1>1 DEF Holdings
    <3> HIDE DEF k, l
    <3> QED BY <3>1, <3>2, <3>3 DEF Holdings
  <2>3. UNCHANGED <<plots, imported, old, uneven, interrupted, rushed>>
    BY DEF CreateSale
  <2> HIDE DEF row, l
  <2>4. /\ sales' \in Seq(SaleRows) /\ Len(sales') = Len(sales) + 1
        /\ sales'[Len(sales) + 1] = row
        /\ \A m \in 1..Len(sales) : sales'[m] = sales[m]
    BY <1>1, <1>3, <2>1
  <2>5. /\ stage' \in [Callers -> SalePoints] /\ held' \in [Callers -> Holdings]
        /\ stage'[c] = "drafted" /\ held'[c] = l
        /\ \A o \in Callers \ {c} : stage'[o] = stage[o] /\ held'[o] = held[o]
    BY <1>3, <2>2, OneMoves DEF SaleInv, SalePoints
  <2>6. SaleTypeOK'
    BY <1>1, <2>3, <2>4, <2>5 DEF SaleInv, SaleTypeOK
  <2>7. ASSUME NEW o \in Callers
        PROVE  Sound(stage[o], held[o])' /\ Standing(stage[o], held[o])'
    <3>1. CASE o = c
      <4>1. Sound(stage[o], held[o])'
        BY <1>1, <2>1, <2>2, <2>4, <2>5, <3>1 DEF Sound
      <4>2. Standing(stage[o], held[o])'
        BY <1>1, <2>1, <2>2, <2>4, <2>5, <3>1 DEF Standing
      <4> QED BY <4>1, <4>2
    <3>2. CASE o # c
      <4>1. held[o].sale \in 0..MaxSales /\ Sound(stage[o], held[o]) /\ Standing(stage[o], held[o])
        BY HeldFields DEF SaleInv
      <4>2. stage'[o] = stage[o] /\ held'[o] = held[o]
        BY <2>5, <3>2
      <4>3. held[o].sale > 0 => held[o].sale \in 1..Len(sales)
        BY <1>1, <4>1 DEF Sound
      <4>4. Sound(stage[o], held[o])'
        BY <1>1, <2>4, <4>1, <4>2, <4>3 DEF Sound
      <4>5. Standing(stage[o], held[o])'
        BY <2>3, <2>4, <4>1, <4>2, <4>3 DEF Standing
      <4> QED BY <4>4, <4>5
    <3> QED BY <3>1, <3>2
  <2>8. ASSUME NEW m \in 1..Len(sales'), ClaimedSale(m)'
        PROVE  m \in 1..Len(sales) /\ ClaimedSale(m)
    <3>1. ASSUME NEW o \in Callers, stage'[o] \in Making, held'[o].sale = m
          PROVE  m \in 1..Len(sales) /\ ClaimedSale(m)
      <4>1. o # c /\ stage'[o] = stage[o] /\ held'[o] = held[o]
        BY <2>5, <3>1 DEF Making
      <4>2. Sound(stage[o], held[o])
        BY DEF SaleInv
      <4> QED BY <1>1, <2>4, <3>1, <4>1, <4>2 DEF Sound, ClaimedSale
    <3>2. CASE sales'[m].status = "DEED_CREATED"
      BY <1>1, <2>1, <2>4, <3>2 DEF ClaimedSale
    <3> QED BY <2>8, <3>1, <3>2 DEF ClaimedSale
  <2>9. OneClaim'
    BY <1>1, <2>3, <2>4, <2>8 DEF SaleInv, OneClaim
  <2> QED BY <2>6, <2>7, <2>9 DEF SaleInv
<1> QED BY <1>2, <1>3 DEF CreateSale

(* A cancelled sale: another call about the plot is not relied on any      *)
(* more, and if there is none nobody relies on the sale.                   *)
LEMMA CancelKeeps ==
  ASSUME SaleInv, NEW c \in Callers, CancelSave(c)
  PROVE  SaleInv'
<1> DEFINE n == held[c].sale
<1> DEFINE p == held[c].plot
<1> DEFINE row == [sales[n] EXCEPT !.status = "CANCELLED"]
<1>1. /\ stage[c] = "cancel.save" /\ GoOn(c, "cancel.count", held[c])
      /\ sales' = [sales EXCEPT ![n] = row]
      /\ interrupted' = IF UnderWay(p) # {c} THEN interrupted \union {p} ELSE interrupted
      /\ UNCHANGED <<plots, imported, old, uneven, rushed>>
  BY DEF CancelSave, Reached, SetSale
<1>2. /\ held[c] \in Holdings /\ p \in Plots /\ Len(sales) \in Nat
      /\ n \in 1..Len(sales) /\ sales[n].plot = p
  BY <1>1, SaleHeld
<1>3. row \in SaleRows /\ row.plot = sales[n].plot /\ row.status = "CANCELLED"
  BY <1>2, Rows DEF SaleInv, SaleRows
<1> HIDE DEF n, p, row
<1>4. /\ sales' \in Seq(SaleRows) /\ Len(sales') = Len(sales)
      /\ sales'[n] = row /\ \A m \in 1..Len(sales) \ {n} : sales'[m] = sales[m]
      /\ \A m \in 1..Len(sales) : sales'[m].plot = sales[m].plot
  BY <1>1, <1>2, <1>3, RowWritten DEF SaleInv
<1>5. /\ stage' \in [Callers -> SalePoints] /\ held' \in [Callers -> Holdings]
      /\ stage'[c] = "cancel.count" /\ held'[c] = held[c]
      /\ \A o \in Callers \ {c} : stage'[o] = stage[o] /\ held'[o] = held[o]
  BY <1>1, <1>2, OneMoves DEF SaleInv, SalePoints
<1>6. interrupted \subseteq interrupted' /\ interrupted' \subseteq Plots
  BY <1>1, <1>2 DEF SaleInv, SaleTypeOK
<1>7. SaleTypeOK'
  BY <1>1, <1>4, <1>5, <1>6 DEF SaleInv, SaleTypeOK
<1>8. ASSUME NEW o \in Callers
      PROVE  Sound(stage[o], held[o])' /\ Standing(stage[o], held[o])'
  <2>1. /\ Sound(stage[o], held[o]) /\ Standing(stage[o], held[o])
        /\ held'[o] = held[o] /\ held[o].sale \in 0..MaxSales
    BY <1>5, HeldFields DEF SaleInv
  <2>2. held[o].sale > 0 => held[o].sale \in 1..Len(sales)
    BY <1>2, <2>1 DEF Sound
  <2>3. Sound(stage[o], held[o])'
    BY <1>2, <1>4, <1>5, <2>1, <2>2 DEF Sound, Making, n
  <2>4. Standing(stage[o], held[o])'
    <3> SUFFICES ASSUME stage'[o] \in Relying, held[o].sale > 0, held[o].plot \notin interrupted'
                 PROVE  sales'[held[o].sale].status # "CANCELLED"
      BY <2>1 DEF Standing
    <3>1. o # c /\ stage[o] \in Relying
      BY <1>5 DEF Relying, Making
    <3>2. sales[held[o].sale].status # "CANCELLED" /\ sales[held[o].sale].plot = held[o].plot
      BY <1>6, <2>1, <3>1 DEF Standing, Sound
    <3>3. held[o].sale # n
      <4>1. SUFFICES ASSUME held[o].sale = n PROVE FALSE
        OBVIOUS
      <4>2. o \in UnderWay(p)
        BY <1>2, <3>1, <3>2, <4>1 DEF UnderWay, Relying, Making
      <4> QED BY <1>1, <3>1, <4>1, <4>2, <3>2, <1>2
    <3> QED BY <1>4, <2>2, <3>2, <3>3
  <2> QED BY <2>3, <2>4
<1>9. ASSUME NEW m \in 1..Len(sales), ClaimedSale(m)' PROVE ClaimedSale(m)
  <2>1. ASSUME NEW o \in Callers, stage'[o] \in Making, held'[o].sale = m PROVE ClaimedSale(m)
    BY <1>5, <2>1 DEF ClaimedSale, Making
  <2>2. CASE sales'[m].status = "DEED_CREATED"
    BY <1>3, <1>4, <2>2 DEF ClaimedSale
  <2> QED BY <1>9, <2>1, <2>2 DEF ClaimedSale
<1>10. OneClaim'
  BY <1>4, <1>6, <1>9 DEF SaleInv, OneClaim
<1> QED BY <1>7, <1>8, <1>10 DEF SaleInv

-----------------------------------------------------------------------------
(* No sale is claimed at first.                                            *)
LEMMA SalesStart == ASSUME MaxSales \in Nat, Plots # {} PROVE SaleInit => SaleInv
<1> SUFFICES ASSUME SaleInit PROVE SaleInv
  OBVIOUS
<1>1. /\ stage \in [Callers -> SalePoints] /\ held \in [Callers -> Holdings]
      /\ plots \in [Plots -> PlotStatuses]
  BY NothingHeldFits DEF SaleInit, SalePoints, PlotStatuses
<1>2. sales \in Seq(SaleRows) /\ Len(sales) = 0
  BY DEF SaleInit
<1>3. SaleTypeOK
  BY <1>1, <1>2 DEF SaleInit, SaleTypeOK
<1>4. OneClaim
  BY <1>2 DEF OneClaim
<1>5. ASSUME NEW c \in Callers PROVE Sound(stage[c], held[c]) /\ Standing(stage[c], held[c])
  BY <1>2 DEF SaleInit, Sound, Standing, NoHolding, Making, Relying
<1> QED BY <1>3, <1>4, <1>5 DEF SaleInv

(* Every step keeps the invariant.                                         *)
LEMMA SalesKept ==
  ASSUME MaxSales \in Nat, Plots # {}
  PROVE  SaleInv /\ [SaleNext]_saleVars => SaleInv'
<1> SUFFICES ASSUME SaleInv, [SaleNext]_saleVars PROVE SaleInv'
  OBVIOUS
<1>1. CASE UNCHANGED saleVars
  BY <1>1 DEF saleVars, SaleInv, SaleTypeOK, OneClaim, ClaimedSale, Sound, Standing
<1>2. ASSUME NEW p \in Plots, ImportSold(p) PROVE SaleInv'
  BY <1>2, ImportKeeps
<1>3. ASSUME NEW c \in Callers,
             (\E kind \in SaleKinds, p \in Plots, n \in 0..MaxSales : BeginSale(c, kind, p, n))
               \/ FailSale(c) \/ TextPlot(c) \/ PaperPlot(c) \/ PaperExisting(c) \/ ReadSale(c)
               \/ ChecksPlot(c) \/ ChecksOther(c) \/ NextNumber(c) \/ CreateSale(c) \/ Drafted(c)
               \/ DeedCreate(c) \/ DeedMark(c) \/ DeedSold(c)
               \/ CancelSave(c) \/ CancelCount(c) \/ CancelFree(c)
      PROVE  SaleInv'
  BY <1>3, BeginKeeps, ReadsKeep, ChecksKeep, PlotStepsKeep, CreateKeeps, DeedStepsKeep,
    CancelKeeps
<1> QED BY <1>1, <1>2, <1>3 DEF SaleNext

-----------------------------------------------------------------------------
(* An old plot keeps its status and has no sale; a call about it is on its *)
(* way to a check that it does not pass.                                   *)
TurnedAway(point, l) ==
  \/ point \in {"idle", "text.plot", "paper.plot", "checks.plot"}
  \/ point \in {"paper.existing", "checks.other"} /\ l.sold

OldInv ==
  /\ \A p \in old : plots[p] = "SOLD" /\ \A n \in 1..Len(sales) : sales[n].plot # p
  /\ \A c \in Callers : held[c].plot \in old => TurnedAway(stage[c], held[c])

(* A call that goes on writes nothing of an old plot and is turned away.   *)
LEMMA OldGoOn ==
  ASSUME SaleTypeOK, OldInv, NEW c \in Callers, NEW point, NEW l, GoOn(c, point, l),
         UNCHANGED <<sales, old>>,
         \A p \in Plots : p = held[c].plot \/ plots'[p] = plots[p],
         held[c].plot \in old => plots' = plots,
         l.plot \in old => TurnedAway(point, l)
  PROVE  OldInv'
BY OneMoves DEF SaleTypeOK, OldInv

(* An import of a plot: nothing is under way and no sale names it.         *)
LEMMA OldImport == ASSUME SaleTypeOK, OldInv, NEW p \in Plots, ImportSold(p) PROVE OldInv'
<1>1. ASSUME p \in old' \ old, NEW c \in Callers, held[c].plot = p PROVE stage[c] = "idle"
  BY <1>1 DEF ImportSold, UnderWay
<1>2. ASSUME p \in old' \ old, NEW n \in 1..Len(sales) PROVE sales[n].plot # p
  BY <1>2 DEF ImportSold
<1>3. plots'[p] = "SOLD" /\ \A o \in Plots \ {p} : plots'[o] = plots[o]
  BY DEF ImportSold, SaleTypeOK
<1>4. old' = old \/ old' = old \union {p}
  BY DEF ImportSold
<1>5. UNCHANGED <<sales, stage, held>>
  BY DEF ImportSold
<1>6. \A o \in old' :
        plots'[o] = "SOLD" /\ \A n \in 1..Len(sales) : sales[n].plot # o
  BY <1>2, <1>3, <1>4 DEF OldInv, SaleTypeOK
<1>7. \A c \in Callers : held[c].plot \in old' => TurnedAway(stage[c], held[c])
  BY <1>1, <1>4 DEF OldInv, TurnedAway
<1> QED BY <1>5, <1>6, <1>7 DEF OldInv, TurnedAway

(* A call that starts or ends.                                             *)
LEMMA OldBegin ==
  ASSUME SaleTypeOK, OldInv, NEW c \in Callers, NEW kind \in SaleKinds, NEW p \in Plots,
         NEW n \in 0..MaxSales, BeginSale(c, kind, p, n)
  PROVE  OldInv'
<1> DEFINE l == [NoHolding EXCEPT !.kind = kind, !.plot = p, !.sale = n]
<1>1. GoOn(c, FirstPoint(kind), l) /\ UNCHANGED <<plots, sales, old>>
  BY DEF BeginSale, register
<1>2. l.plot = p
  BY DEF NoHolding
<1>3. ASSUME p \in old PROVE TurnedAway(FirstPoint(kind), l)
  <2>1. kind \in {"enter", "text", "paper"}
    BY <1>3 DEF BeginSale, OldInv
  <2> QED BY <2>1 DEF FirstPoint, TurnedAway
<1> HIDE DEF l
<1> QED BY <1>1, <1>2, <1>3, OldGoOn

(* A step that ends its call and writes nothing of an old plot.            *)
LEMMA OldEnd ==
  ASSUME SaleTypeOK, OldInv, NEW c \in Callers, EndCall(c), UNCHANGED <<sales, old>>,
         \A p \in Plots : p = held[c].plot \/ plots'[p] = plots[p],
         held[c].plot \in old => plots' = plots
  PROVE  OldInv'
<1>1. TurnedAway("idle", NoHolding)
  BY DEF TurnedAway
<1> QED BY <1>1, OldGoOn DEF EndCall

(* Every other step of a call: of an old plot it is one that reads it and  *)
(* finds it sold.                                                          *)
LEMMA OldCall ==
  ASSUME MaxSales \in Nat, SaleTypeOK, OldInv, NEW c \in Callers,
         \A o \in Callers : Sound(stage[o], held[o]),
         FailSale(c) \/ TextPlot(c) \/ PaperPlot(c) \/ PaperExisting(c) \/ ReadSale(c)
           \/ ChecksPlot(c) \/ ChecksOther(c) \/ NextNumber(c) \/ CreateSale(c) \/ Drafted(c)
           \/ DeedCreate(c) \/ DeedMark(c) \/ DeedSold(c)
           \/ CancelSave(c) \/ CancelCount(c) \/ CancelFree(c)
  PROVE  OldInv'
<1> DEFINE p == held[c].plot
<1>1. /\ p \in Plots /\ held[c] \in Holdings
      /\ p \in old => plots[p] = "SOLD" /\ TurnedAway(stage[c], held[c])
  BY HeldFields DEF OldInv
<1>2. CASE FailSale(c)
  BY <1>2, OldEnd DEF FailSale, register
<1>3. CASE TextPlot(c)
  <2>1. CASE plots[p] = "AVAILABLE"
    BY <1>1, <1>3, <2>1, OldGoOn DEF TextPlot, Reading, register
  <2>2. CASE plots[p] # "AVAILABLE"
    BY <1>3, <2>2, OldEnd DEF TextPlot, Reading, register
  <2> QED BY <2>1, <2>2
<1>4. CASE PaperPlot(c)
  <2> DEFINE l == [held[c] EXCEPT !.sold = plots[p] = "SOLD"]
  <2>1. GoOn(c, "paper.existing", l) /\ UNCHANGED <<plots, sales, old>>
    BY <1>4 DEF PaperPlot, Reading, register
  <2>2. l.plot = p /\ (p \in old => l.sold)
    BY <1>1 DEF Holdings
  <2> HIDE DEF l
  <2>3. l.plot \in old => TurnedAway("paper.existing", l)
    BY <2>2 DEF TurnedAway
  <2> QED BY <2>1, <2>3, OldGoOn
<1>5. CASE ChecksPlot(c)
  <2> DEFINE l == [held[c] EXCEPT !.sold = plots[p] = "SOLD"]
  <2>1. GoOn(c, "checks.other", l) /\ UNCHANGED <<plots, sales, old>>
    BY <1>5 DEF ChecksPlot, Reading, register
  <2>2. l.plot = p /\ (p \in old => l.sold)
    BY <1>1 DEF Holdings
  <2> HIDE DEF l
  <2>3. l.plot \in old => TurnedAway("checks.other", l)
    BY <2>2 DEF TurnedAway
  <2> QED BY <2>1, <2>3, OldGoOn
<1>6. CASE PaperExisting(c)
  <2>1. UNCHANGED <<plots, sales, old>> /\ stage[c] = "paper.existing"
    BY <1>6 DEF PaperExisting, Reading, register, Reached
  <2>2. CASE EndCall(c)
    BY <2>1, <2>2, OldEnd
  <2>3. CASE p \notin old
    <3> SUFFICES ASSUME NEW point, NEW l, GoOn(c, point, l), l.plot = p PROVE OldInv'
      BY <1>1, <1>6, <2>2 DEF PaperExisting, Holdings
    <3> QED BY <2>1, <2>3, OldGoOn
  <2>4. CASE p \in old
    <3>1. held[c].sold /\ SalesOf(p) = {}
      BY <1>1, <2>1, <2>4 DEF TurnedAway, SalesOf, OldInv
    <3> QED BY <1>6, <2>2, <3>1 DEF PaperExisting, BlockedByOldSale
  <2> QED BY <2>3, <2>4
<1>7. CASE ChecksOther(c)
  <2>1. UNCHANGED <<plots, sales, old>> /\ stage[c] = "checks.other"
    BY <1>7 DEF ChecksOther, Reading, register, Reached
  <2>2. CASE EndCall(c)
    BY <2>1, <2>2, OldEnd
  <2>3. CASE p \notin old
    <3> SUFFICES ASSUME NEW point, NEW l, GoOn(c, point, l), l.plot = p PROVE OldInv'
      BY <1>1, <1>7, <2>2 DEF ChecksOther, Holdings
    <3> QED BY <2>1, <2>3, OldGoOn
  <2>4. CASE p \in old
    <3>1. held[c].sold
      BY <1>1, <2>1, <2>4 DEF TurnedAway
    <3> QED BY <1>7, <2>2, <3>1 DEF ChecksOther, DoubleSale
  <2> QED BY <2>3, <2>4
<1>8. ASSUME ReadSale(c) \/ NextNumber(c) \/ CreateSale(c) \/ Drafted(c) \/ DeedCreate(c)
               \/ DeedMark(c) \/ DeedSold(c) \/ CancelSave(c) \/ CancelCount(c) \/ CancelFree(c)
      PROVE  p \notin old
  BY <1>1, <1>8 DEF ReadSale, NextNumber, CreateSale, Drafted, DeedCreate, DeedMark, DeedSold,
    CancelSave, CancelCount, CancelFree, Reached, TurnedAway
<1>9. CASE Drafted(c) \/ DeedSold(c) \/ CancelFree(c)
  <2>1. UNCHANGED <<sales, old>> /\ \A o \in Plots : o = p \/ plots'[o] = plots[o]
    BY <1>9 DEF Drafted, DeedSold, CancelFree, SetPlot, SaleTypeOK
  <2>2. EndCall(c) \/ GoOn(c, "checks.plot", held[c])
    BY <1>9 DEF Drafted, DeedSold, CancelFree
  <2> QED BY <1>8, <1>9, <2>1, <2>2, OldEnd, OldGoOn
<1>10. CASE ReadSale(c) \/ NextNumber(c) \/ CancelCount(c)
  <2>1. UNCHANGED <<plots, sales, old>>
    BY <1>10 DEF ReadSale, NextNumber, CancelCount, Reading, register
  <2>2. EndCall(c) \/ \E point \in SalePoints, l \in Holdings : GoOn(c, point, l) /\ l.plot = p
    <3>1. CASE ReadSale(c)
      BY <1>1, <3>1 DEF ReadSale, SalePoints
    <3>2. CASE CancelCount(c)
      BY <1>1, <3>2 DEF CancelCount, SalePoints
    <3>3. CASE NextNumber(c)
      <4>1. [held[c] EXCEPT !.number = Len(sales) + 1] \in Holdings
        BY <1>1 DEF SaleTypeOK, Holdings
      <4>2. [held[c] EXCEPT !.number = Len(sales) + 1].plot = p
        BY <1>1 DEF Holdings
      <4> QED BY <3>3, <4>1, <4>2 DEF NextNumber, SalePoints
    <3> QED BY <1>10, <3>1, <3>2, <3>3
  <2>3. CASE EndCall(c)
    BY <2>1, <2>3, OldEnd
  <2>4. ASSUME NEW point \in SalePoints, NEW l \in Holdings, GoOn(c, point, l), l.plot = p
        PROVE  OldInv'
    BY <1>8, <1>10, <2>1, <2>4, OldGoOn
  <2> QED BY <2>2, <2>3, <2>4
<1>11. ASSUME NEW point \in SalePoints, GoOn(c, point, held[c]) \/ EndCall(c)
                \/ GoOn(c, point, [held[c] EXCEPT !.sale = Len(sales) + 1, !.number = 0]),
              UNCHANGED <<plots, old>>, p \notin old,
              \A n \in 1..Len(sales') :
                \/ n \in 1..Len(sales) /\ sales'[n].plot = sales[n].plot
                \/ sales'[n].plot = p
       PROVE  OldInv'
  <2>1. stage'[c] = "idle" \/ held'[c].plot = p
    <3>1. CASE EndCall(c)
      BY <3>1, OneMoves DEF EndCall
    <3>2. CASE GoOn(c, point, held[c])
      BY <3>2, OneMoves
    <3>3. CASE GoOn(c, point, [held[c] EXCEPT !.sale = Len(sales) + 1, !.number = 0])
      <4>1. [held[c] EXCEPT !.sale = Len(sales) + 1, !.number = 0].plot = p
        BY <1>1 DEF Holdings
      <4> QED BY <3>3, <4>1, OneMoves
    <3> QED BY <1>11, <3>1, <3>2, <3>3
  <2>2. \A o \in Callers \ {c} : stage'[o] = stage[o] /\ held'[o] = held[o]
    BY <1>11, OneMoves DEF EndCall
  <2>3. \A o \in Callers : held'[o].plot \in old => TurnedAway(stage'[o], held'[o])
    BY <1>11, <2>1, <2>2 DEF OldInv, TurnedAway
  <2>4. \A o \in old : plots[o] = "SOLD" /\ \A n \in 1..Len(sales') : sales'[n].plot # o
    BY <1>11 DEF OldInv
  <2> QED BY <1>11, <2>3, <2>4 DEF OldInv, TurnedAway
<1>12. CASE DeedCreate(c) \/ DeedMark(c) \/ CancelSave(c)
  <2> DEFINE n == held[c].sale
  <2>1. n \in 1..Len(sales)
    <3>1. stage[c] \in {"deed.create", "deed.mark", "cancel.save"}
      BY <1>12 DEF DeedCreate, DeedMark, CancelSave, Reached
    <3>2. n > 0 /\ n <= Len(sales)
      BY <3>1 DEF Sound, Making
    <3> QED BY <3>2, HeldFields DEF SaleTypeOK
  <2>2. sales[n] \in SaleRows
    BY <2>1, Rows
  <2>3. PICK row : /\ sales' = [sales EXCEPT ![n] = row] /\ row.plot = sales[n].plot
                   /\ UNCHANGED <<plots, old>>
    BY <1>12, <2>2 DEF DeedCreate, DeedMark, CancelSave, SetSale, SaleRows
  <2>4. Len(sales') = Len(sales)
        /\ \A m \in 1..Len(sales) : sales'[m].plot = sales[m].plot
    BY <2>1, <2>3 DEF SaleTypeOK
  <2>5. \E point \in SalePoints : GoOn(c, point, held[c])
    BY <1>12 DEF DeedCreate, DeedMark, CancelSave, SalePoints
  <2> QED BY <1>8, <1>11, <1>12, <2>3, <2>4, <2>5
<1>13. CASE CreateSale(c)
  <2>1. UNCHANGED <<plots, old>>
    BY <1>13 DEF CreateSale
  <2>2. CASE EndCall(c) /\ UNCHANGED sales
    BY <2>1, <2>2, OldEnd
  <2>3. CASE ~(EndCall(c) /\ UNCHANGED sales)
    <3>1. /\ sales' = Append(sales, [plot |-> p, status |-> "DRAFT", deeds |-> 0])
          /\ GoOn(c, "drafted", [held[c] EXCEPT !.sale = Len(sales) + 1, !.number = 0])
      BY <1>13, <2>3 DEF CreateSale
    <3>2. sales \in Seq(SaleRows) /\ [plot |-> p, status |-> "DRAFT", deeds |-> 0] \in SaleRows
      BY <1>1 DEF SaleTypeOK, SaleRows
    <3>3. \A n \in 1..Len(sales') :
            \/ n \in 1..Len(sales) /\ sales'[n].plot = sales[n].plot
            \/ sales'[n].plot = p
      BY <3>1, <3>2
    <3>4. "drafted" \in SalePoints
      BY DEF SalePoints
    <3>5. p \notin old
      BY <1>8, <1>13
    <3> HIDE DEF p
    <3> QED BY <1>11, <2>1, <3>1, <3>3, <3>4, <3>5
  <2> QED BY <2>2, <2>3
<1> QED BY <1>2, <1>3, <1>4, <1>5, <1>6, <1>7, <1>9, <1>10, <1>12, <1>13

(* Both invariants are kept by every step.                                 *)
LEMMA OldKept ==
  ASSUME MaxSales \in Nat, Plots # {}
  PROVE  SaleInv /\ OldInv /\ [SaleNext]_saleVars => OldInv'
<1> SUFFICES ASSUME SaleInv, OldInv, [SaleNext]_saleVars PROVE OldInv'
  OBVIOUS
<1>1. SaleTypeOK /\ \A o \in Callers : Sound(stage[o], held[o])
  BY DEF SaleInv
<1>2. CASE UNCHANGED saleVars
  BY <1>2 DEF saleVars, OldInv, TurnedAway
<1>3. ASSUME NEW p \in Plots, ImportSold(p) PROVE OldInv'
  BY <1>1, <1>3, OldImport
<1>4. ASSUME NEW c \in Callers, NEW kind \in SaleKinds, NEW p \in Plots,
             NEW n \in 0..MaxSales, BeginSale(c, kind, p, n)
      PROVE  OldInv'
  BY <1>1, <1>4, OldBegin
<1> QED BY <1>1, <1>2, <1>3, <1>4, OldCall DEF SaleNext

-----------------------------------------------------------------------------
(* One deed per sale.                                                      *)

(* Only a call that may make a deed gets past the checks with a sale.      *)
FitKind(point, l) ==
  /\ point \in Making => l.kind \in DeedKinds
  /\ point \in {"checks.plot", "checks.other"} => l.kind \in DeedKinds \union {"enter"}

(* A call that will make the deed of its sale found none made.             *)
Undone(point, l) ==
  point \in {"drafted", "checks.plot", "checks.other", "deed.create"}
      /\ l.kind \in DeedKinds /\ l.sale > 0 /\ l.plot \notin rushed
    => sales[l.sale].deeds = 0

(* A sale with a deed is no draft, or about to be none.                    *)
AtMark(n) == \E c \in Callers : stage[c] = "deed.mark" /\ held[c].sale = n
Single(n) ==
  sales[n].plot \notin rushed =>
    sales[n].deeds = 0 \/ (sales[n].deeds = 1 /\ (sales[n].status # "DRAFT" \/ AtMark(n)))

DeedInv ==
  /\ \A c \in Callers : FitKind(stage[c], held[c]) /\ Undone(stage[c], held[c])
  /\ \A p \in Plots \ rushed : \A c, d \in ForDeed(p) : c = d
  /\ \A n \in 1..Len(sales) : Single(n)

(* A draft has no deed, as long as one call at a time may make it.         *)
LEMMA DraftUndone ==
  ASSUME SaleInv, DeedInv, NEW c \in Callers, stage[c] \notin {"idle", "deed.mark"},
         held[c].kind \in DeedKinds, held[c].plot \notin rushed, NEW n \in 1..Len(sales),
         sales[n].plot = held[c].plot, sales[n].status = "DRAFT"
  PROVE  sales[n].deeds = 0
<1> SUFFICES ASSUME NEW d \in Callers, stage[d] = "deed.mark", held[d].sale = n PROVE FALSE
  BY DEF DeedInv, Single, AtMark
<1>1. held[d].plot = held[c].plot /\ held[d].kind \in DeedKinds /\ n > 0
  BY DEF SaleInv, Sound, DeedInv, FitKind, Making
<1>2. held[c].plot \in Plots
  BY HeldFields DEF SaleInv
<1>3. c \in ForDeed(held[c].plot) /\ d \in ForDeed(held[c].plot)
  BY <1>1 DEF ForDeed, UnderWay
<1> QED BY <1>2, <1>3 DEF DeedInv

(* A call goes on about its plot or ends, and no sale is written.          *)
LEMMA DeedMove ==
  ASSUME SaleInv, DeedInv, NEW c \in Callers, NEW point, NEW l, GoOn(c, point, l),
         sales' = sales, rushed \subseteq rushed', FitKind(point, l), Undone(point, l),
         point = "idle" \/ (stage[c] # "idle" /\ l.plot = held[c].plot /\ l.kind = held[c].kind),
         stage[c] = "deed.mark" => held[c].plot \in rushed'
  PROVE  DeedInv'
<1>1. /\ stage'[c] = point /\ held'[c] = l
      /\ \A o \in Callers \ {c} : stage'[o] = stage[o] /\ held'[o] = held[o]
  BY OneMoves DEF SaleInv
<1>2. ASSUME NEW o \in Callers PROVE FitKind(stage[o], held[o])' /\ Undone(stage[o], held[o])'
  BY <1>1 DEF DeedInv, FitKind, Undone
<1>3. \A p \in Plots : ForDeed(p)' \subseteq ForDeed(p)
  BY <1>1 DEF ForDeed, UnderWay
<1>4. ASSUME NEW n \in 1..Len(sales), sales[n].plot \notin rushed', AtMark(n) PROVE AtMark(n)'
  <2>1. PICK d \in Callers : stage[d] = "deed.mark" /\ held[d].sale = n
    BY <1>4 DEF AtMark
  <2>2. held[d].plot = sales[n].plot
    BY <2>1 DEF SaleInv, Sound
  <2> QED BY <1>1, <1>4, <2>1, <2>2 DEF AtMark
<1>5. ASSUME NEW n \in 1..Len(sales) PROVE Single(n)'
  BY <1>4 DEF DeedInv, Single
<1> QED BY <1>2, <1>3, <1>5 DEF DeedInv

LEMMA DeedEnds ==
  ASSUME SaleInv, DeedInv, NEW c \in Callers, EndCall(c), sales' = sales,
         rushed \subseteq rushed', stage[c] = "deed.mark" => held[c].plot \in rushed'
  PROVE  DeedInv'
<1>1. FitKind("idle", NoHolding) /\ Undone("idle", NoHolding)
  BY DEF FitKind, Undone, Making
<1> QED BY <1>1, DeedMove DEF EndCall

(* A call that begins is the only one that may make a deed, or the plot is *)
(* rushed.                                                                 *)
LEMMA DeedBegins ==
  ASSUME SaleInv, DeedInv, NEW c \in Callers, NEW kind \in SaleKinds, NEW p \in Plots,
         NEW n \in 0..MaxSales, BeginSale(c, kind, p, n)
  PROVE  DeedInv'
<1> DEFINE l == [NoHolding EXCEPT !.kind = kind, !.plot = p, !.sale = n]
<1>1. l.kind = kind /\ l.plot = p
  BY DEF NoHolding
<1>2. GoOn(c, FirstPoint(kind), l) /\ stage[c] = "idle" /\ sales' = sales
  BY DEF BeginSale, register, Reached
<1>3. /\ rushed \subseteq rushed'
      /\ kind \in DeedKinds /\ ForDeed(p) # {} => p \in rushed'
  BY DEF BeginSale
<1>4. /\ FirstPoint(kind) \in {"checks.plot", "text.plot", "paper.plot", "sale.read"}
      /\ FirstPoint(kind) = "checks.plot" => kind = "enter"
  BY DEF FirstPoint, SaleKinds
<1> HIDE DEF l
<1>5. /\ stage'[c] = FirstPoint(kind) /\ held'[c] = l
      /\ \A o \in Callers \ {c} : stage'[o] = stage[o] /\ held'[o] = held[o]
  BY <1>2, OneMoves DEF SaleInv
<1>6. ASSUME NEW o \in Callers PROVE FitKind(stage[o], held[o])' /\ Undone(stage[o], held[o])'
  <2>1. CASE o = c
    BY <1>1, <1>4, <1>5, <2>1 DEF FitKind, Undone, Making, DeedKinds
  <2>2. CASE o # c
    BY <1>2, <1>3, <1>5, <2>2 DEF DeedInv, FitKind, Undone
  <2> QED BY <2>1, <2>2
<1>7. ASSUME NEW q \in Plots \ rushed' PROVE \A o, d \in ForDeed(q)' : o = d
  <2>1. CASE kind \in DeedKinds /\ q = p
    <3>1. ForDeed(p) = {}
      BY <1>3, <1>7, <2>1
    <3>2. ForDeed(p)' \subseteq {c}
      BY <1>5, <3>1 DEF ForDeed, UnderWay
    <3> QED BY <2>1, <3>2
  <2>2. CASE ~(kind \in DeedKinds /\ q = p)
    <3>1. ForDeed(q)' \subseteq ForDeed(q)
      BY <1>1, <1>5, <2>2 DEF ForDeed, UnderWay
    <3> QED BY <1>3, <1>7, <3>1 DEF DeedInv
  <2> QED BY <2>1, <2>2
<1>8. \A m \in 1..Len(sales) : AtMark(m) => AtMark(m)'
  BY <1>2, <1>5 DEF AtMark
<1>9. ASSUME NEW m \in 1..Len(sales) PROVE Single(m)'
  BY <1>2, <1>3, <1>8 DEF DeedInv, Single
<1> QED BY <1>2, <1>6, <1>7, <1>9 DEF DeedInv

(* The calls that write no sale.                                           *)
LEMMA DeedReads ==
  ASSUME SaleInv, DeedInv, NEW c \in Callers,
         FailSale(c) \/ TextPlot(c) \/ PaperPlot(c) \/ PaperExisting(c) \/ ReadSale(c)
           \/ ChecksPlot(c) \/ ChecksOther(c) \/ NextNumber(c) \/ Drafted(c) \/ DeedSold(c)
           \/ CancelCount(c) \/ CancelFree(c)
  PROVE  DeedInv'
<1>1. /\ held[c] \in Holdings /\ held[c].plot \in Plots /\ held[c].sale \in 0..MaxSales
      /\ FitKind(stage[c], held[c]) /\ Undone(stage[c], held[c])
      /\ Sound(stage[c], held[c]) /\ Len(sales) \in Nat
  BY HeldFields DEF SaleInv, SaleTypeOK, DeedInv
<1>2. CASE FailSale(c)
  BY <1>2, DeedEnds DEF FailSale, register, Reached
<1>3. CASE ~FailSale(c)
  <2>1. sales' = sales /\ rushed' = rushed /\ stage[c] \notin {"idle", "deed.mark"}
    BY <1>3 DEF TextPlot, PaperPlot, PaperExisting, ReadSale, ChecksPlot, ChecksOther,
      NextNumber, Drafted, DeedSold, CancelCount, CancelFree, Reading, register, Reached, SetPlot
  <2>2. CASE EndCall(c)
    BY <2>1, <2>2, DeedEnds
  <2>3. ASSUME NEW point, NEW l, GoOn(c, point, l), l.plot = held[c].plot,
               l.kind = held[c].kind, FitKind(point, l), Undone(point, l)
        PROVE  DeedInv'
    BY <2>1, <2>3, DeedMove
  <2>4. ASSUME NEW point \in {"number", "create", "paper.existing", "cancel.save", "cancel.free"},
               NEW l, GoOn(c, point, l), l.plot = held[c].plot, l.kind = held[c].kind
        PROVE  DeedInv'
    <3>1. FitKind(point, l) /\ Undone(point, l)
      BY DEF FitKind, Undone, Making
    <3> QED BY <2>3, <2>4, <3>1
  <2>5. CASE TextPlot(c)
    BY <2>2, <2>4, <2>5 DEF TextPlot
  <2>6. CASE PaperPlot(c)
    <3> DEFINE l == [held[c] EXCEPT !.sold = plots[held[c].plot] = "SOLD"]
    <3>1. l.plot = held[c].plot /\ l.kind = held[c].kind
      BY <1>1 DEF Holdings
    <3>2. GoOn(c, "paper.existing", l)
      BY <2>6 DEF PaperPlot
    <3> HIDE DEF l
    <3> QED BY <2>4, <3>1, <3>2
  <2>7. CASE PaperExisting(c)
    <3> DEFINE l == [held[c] EXCEPT !.sold = FALSE]
    <3>1. l \in Holdings /\ l.plot = held[c].plot /\ l.kind = held[c].kind
      BY <1>1 DEF Holdings
    <3>2. \/ EndCall(c) \/ GoOn(c, "number", l)
          \/ \E last \in SalesOf(held[c].plot) :
               /\ sales[last].status # "DEED_CREATED"
               /\ GoOn(c, "drafted", [l EXCEPT !.sale = last])
      BY <2>7 DEF PaperExisting
    <3> HIDE DEF l
    <3>3. ASSUME NEW last \in SalesOf(held[c].plot), sales[last].status # "DEED_CREATED",
                 GoOn(c, "drafted", [l EXCEPT !.sale = last])
          PROVE  DeedInv'
      <4> DEFINE k == [l EXCEPT !.sale = last]
      <4>1. k.plot = held[c].plot /\ k.kind = held[c].kind /\ k.sale = last
        BY <3>1 DEF Holdings
      <4>2. GoOn(c, "drafted", k)
        BY <3>3
      <4> HIDE DEF k
      <4>3. /\ last \in 1..Len(sales) /\ sales[last].plot = held[c].plot
            /\ sales[last].status = "DRAFT"
        BY <3>3, Rows DEF SalesOf, SaleInv
      <4>4. FitKind("drafted", k) /\ Undone("drafted", k)
        BY <2>1, <4>1, <4>3, DraftUndone DEF FitKind, Undone, Making
      <4> QED BY <2>3, <4>1, <4>2, <4>4
    <3> QED BY <2>2, <2>4, <3>1, <3>2, <3>3
  <2>8. CASE ReadSale(c)
    <3>1. CASE sales[held[c].sale].status = "DRAFT" /\ held[c].kind = "deed"
                 /\ GoOn(c, "checks.plot", held[c])
      <4>1. held[c].sale \in 1..Len(sales) /\ sales[held[c].sale].plot = held[c].plot
        BY <1>1, <2>8 DEF ReadSale, Reached, Sound
      <4>2. FitKind("checks.plot", held[c]) /\ Undone("checks.plot", held[c])
        BY <2>1, <3>1, <4>1, DraftUndone DEF FitKind, Undone, Making, DeedKinds
      <4> QED BY <2>3, <3>1, <4>2
    <3> QED BY <2>2, <2>4, <2>8, <3>1 DEF ReadSale
  <2>9. CASE ChecksPlot(c)
    <3> DEFINE l == [held[c] EXCEPT !.sold = plots[held[c].plot] = "SOLD"]
    <3>1. l.plot = held[c].plot /\ l.kind = held[c].kind /\ l.sale = held[c].sale
      BY <1>1 DEF Holdings
    <3>2. GoOn(c, "checks.other", l) /\ stage[c] = "checks.plot"
      BY <2>9 DEF ChecksPlot, Reached
    <3> HIDE DEF l
    <3>3. FitKind("checks.other", l) /\ Undone("checks.other", l)
      BY <1>1, <3>1, <3>2 DEF FitKind, Undone, Making
    <3> QED BY <2>3, <3>1, <3>2, <3>3
  <2>10. CASE ChecksOther(c)
    <3> DEFINE l == [held[c] EXCEPT !.sold = FALSE]
    <3>1. l.plot = held[c].plot /\ l.kind = held[c].kind /\ l.sale = held[c].sale
      BY <1>1 DEF Holdings
    <3>2. /\ stage[c] = "checks.other"
          /\ \/ EndCall(c) \/ GoOn(c, "number", l)
             \/ l.kind # "enter" /\ GoOn(c, "deed.create", l)
      BY <2>10 DEF ChecksOther, Reached
    <3> HIDE DEF l
    <3>3. l.kind # "enter" => FitKind("deed.create", l) /\ Undone("deed.create", l)
      BY <1>1, <3>1, <3>2 DEF FitKind, Undone, Making
    <3> QED BY <2>2, <2>3, <2>4, <3>1, <3>2, <3>3
  <2>11. CASE NextNumber(c)
    <3> DEFINE l == [held[c] EXCEPT !.number = Len(sales) + 1]
    <3>1. l.plot = held[c].plot /\ l.kind = held[c].kind
      BY <1>1 DEF Holdings
    <3>2. GoOn(c, "create", l)
      BY <2>11 DEF NextNumber
    <3> HIDE DEF l
    <3> QED BY <2>4, <3>1, <3>2
  <2>12. CASE Drafted(c)
    <3>1. stage[c] = "drafted"
          /\ (EndCall(c) \/ (held[c].kind = "paper" /\ GoOn(c, "checks.plot", held[c])))
      BY <2>12 DEF Drafted, Reached
    <3>2. held[c].kind = "paper" =>
            FitKind("checks.plot", held[c]) /\ Undone("checks.plot", held[c])
      BY <1>1, <3>1 DEF FitKind, Undone, Making, DeedKinds
    <3> QED BY <2>2, <2>3, <3>1, <3>2
  <2>13. CASE DeedSold(c) \/ CancelCount(c) \/ CancelFree(c)
    BY <2>2, <2>4, <2>13 DEF DeedSold, CancelCount, CancelFree
  <2> QED BY <1>3, <2>5, <2>6, <2>7, <2>8, <2>9, <2>10, <2>11, <2>12, <2>13
<1> QED BY <1>2, <1>3

(* A new sale has no deed.                                                 *)
LEMMA DeedNew ==
  ASSUME SaleInv, DeedInv, NEW c \in Callers, CreateSale(c)
  PROVE  DeedInv'
<1> DEFINE row == [plot |-> held[c].plot, status |-> "DRAFT", deeds |-> 0]
<1> DEFINE l == [held[c] EXCEPT !.sale = Len(sales) + 1, !.number = 0]
<1>1. /\ held[c] \in Holdings /\ sales \in Seq(SaleRows) /\ Len(sales) \in Nat
      /\ rushed' = rushed /\ stage[c] = "create" /\ held[c].plot \in Plots
  BY HeldFields DEF SaleInv, SaleTypeOK, CreateSale, Reached
<1>2. CASE EndCall(c) /\ UNCHANGED sales
  BY <1>1, <1>2, DeedEnds
<1>3. CASE sales' = Append(sales, row) /\ GoOn(c, "drafted", l)
  <2>1. l.plot = held[c].plot /\ l.kind = held[c].kind /\ l.sale = Len(sales) + 1
    BY <1>1 DEF Holdings
  <2>2. row.plot = held[c].plot /\ row.deeds = 0
    OBVIOUS
  <2> HIDE DEF row, l
  <2>3. /\ Len(sales') = Len(sales) + 1 /\ sales'[Len(sales) + 1] = row
        /\ \A m \in 1..Len(sales) : sales'[m] = sales[m]
    BY <1>1, <1>3
  <2>4. /\ stage'[c] = "drafted" /\ held'[c] = l
        /\ \A o \in Callers \ {c} : stage'[o] = stage[o] /\ held'[o] = held[o]
    BY <1>3, OneMoves DEF SaleInv
  <2>5. ASSUME NEW o \in Callers PROVE FitKind(stage[o], held[o])' /\ Undone(stage[o], held[o])'
    <3>1. CASE o = c
      BY <2>1, <2>2, <2>3, <2>4, <3>1 DEF FitKind, Undone, Making
    <3>2. CASE o # c
      <4>1. /\ stage'[o] = stage[o] /\ held'[o] = held[o]
            /\ FitKind(stage[o], held[o]) /\ Undone(stage[o], held[o])
        BY <2>4, <3>2 DEF DeedInv
      <4>2. held[o].sale > 0 => held[o].sale \in 1..Len(sales)
        BY <1>1, HeldFields DEF SaleInv, Sound
      <4>3. FitKind(stage[o], held[o])'
        BY <4>1 DEF FitKind
      <4>4. Undone(stage[o], held[o])'
        BY <1>1, <2>3, <4>1, <4>2 DEF Undone
      <4> QED BY <4>3, <4>4
    <3> QED BY <3>1, <3>2
  <2>6. \A p \in Plots : ForDeed(p)' \subseteq ForDeed(p)
    BY <1>1, <2>1, <2>4 DEF ForDeed, UnderWay
  <2>7. ASSUME NEW m \in 1..Len(sales') PROVE Single(m)'
    <3>1. CASE m = Len(sales) + 1
      BY <2>2, <2>3, <3>1 DEF Single
    <3>2. CASE m # Len(sales) + 1
      <4>1. m \in 1..Len(sales) /\ sales'[m] = sales[m]
        BY <1>1, <2>3, <3>2
      <4>2. AtMark(m) => AtMark(m)'
        BY <1>1, <2>4 DEF AtMark
      <4>3. Single(m)
        BY <4>1 DEF DeedInv
      <4> QED BY <1>1, <4>1, <4>2, <4>3 DEF Single
    <3> QED BY <3>1, <3>2
  <2> QED BY <1>1, <2>5, <2>6, <2>7 DEF DeedInv
<1> QED BY <1>2, <1>3 DEF CreateSale

(* A deed is counted, its sale marked or another one cancelled.            *)
LEMMA DeedWrites ==
  ASSUME SaleInv, DeedInv, NEW c \in Callers, DeedCreate(c) \/ DeedMark(c) \/ CancelSave(c)
  PROVE  DeedInv'
<1> DEFINE n == held[c].sale
<1>1. /\ stage[c] \in {"deed.create", "deed.mark", "cancel.save"} /\ rushed' = rushed
  BY DEF DeedCreate, DeedMark, CancelSave, SetSale, Reached
<1>2. /\ held[c] \in Holdings /\ held[c].plot \in Plots /\ Len(sales) \in Nat
      /\ n \in 1..Len(sales) /\ sales[n].plot = held[c].plot
  BY <1>1, SaleHeld
<1>3. sales[n] \in SaleRows /\ sales[n].deeds \in 0..2
  BY <1>2, Rows DEF SaleInv
<1>4. PICK row \in SaleRows, point \in {"deed.mark", "deed.sold", "cancel.count"} :
        /\ sales' = [sales EXCEPT ![n] = row] /\ row.plot = sales[n].plot
        /\ GoOn(c, point, held[c])
        /\ \/ stage[c] = "deed.create" /\ point = "deed.mark" /\ row.deeds = Once(sales[n].deeds)
           \/ /\ stage[c] # "deed.create" /\ point # "deed.mark"
              /\ row.deeds = sales[n].deeds /\ row.status # "DRAFT"
  <2>1. CASE DeedCreate(c)
    <3> DEFINE more == [sales[n] EXCEPT !.deeds = Once(@)]
    <3>1. more \in SaleRows /\ more.plot = sales[n].plot /\ more.deeds = Once(sales[n].deeds)
      BY <1>3 DEF SaleRows, Once
    <3> QED BY <2>1, <3>1 DEF DeedCreate, SetSale, Reached
  <2>2. ASSUME NEW status \in {"DEED_CREATED", "CANCELLED"}
        PROVE  LET other == [sales[n] EXCEPT !.status = status] IN
               /\ other \in SaleRows /\ other.plot = sales[n].plot
               /\ other.deeds = sales[n].deeds /\ other.status # "DRAFT"
    BY <1>3 DEF SaleRows
  <2>3. CASE DeedMark(c)
    BY <2>2, <2>3 DEF DeedMark, SetSale, Reached
  <2>4. CASE CancelSave(c)
    BY <2>2, <2>4 DEF CancelSave, SetSale, Reached
  <2> QED BY <2>1, <2>3, <2>4
<1> HIDE DEF n
<1>5. /\ Len(sales') = Len(sales) /\ sales'[n] = row
      /\ \A m \in 1..Len(sales) \ {n} : sales'[m] = sales[m]
      /\ \A m \in 1..Len(sales) : sales'[m].plot = sales[m].plot
  BY <1>2, <1>4, RowWritten DEF SaleInv
<1>6. /\ stage'[c] = point /\ held'[c] = held[c]
      /\ \A o \in Callers \ {c} : stage'[o] = stage[o] /\ held'[o] = held[o]
  BY <1>4, OneMoves DEF SaleInv
<1>7. \A o \in Callers : FitKind(stage[o], held[o])
  BY DEF DeedInv
<1>8. \A p \in Plots : ForDeed(p)' \subseteq ForDeed(p)
  BY <1>1, <1>6 DEF ForDeed, UnderWay
<1>9. ASSUME NEW o \in Callers PROVE FitKind(stage[o], held[o])' /\ Undone(stage[o], held[o])'
  <2>1. FitKind(stage[o], held[o])'
    BY <1>1, <1>4, <1>6, <1>7 DEF FitKind, Making
  <2>2. Undone(stage[o], held[o])'
    <3> SUFFICES ASSUME stage'[o] \in {"drafted", "checks.plot", "checks.other", "deed.create"},
                        held'[o].kind \in DeedKinds, held'[o].sale > 0,
                        held'[o].plot \notin rushed
                 PROVE  sales'[held'[o].sale].deeds = 0
      BY <1>1 DEF Undone
    <3>1. o # c /\ stage'[o] = stage[o] /\ held'[o] = held[o]
      BY <1>4, <1>6
    <3>2. /\ held[o].sale \in 1..Len(sales) /\ sales[held[o].sale].plot = held[o].plot
          /\ sales[held[o].sale].deeds = 0 /\ held[o].plot \in Plots
      BY <1>2, <3>1, HeldFields DEF SaleInv, Sound, DeedInv, Undone
    <3>3. CASE held[o].sale = n /\ stage[c] = "deed.create"
      <4>1. c \in ForDeed(held[c].plot) /\ o \in ForDeed(held[c].plot)
        BY <1>2, <1>7, <3>1, <3>2, <3>3 DEF FitKind, Making, ForDeed, UnderWay
      <4> QED BY <1>2, <3>1, <3>2, <3>3, <4>1 DEF DeedInv
    <3>4. CASE ~(held[o].sale = n /\ stage[c] = "deed.create")
      BY <1>4, <1>5, <3>1, <3>2, <3>4
    <3> QED BY <3>3, <3>4
  <2> QED BY <2>1, <2>2
<1>10. ASSUME NEW m \in 1..Len(sales) PROVE Single(m)'
  <2>1. Single(m)
    BY DEF DeedInv
  <2>2. CASE m # n
    <3>1. sales'[m] = sales[m]
      BY <1>5, <2>2
    <3>2. AtMark(m) => AtMark(m)'
      BY <1>6, <2>2 DEF AtMark, n
    <3> QED BY <1>1, <2>1, <3>1, <3>2 DEF Single
  <2>3. CASE m = n /\ stage[c] # "deed.create"
    BY <1>1, <1>4, <1>5, <2>1, <2>3 DEF Single
  <2>4. CASE m = n /\ stage[c] = "deed.create"
    <3>1. held[c].plot \notin rushed => sales[n].deeds = 0
      <4>1. held[c].kind \in DeedKinds /\ Undone(stage[c], held[c]) /\ n > 0
        BY <1>2, <1>7, <2>4 DEF FitKind, Making, DeedInv
      <4> QED BY <2>4, <4>1 DEF Undone, n
    <3>2. AtMark(m)'
      BY <1>4, <1>6, <2>4 DEF AtMark, n
    <3>3. held[c].plot \notin rushed => sales'[m].deeds = 1
      BY <1>4, <1>5, <2>4, <3>1 DEF Once
    <3>4. sales'[m].plot = held[c].plot
      BY <1>2, <1>5, <2>4
    <3> QED BY <1>1, <3>2, <3>3, <3>4 DEF Single
  <2> QED BY <2>2, <2>3, <2>4
<1> QED BY <1>1, <1>5, <1>8, <1>9, <1>10 DEF DeedInv

LEMMA DeedKept == SaleInv /\ DeedInv /\ [SaleNext]_saleVars => DeedInv'
<1> SUFFICES ASSUME SaleInv, DeedInv, [SaleNext]_saleVars PROVE DeedInv'
  OBVIOUS
<1>1. ASSUME UNCHANGED <<sales, stage, held, rushed>> PROVE DeedInv'
  BY <1>1 DEF DeedInv, FitKind, Undone, Single, AtMark, ForDeed, UnderWay
<1>2. CASE UNCHANGED saleVars
  BY <1>1, <1>2 DEF saleVars
<1>3. ASSUME NEW p \in Plots, ImportSold(p) PROVE DeedInv'
  BY <1>1, <1>3 DEF ImportSold
<1> QED BY <1>2, <1>3, DeedBegins, DeedReads, DeedNew, DeedWrites DEF SaleNext

(* No plot gets two sales with a deed, however the office's and the        *)
(* company's calls overlap or fail, unless a sale of it was cancelled amid *)
(* another call; no sale gets two deeds, unless two calls that may make    *)
(* one were at work on its plot at once or one died between the deed and   *)
(* its sale; and a plot with an old deed gets no sale (the checks of       *)
(* createDeed, handleCompany and handleCompanyFile).                       *)
THEOREM SoldPlotsBlock ==
  ASSUME MaxSales \in Nat, Plots # {}
  PROVE  SaleSpec => [](SaleTypeOK /\ SoldBlocks)
<1>1. SaleInv /\ OldInv /\ DeedInv => SaleTypeOK /\ SoldBlocks
  <2>1. SaleInv => SaleTypeOK /\ OneSaleWithDeed
    BY DEF SaleInv, OneClaim, ClaimedSale, OneSaleWithDeed
  <2>2. DeedInv => OneDeedPerSale
    BY DEF DeedInv, Single, OneDeedPerSale
  <2>3. OldInv => OldSoldBlocks
    BY DEF OldInv, OldSoldBlocks
  <2> QED BY <2>1, <2>2, <2>3 DEF SoldBlocks
<1>2. SaleInit => OldInv /\ DeedInv
  <2>1. SaleInit => OldInv
    BY DEF SaleInit, OldInv
  <2>2. SaleInit => DeedInv
    BY DEF SaleInit, DeedInv, FitKind, Undone, Making, ForDeed, UnderWay
  <2> QED BY <2>1, <2>2
<1> QED BY <1>1, <1>2, SalesStart, SalesKept, OldKept, DeedKept, PTL DEF SaleSpec
-----------------------------------------------------------------------------
(* The register.                                                           *)

PlotSays(p) ==
  plots[p] \in {StatusBySales(p)} \union (IF p \in imported THEN {"SOLD"} ELSE {})

(* A plot at rest, or with one call about it under way, at a point and     *)
(* with what it holds: a deed is counted before its sale is marked, and    *)
(* the plot's status follows what the call did to the sales.               *)
Amid(p, point, l) ==
  /\ \A m, n \in SalesOf(p) : m = n
  /\ \A n \in 1..Len(sales) : sales[n].plot = p =>
       /\ sales[n].deeds <= 1
       /\ sales[n].status = "DRAFT" /\ sales[n].deeds # 0 => point = "deed.mark" /\ l.sale = n
  /\ \/ PlotSays(p)
     \/ point \in {"drafted", "deed.sold"}
     \/ point \in {"cancel.count", "cancel.free"} /\ SalesOf(p) = {}
  /\ point \in {"number", "create", "cancel.free"} => SalesOf(p) = {}
  /\ point \in Relying /\ l.sale > 0 => sales[l.sale].status = "DRAFT"
  /\ point = "deed.sold" => sales[l.sale].status = "DEED_CREATED"
  /\ point \in {"checks.plot", "checks.other"} /\ l.kind = "enter" => l.sale = 0

(* A plot about which calls come one after another and to their end.       *)
Tidy(p) ==
  \/ UnderWay(p) = {} /\ Amid(p, "idle", NoHolding)
  \/ \E c \in Callers : UnderWay(p) = {c} /\ Amid(p, stage[c], held[c])

Register == \A p \in Plots \ uneven : Tidy(p)

(* A step about another plot, or an import.                                *)
Apart(p) ==
  /\ UnderWay(p)' = UnderWay(p)
  /\ \A c \in UnderWay(p) : stage'[c] = stage[c] /\ held'[c] = held[c]
  /\ Len(sales) <= Len(sales')
  /\ \A n \in 1..Len(sales) : sales[n].plot = p => sales'[n] = sales[n]
  /\ \A n \in 1..Len(sales') : sales'[n].plot = p => n \in 1..Len(sales) /\ sales[n].plot = p
  /\ plots'[p] = plots[p] \/ (plots'[p] = "SOLD" /\ p \in imported')
  /\ imported \subseteq imported'

(* Such a step leaves a tidy plot tidy.                                    *)
LEMMA ApartKeeps ==
  ASSUME SaleInv, NEW p \in Plots, Tidy(p), Apart(p)
  PROVE  Tidy(p)'
<1>1. Len(sales) \in Nat /\ Len(sales') >= Len(sales)
  BY DEF SaleInv, SaleTypeOK, Apart
<1>2. SalesOf(p)' = SalesOf(p) /\ \A n \in SalesOf(p) : sales'[n] = sales[n]
  <2>1. ASSUME NEW n \in SalesOf(p) PROVE n \in SalesOf(p)' /\ sales'[n] = sales[n]
    BY <1>1, <2>1 DEF SalesOf, Apart
  <2>2. ASSUME NEW n \in SalesOf(p)' PROVE n \in SalesOf(p)
    BY <1>1, <2>2 DEF SalesOf, Apart
  <2> QED BY <2>1, <2>2
<1>3. StatusBySales(p)' = StatusBySales(p)
  BY <1>2 DEF StatusBySales
<1>4. PlotSays(p) => PlotSays(p)'
  BY <1>3 DEF PlotSays, Apart
<1>5. \A n \in 1..Len(sales') : sales'[n].plot = p =>
       n \in 1..Len(sales) /\ sales[n].plot = p /\ sales'[n] = sales[n]
  BY DEF Apart
<1>6. CASE UnderWay(p) = {} /\ Amid(p, "idle", NoHolding)
  <2>1. Amid(p, "idle", NoHolding)'
    BY <1>2, <1>4, <1>5, <1>6 DEF Amid, Relying, Making
  <2> QED BY <1>6, <2>1 DEF Tidy, Apart
<1>7. ASSUME NEW c \in Callers, UnderWay(p) = {c}, Amid(p, stage[c], held[c]) PROVE Tidy(p)'
  <2>1. held[c].plot = p /\ Sound(stage[c], held[c]) /\ held[c].sale \in 0..MaxSales
    BY <1>7, HeldFields DEF UnderWay, SaleInv
  <2>2. stage'[c] = stage[c] /\ held'[c] = held[c] /\ UnderWay(p)' = {c}
    BY <1>7 DEF Apart
  <2>3. held[c].sale > 0 => held[c].sale \in 1..Len(sales) /\ sales[held[c].sale].plot = p
    BY <1>1, <2>1 DEF Sound
  <2>4. stage[c] = "deed.sold" => held[c].sale > 0
    BY <2>1 DEF Sound
  <2>5. Amid(p, stage[c], held[c])'
    <3>1. held[c].sale > 0 => sales'[held[c].sale] = sales[held[c].sale]
      BY <2>3 DEF Apart
    <3> QED BY <1>2, <1>4, <1>5, <1>7, <2>2, <2>4, <3>1 DEF Amid
  <2> QED BY <2>2, <2>5 DEF Tidy
<1> QED BY <1>6, <1>7 DEF Tidy

(* The steps of a call between its first and its last.                     *)
CallStep(c) ==
  \/ TextPlot(c) \/ PaperPlot(c) \/ PaperExisting(c) \/ ReadSale(c)
  \/ ChecksPlot(c) \/ ChecksOther(c) \/ NextNumber(c) \/ CancelCount(c)
  \/ Drafted(c) \/ DeedSold(c) \/ CancelFree(c)
  \/ CreateSale(c) \/ DeedCreate(c) \/ DeedMark(c) \/ CancelSave(c)

(* A call goes on about its plot, or ends.                                 *)
LEMMA StaysWithPlot ==
  ASSUME MaxSales \in Nat, SaleInv, NEW c \in Callers, CallStep(c)
  PROVE  /\ stage[c] # "idle"
         /\ stage'[c] = "idle" \/ held'[c].plot = held[c].plot
         /\ \A o \in Callers \ {c} : stage'[o] = stage[o] /\ held'[o] = held[o]
<1>1. held[c] \in Holdings
  BY HeldFields DEF SaleInv
<1>2. stage[c] # "idle"
  BY DEF CallStep, TextPlot, PaperPlot, PaperExisting, ReadSale, ChecksPlot, ChecksOther,
    NextNumber, CancelCount, Drafted, DeedSold, CancelFree, CreateSale, DeedCreate, DeedMark,
    CancelSave, Reached
<1>3. SUFFICES \E point, l : GoOn(c, point, l) /\ (point = "idle" \/ l.plot = held[c].plot)
  BY <1>2, OneMoves DEF SaleInv
<1>4. CASE EndCall(c)
  BY <1>4 DEF EndCall
<1>5. ASSUME NEW point, GoOn(c, point, held[c])
      PROVE  \E at, l : GoOn(c, at, l) /\ (at = "idle" \/ l.plot = held[c].plot)
  BY <1>5
<1>6. CASE TextPlot(c) \/ ReadSale(c) \/ CancelCount(c) \/ Drafted(c) \/ DeedSold(c) \/ CancelFree(c)
             \/ DeedCreate(c) \/ DeedMark(c) \/ CancelSave(c)
  BY <1>4, <1>5, <1>6 DEF TextPlot, ReadSale, CancelCount, Drafted, DeedSold, CancelFree,
    DeedCreate, DeedMark, CancelSave
<1>7. CASE PaperPlot(c) \/ ChecksPlot(c)
  <2> DEFINE l == [held[c] EXCEPT !.sold = plots[held[c].plot] = "SOLD"]
  <2>1. l.plot = held[c].plot
    BY <1>1 DEF Holdings
  <2> QED BY <1>7, <2>1 DEF PaperPlot, ChecksPlot
<1>8. CASE PaperExisting(c) \/ ChecksOther(c)
  <2> DEFINE l == [held[c] EXCEPT !.sold = FALSE]
  <2>1. l.plot = held[c].plot /\ \A n : [l EXCEPT !.sale = n].plot = held[c].plot
    BY <1>1 DEF Holdings
  <2> HIDE DEF l
  <2> QED BY <1>4, <1>8, <2>1 DEF PaperExisting, ChecksOther, l
<1>9. CASE NextNumber(c)
  <2> DEFINE l == [held[c] EXCEPT !.number = Len(sales) + 1]
  <2>1. l.plot = held[c].plot
    BY <1>1 DEF Holdings
  <2> QED BY <1>9, <2>1 DEF NextNumber
<1>10. CASE CreateSale(c)
  <2> DEFINE l == [held[c] EXCEPT !.sale = Len(sales) + 1, !.number = 0]
  <2>1. l.plot = held[c].plot
    BY <1>1 DEF Holdings
  <2> QED BY <1>4, <1>10, <2>1 DEF CreateSale
<1> QED BY <1>6, <1>7, <1>8, <1>9, <1>10 DEF CallStep

(* It writes to no other plot, and to no other plot's sales.               *)
LEMMA OthersApart ==
  ASSUME MaxSales \in Nat, SaleInv, NEW c \in Callers, CallStep(c),
         NEW p \in Plots, p # held[c].plot
  PROVE  Apart(p)
<1> DEFINE n == held[c].sale
<1>1. /\ held[c] \in Holdings /\ held[c].plot \in Plots /\ sales \in Seq(SaleRows)
      /\ Len(sales) \in Nat
  BY HeldFields DEF SaleInv, SaleTypeOK
<1>2. /\ UnderWay(p)' = UnderWay(p)
      /\ \A o \in UnderWay(p) : stage'[o] = stage[o] /\ held'[o] = held[o]
  BY StaysWithPlot DEF UnderWay
<1>3. imported' = imported /\ plots'[p] = plots[p]
  BY DEF CallStep, TextPlot, PaperPlot, PaperExisting, ReadSale, ChecksPlot, ChecksOther,
    NextNumber, CancelCount, Drafted, DeedSold, CancelFree, CreateSale, DeedCreate, DeedMark,
    CancelSave, Reading, register, SetPlot, SetSale, SaleInv, SaleTypeOK
<1>4. CASE UNCHANGED sales
  BY <1>1, <1>2, <1>3, <1>4 DEF Apart
<1>5. CASE CreateSale(c) /\ ~UNCHANGED sales
  <2> DEFINE row == [plot |-> held[c].plot, status |-> "DRAFT", deeds |-> 0]
  <2>1. sales' = Append(sales, row)
    BY <1>5 DEF CreateSale
  <2>2. row.plot # p
    OBVIOUS
  <2> HIDE DEF row
  <2>3. /\ Len(sales') = Len(sales) + 1 /\ sales'[Len(sales) + 1] = row
        /\ \A m \in 1..Len(sales) : sales'[m] = sales[m]
    BY <1>1, <2>1
  <2> QED BY <1>1, <1>2, <1>3, <2>2, <2>3 DEF Apart
<1>6. CASE DeedCreate(c) \/ DeedMark(c) \/ CancelSave(c)
  <2>1. n \in 1..Len(sales) /\ sales[n].plot = held[c].plot
    BY <1>6, SaleHeld DEF DeedCreate, DeedMark, CancelSave, Reached
  <2>2. sales[n] \in SaleRows
    BY <2>1, Rows DEF SaleInv
  <2>3. PICK row : sales' = [sales EXCEPT ![n] = row] /\ row.plot = sales[n].plot
    BY <1>6, <2>2 DEF DeedCreate, DeedMark, CancelSave, SetSale, SaleRows
  <2>4. /\ Len(sales') = Len(sales) /\ sales'[n].plot # p
        /\ \A m \in 1..Len(sales) \ {n} : sales'[m] = sales[m]
    BY <1>1, <2>1, <2>3
  <2> QED BY <1>1, <1>2, <1>3, <2>1, <2>4 DEF Apart
<1> QED BY <1>4, <1>5, <1>6 DEF CallStep, TextPlot, PaperPlot, PaperExisting, ReadSale,
  ChecksPlot, ChecksOther, NextNumber, CancelCount, Drafted, DeedSold, CancelFree, Reading,
  register, SetPlot

(* The step of the only call about a plot, on its way to a point.          *)
LEMMA OwnPlot ==
  ASSUME SaleTypeOK, NEW c \in Callers, NEW p \in Plots, p = held[c].plot, UnderWay(p) = {c},
         stage'[c] = "idle" \/ held'[c].plot = p,
         \A o \in Callers \ {c} : stage'[o] = stage[o] /\ held'[o] = held[o],
         Amid(p, stage[c], held[c])', stage'[c] = "idle" => held'[c] = NoHolding
  PROVE  Tidy(p)'
<1>1. CASE stage'[c] = "idle"
  <2>1. UnderWay(p)' = {}
    BY <1>1 DEF UnderWay
  <2> QED BY <1>1, <2>1 DEF Tidy, Amid
<1>2. CASE stage'[c] # "idle"
  <2>1. UnderWay(p)' = {c}
    BY <1>2 DEF UnderWay
  <2> QED BY <2>1 DEF Tidy
<1> QED BY <1>1, <1>2

(* The call and the sale it holds.                                         *)
LEMMA OwnSale ==
  ASSUME SaleInv, NEW c \in Callers
  PROVE  /\ held[c] \in Holdings /\ held[c].plot \in Plots /\ held[c].kind \in SaleKinds
         /\ sales \in Seq(SaleRows) /\ Len(sales) \in Nat
         /\ held[c].sale \in 0..MaxSales /\ Sound(stage[c], held[c])
         /\ held[c].sale > 0 =>
              held[c].sale \in 1..Len(sales) /\ sales[held[c].sale].plot = held[c].plot
<1>1. /\ held[c] \in Holdings /\ held[c].plot \in Plots /\ held[c].kind \in SaleKinds
      /\ sales \in Seq(SaleRows) /\ Len(sales) \in Nat
      /\ held[c].sale \in 0..MaxSales /\ Sound(stage[c], held[c])
  BY HeldFields DEF SaleInv, SaleTypeOK
<1> QED BY <1>1 DEF Sound

(* A step that reads: what it concludes is what the register says.         *)
LEMMA ReadsAmid ==
  ASSUME SaleInv, NEW c \in Callers, NEW p \in Plots, p = held[c].plot,
         Amid(p, stage[c], held[c]),
         TextPlot(c) \/ PaperPlot(c) \/ PaperExisting(c) \/ ReadSale(c) \/ ChecksPlot(c)
           \/ ChecksOther(c) \/ NextNumber(c) \/ CancelCount(c)
  PROVE  Amid(p, stage[c], held[c])'
<1>1. UNCHANGED <<plots, sales, imported>>
  BY DEF TextPlot, PaperPlot, PaperExisting, ReadSale, ChecksPlot, ChecksOther, NextNumber,
    CancelCount, Reading, register
<1>2. ASSUME NEW point, NEW l, Amid(p, point, l), GoOn(c, point, l)
      PROVE  Amid(p, stage[c], held[c])'
  <2>1. stage'[c] = point /\ held'[c] = l
    BY <1>2, OneMoves DEF SaleInv
  <2> QED BY SMTT(30), <1>1, <1>2, <2>1 DEF Amid, SalesOf, PlotSays, StatusBySales
<1>3. /\ held[c] \in Holdings /\ Sound(stage[c], held[c]) /\ Len(sales) \in Nat
      /\ held[c].kind \in SaleKinds /\ held[c].sale \in 0..MaxSales
  BY OwnSale
<1>4. ASSUME EndCall(c), PlotSays(p), stage[c] # "deed.mark" PROVE Amid(p, stage[c], held[c])'
  <2>1. Amid(p, "idle", NoHolding)
    BY <1>4 DEF Amid, Relying, Making
  <2> QED BY <1>2, <1>4, <2>1 DEF EndCall
<1>5. CASE TextPlot(c)
  <2>1. stage[c] = "text.plot" /\ PlotSays(p)
    BY <1>5 DEF TextPlot, Reached, Amid
  <2>2. CASE plots[p] = "AVAILABLE"
    <3>1. SalesOf(p) = {}
      BY <2>1, <2>2 DEF PlotSays, StatusBySales
    <3>2. Amid(p, "number", held[c])
      BY <2>1, <3>1 DEF Amid, Relying, Making
    <3> QED BY <1>2, <1>5, <2>2, <3>2 DEF TextPlot
  <2>3. CASE plots[p] # "AVAILABLE"
    BY <1>4, <1>5, <2>1, <2>3 DEF TextPlot
  <2> QED BY <2>2, <2>3
<1>6. CASE PaperPlot(c) \/ ChecksPlot(c)
  <2> DEFINE l == [held[c] EXCEPT !.sold = plots[held[c].plot] = "SOLD"]
  <2>1. l.sale = held[c].sale /\ l.kind = held[c].kind
    BY <1>3 DEF Holdings
  <2>2. \/ stage[c] = "paper.plot" /\ GoOn(c, "paper.existing", l)
        \/ stage[c] = "checks.plot" /\ GoOn(c, "checks.other", l)
    BY <1>6 DEF PaperPlot, ChecksPlot, Reached
  <2> HIDE DEF l
  <2>3. \A point \in {"paper.existing", "checks.other"} :
          GoOn(c, point, l) /\ (stage[c] = "checks.plot" \/ point = "paper.existing")
            /\ stage[c] \in {"paper.plot", "checks.plot"} => Amid(p, point, l)
    BY <2>1 DEF Amid, Relying, Making
  <2> QED BY <1>2, <2>2, <2>3
<1>7. CASE PaperExisting(c)
  <2> DEFINE l == [held[c] EXCEPT !.sold = FALSE]
  <2>1. stage[c] = "paper.existing" /\ PlotSays(p)
    BY <1>7 DEF PaperExisting, Reached, Amid
  <2>2. CASE EndCall(c)
    BY <1>4, <2>1, <2>2
  <2>3. CASE SalesOf(p) = {} /\ GoOn(c, "number", l)
    <3>1. Amid(p, "number", l)
      BY <2>1, <2>3 DEF Amid, Relying, Making
    <3> QED BY <1>2, <2>3, <3>1
  <2>4. ASSUME NEW last \in SalesOf(p), sales[last].status # "DEED_CREATED",
               GoOn(c, "drafted", [l EXCEPT !.sale = last])
        PROVE  Amid(p, stage[c], held[c])'
    <3> DEFINE k == [l EXCEPT !.sale = last]
    <3>1. k.sale = last /\ last \in 1..Len(sales)
      BY <1>3 DEF Holdings, SalesOf
    <3>2. sales[last].status = "DRAFT"
      BY <2>4, <3>1, Rows DEF SalesOf, SaleInv
    <3>3. GoOn(c, "drafted", k)
      BY <2>4
    <3> HIDE DEF k, l
    <3>4. Amid(p, "drafted", k)
      BY <2>1, <3>1, <3>2 DEF Amid, Relying, Making
    <3> QED BY <1>2, <3>3, <3>4
  <2> QED BY <1>7, <2>2, <2>3, <2>4 DEF PaperExisting
<1>8. CASE ReadSale(c)
  <2>1. stage[c] = "sale.read" /\ PlotSays(p)
    BY <1>8 DEF ReadSale, Reached, Amid
  <2>2. CASE EndCall(c)
    BY <1>4, <2>1, <2>2
  <2>3. CASE GoOn(c, "cancel.save", held[c])
    <3>1. Amid(p, "cancel.save", held[c])
      BY <2>1 DEF Amid, Relying, Making
    <3> QED BY <1>2, <2>3, <3>1
  <2>4. CASE held[c].kind = "deed" /\ sales[held[c].sale].status = "DRAFT"
               /\ GoOn(c, "checks.plot", held[c])
    <3>1. Amid(p, "checks.plot", held[c])
      BY <2>1, <2>4 DEF Amid, Relying, Making
    <3> QED BY <1>2, <2>4, <3>1
  <2> QED BY <1>8, <2>2, <2>3, <2>4 DEF ReadSale
<1>9. CASE ChecksOther(c)
  <2> DEFINE l == [held[c] EXCEPT !.sold = FALSE]
  <2>1. stage[c] = "checks.other" /\ PlotSays(p)
    BY <1>9 DEF ChecksOther, Reached, Amid
  <2>2. l.sale = held[c].sale /\ l.kind = held[c].kind
    BY <1>3 DEF Holdings
  <2>3. CASE EndCall(c)
    BY <1>4, <2>1, <2>3
  <2>4. CASE ~DoubleSale(c) /\ l.kind = "enter" /\ GoOn(c, "number", l)
    <3>1. held[c].sale = 0
      BY <2>1, <2>2, <2>4 DEF Amid
    <3>2. SalesOf(p) = {}
      BY <2>4, <3>1 DEF DoubleSale, SalesOf
    <3> HIDE DEF l
    <3>3. Amid(p, "number", l)
      BY <2>1, <3>2 DEF Amid, Relying, Making
    <3> QED BY <1>2, <2>4, <3>3
  <2>5. CASE GoOn(c, "deed.create", l)
    <3> HIDE DEF l
    <3>1. Amid(p, "deed.create", l)
      BY <2>1, <2>2 DEF Amid, Relying, Making
    <3> QED BY <1>2, <2>5, <3>1
  <2> QED BY <1>9, <2>3, <2>4, <2>5 DEF ChecksOther
<1>10. CASE NextNumber(c)
  <2> DEFINE l == [held[c] EXCEPT !.number = Len(sales) + 1]
  <2>1. stage[c] = "number" /\ GoOn(c, "create", l)
    BY <1>10 DEF NextNumber, Reached
  <2> HIDE DEF l
  <2>2. Amid(p, "create", l)
    BY <2>1 DEF Amid, Relying, Making
  <2> QED BY <1>2, <2>1, <2>2
<1>11. CASE CancelCount(c)
  <2>1. stage[c] = "cancel.count"
    BY <1>11 DEF CancelCount, Reached
  <2>2. CASE SalesOf(p) = {}
    <3>1. Amid(p, "cancel.free", held[c])
      BY <2>1, <2>2 DEF Amid, Relying, Making
    <3> QED BY <1>2, <1>11, <2>2, <3>1 DEF CancelCount, FreeAgain
  <2>3. CASE SalesOf(p) # {}
    <3>1. PlotSays(p)
      BY <2>1, <2>3 DEF Amid
    <3> QED BY <1>4, <1>11, <2>1, <2>3, <3>1 DEF CancelCount, FreeAgain
  <2> QED BY <2>2, <2>3
<1> QED BY <1>5, <1>6, <1>7, <1>8, <1>9, <1>10, <1>11

(* A step that writes the plot's status writes what the sales say.         *)
LEMMA WritesPlotAmid ==
  ASSUME SaleInv, NEW c \in Callers, NEW p \in Plots, p = held[c].plot,
         Amid(p, stage[c], held[c]), Drafted(c) \/ DeedSold(c) \/ CancelFree(c)
  PROVE  Amid(p, stage[c], held[c])'
<1> DEFINE n == held[c].sale
<1>1. UNCHANGED <<sales, imported>>
  BY DEF Drafted, DeedSold, CancelFree, SetPlot
<1>2. /\ stage[c] \in {"drafted", "deed.sold", "cancel.free"} /\ n \in 1..Len(sales)
      /\ sales[n].plot = p
  <2>1. stage[c] \in {"drafted", "deed.sold", "cancel.free"}
    BY DEF Drafted, DeedSold, CancelFree, Reached
  <2> QED BY <2>1, OwnSale DEF Sound
<1>3. SalesOf(p)' = SalesOf(p) /\ StatusBySales(p)' = StatusBySales(p)
  BY <1>1 DEF SalesOf, StatusBySales
<1>4. PlotSays(p)'
  <2>1. CASE Drafted(c)
    <3>1. stage[c] = "drafted" /\ sales[n].status = "DRAFT"
      BY <1>2, <2>1 DEF Drafted, Reached, Amid, Relying
    <3>2. SalesOf(p) = {n}
      BY <1>2, <3>1 DEF Amid, SalesOf
    <3>3. StatusBySales(p) = "DRAFTED"
      BY <3>1, <3>2 DEF StatusBySales
    <3>4. plots'[p] = "DRAFTED"
      BY <2>1 DEF Drafted, SetPlot, SaleInv, SaleTypeOK
    <3> QED BY <1>3, <3>3, <3>4 DEF PlotSays
  <2>2. CASE DeedSold(c)
    <3>1. sales[n].status = "DEED_CREATED" /\ n \in SalesOf(p)
      BY <1>2, <2>2 DEF DeedSold, Reached, Amid, SalesOf
    <3>2. StatusBySales(p) = "SOLD"
      BY <3>1 DEF StatusBySales
    <3>3. plots'[p] = "SOLD"
      BY <2>2 DEF DeedSold, SetPlot, SaleInv, SaleTypeOK
    <3> QED BY <1>3, <3>2, <3>3 DEF PlotSays
  <2>3. CASE CancelFree(c)
    <3>1. SalesOf(p) = {}
      BY <2>3 DEF CancelFree, Reached, Amid
    <3>2. StatusBySales(p) = "AVAILABLE"
      BY <3>1 DEF StatusBySales
    <3>3. plots'[p] = "AVAILABLE"
      BY <2>3 DEF CancelFree, SetPlot, SaleInv, SaleTypeOK
    <3> QED BY <1>3, <3>2, <3>3 DEF PlotSays
  <2> QED BY <2>1, <2>2, <2>3
<1>5. CASE EndCall(c)
  <2>1. stage'[c] = "idle" /\ held'[c] = NoHolding
    BY <1>5, OneMoves DEF EndCall, SaleInv
  <2> QED BY <1>1, <1>2, <1>3, <1>4, <2>1 DEF Amid, Relying, Making
<1>6. CASE stage[c] = "drafted" /\ held[c].kind = "paper" /\ GoOn(c, "checks.plot", held[c])
  <2>1. stage'[c] = "checks.plot" /\ held'[c] = held[c]
    BY <1>6, OneMoves DEF SaleInv
  <2> QED BY <1>1, <1>3, <1>4, <1>6, <2>1 DEF Amid, Relying, Making
<1> QED BY <1>5, <1>6 DEF Drafted, DeedSold, CancelFree, Reached

(* A new sale is the plot's only one, until its status says so the call is *)
(* at "drafted".                                                           *)
LEMMA CreateAmid ==
  ASSUME SaleInv, NEW c \in Callers, NEW p \in Plots, p = held[c].plot,
         Amid(p, stage[c], held[c]), CreateSale(c)
  PROVE  Amid(p, stage[c], held[c])'
<1> DEFINE row == [plot |-> held[c].plot, status |-> "DRAFT", deeds |-> 0]
<1> DEFINE l == [held[c] EXCEPT !.sale = Len(sales) + 1, !.number = 0]
<1>1. /\ held[c] \in Holdings /\ sales \in Seq(SaleRows) /\ Len(sales) \in Nat
      /\ UNCHANGED <<plots, imported>>
  BY OwnSale DEF CreateSale
<1>2. stage[c] = "create" /\ SalesOf(p) = {} /\ PlotSays(p)
  BY DEF CreateSale, Reached, Amid
<1>3. CASE EndCall(c) /\ UNCHANGED sales
  <2>1. stage'[c] = "idle" /\ held'[c] = NoHolding
    BY <1>3, OneMoves DEF EndCall, SaleInv
  <2>2. SalesOf(p)' = SalesOf(p) /\ PlotSays(p)'
    BY <1>1, <1>2, <1>3 DEF SalesOf, StatusBySales, PlotSays
  <2> QED BY <1>2, <1>3, <2>1, <2>2 DEF Amid, Relying, Making
<1>4. CASE sales' = Append(sales, row) /\ GoOn(c, "drafted", l)
  <2>1. row.plot = p /\ row.status = "DRAFT" /\ row.deeds = 0
    OBVIOUS
  <2>2. l.sale = Len(sales) + 1
    BY <1>1 DEF Holdings
  <2> HIDE DEF row, l
  <2>3. stage'[c] = "drafted" /\ held'[c] = l
    BY <1>4, OneMoves DEF SaleInv
  <2>4. /\ Len(sales') = Len(sales) + 1 /\ sales'[Len(sales) + 1] = row
        /\ \A m \in 1..Len(sales) : sales'[m] = sales[m]
    BY <1>1, <1>4
  <2>5. SalesOf(p)' = {Len(sales) + 1}
    BY <1>1, <1>2, <2>1, <2>4 DEF SalesOf
  <2>6. ASSUME NEW n \in 1..Len(sales'), sales'[n].plot = p
        PROVE  sales'[n].deeds <= 1 /\ ~(sales'[n].status = "DRAFT" /\ sales'[n].deeds # 0)
    <3>1. CASE n = Len(sales) + 1
      BY <2>1, <2>4, <3>1
    <3>2. CASE n \in 1..Len(sales)
      BY <1>2, <2>4, <2>6, <3>2 DEF Amid
    <3> QED BY <1>1, <2>4, <3>1, <3>2
  <2> QED BY <2>1, <2>2, <2>3, <2>4, <2>5, <2>6 DEF Amid
<1> QED BY <1>3, <1>4 DEF CreateSale

(* A deed is counted, its sale marked.                                     *)
LEMMA DeedAmid ==
  ASSUME SaleInv, NEW c \in Callers, NEW p \in Plots, p = held[c].plot,
         Amid(p, stage[c], held[c]), DeedCreate(c) \/ DeedMark(c)
  PROVE  Amid(p, stage[c], held[c])'
<1> DEFINE n == held[c].sale
<1>1. /\ stage[c] \in Making /\ UNCHANGED <<plots, imported>>
      /\ stage[c] \in {"deed.create", "deed.mark"}
  BY DEF DeedCreate, DeedMark, Reached, SetSale, Making
<1>2. /\ Len(sales) \in Nat /\ n \in 1..Len(sales) /\ sales[n].plot = p
      /\ sales[n].status = "DRAFT"
  BY <1>1, SaleHeld DEF Making, Relying, Amid
<1>3. sales[n] \in SaleRows /\ sales[n].deeds \in 0..2
  BY <1>2, Rows DEF SaleInv
<1>4. PICK row \in SaleRows :
        /\ sales' = [sales EXCEPT ![n] = row] /\ row.plot = p
        /\ \/ /\ stage[c] = "deed.create" /\ GoOn(c, "deed.mark", held[c])
              /\ row.status = "DRAFT" /\ row.deeds = Once(sales[n].deeds)
           \/ /\ stage[c] = "deed.mark" /\ GoOn(c, "deed.sold", held[c])
              /\ row.status = "DEED_CREATED" /\ row.deeds = sales[n].deeds
  <2>1. CASE DeedCreate(c)
    <3> DEFINE made == [sales[n] EXCEPT !.deeds = Once(@)]
    <3>1. Once(sales[n].deeds) \in 0..2
      BY <1>3 DEF Once
    <3>2. /\ made \in SaleRows /\ made.plot = p /\ made.status = "DRAFT"
          /\ made.deeds = Once(sales[n].deeds)
      BY <1>2, <1>3, <3>1 DEF SaleRows
    <3> QED BY <2>1, <3>2 DEF DeedCreate, SetSale, Reached
  <2>2. CASE DeedMark(c)
    <3> DEFINE marked == [sales[n] EXCEPT !.status = "DEED_CREATED"]
    <3>1. /\ marked \in SaleRows /\ marked.plot = p /\ marked.status = "DEED_CREATED"
          /\ marked.deeds = sales[n].deeds
      BY <1>2, <1>3 DEF SaleRows
    <3> QED BY <2>2, <3>1 DEF DeedMark, SetSale, Reached
  <2> QED BY <2>1, <2>2
<1>5. /\ Len(sales') = Len(sales) /\ sales'[n] = row
      /\ \A m \in 1..Len(sales) \ {n} : sales'[m] = sales[m]
  BY <1>2, <1>4, RowWritten DEF SaleInv
<1>6. held'[c] = held[c]
      /\ stage'[c] = IF stage[c] = "deed.create" THEN "deed.mark" ELSE "deed.sold"
  BY <1>4, OneMoves DEF SaleInv
<1>7. SalesOf(p)' = SalesOf(p)
  <2>1. ASSUME NEW m \in 1..Len(sales)
        PROVE  (m \in SalesOf(p)') <=> (m \in SalesOf(p))
    BY <1>2, <1>4, <1>5 DEF SalesOf
  <2> QED BY <1>5, <2>1 DEF SalesOf
<1>8. ASSUME NEW m \in 1..Len(sales), sales'[m].plot = p
      PROVE  /\ sales'[m].deeds <= 1
             /\ sales'[m].status = "DRAFT" /\ sales'[m].deeds # 0
                  => stage'[c] = "deed.mark" /\ n = m
  <2>1. CASE m # n
    BY <1>5, <1>8, <2>1 DEF Amid
  <2>2. CASE m = n /\ stage[c] = "deed.create"
    <3>1. sales[n].deeds = 0
      BY <1>2, <2>2 DEF Amid
    <3> QED BY <1>4, <1>5, <1>6, <2>2, <3>1 DEF Once
  <2>3. CASE m = n /\ stage[c] = "deed.mark"
    BY <1>2, <1>4, <1>5, <1>6, <2>3 DEF Amid
  <2> QED BY <1>1, <2>1, <2>2, <2>3
<1>9. CASE stage[c] = "deed.create"
  <2>1. StatusBySales(p)' = StatusBySales(p)
    <3>1. \A m \in SalesOf(p) : sales'[m].status = sales[m].status
      BY <1>2, <1>4, <1>5, <1>9 DEF SalesOf
    <3> QED BY <1>7, <3>1 DEF StatusBySales
  <2>2. PlotSays(p)'
    BY <1>1, <1>9, <2>1 DEF Amid, PlotSays
  <2>3. sales'[n].status = "DRAFT" /\ stage'[c] = "deed.mark"
    BY <1>4, <1>5, <1>6, <1>9
  <2> QED BY <1>5, <1>6, <1>7, <1>8, <2>2, <2>3 DEF Amid
<1>10. CASE stage[c] = "deed.mark"
  <2>1. sales'[n].status = "DEED_CREATED" /\ stage'[c] = "deed.sold"
    BY <1>4, <1>5, <1>6, <1>10
  <2> QED BY <1>5, <1>6, <1>7, <1>8, <2>1 DEF Amid, Relying, Making
<1> QED BY <1>1, <1>9, <1>10

(* The plot's only sale cancelled leaves none; one cancelled before leaves *)
(* everything as it was.                                                   *)
LEMMA CancelAmid ==
  ASSUME SaleInv, NEW c \in Callers, NEW p \in Plots, p = held[c].plot,
         Amid(p, stage[c], held[c]), CancelSave(c)
  PROVE  Amid(p, stage[c], held[c])'
<1> DEFINE n == held[c].sale
<1> DEFINE row == [sales[n] EXCEPT !.status = "CANCELLED"]
<1>1. /\ stage[c] = "cancel.save" /\ GoOn(c, "cancel.count", held[c])
      /\ sales' = [sales EXCEPT ![n] = row] /\ UNCHANGED <<plots, imported>>
  BY DEF CancelSave, Reached, SetSale
<1>2. Len(sales) \in Nat /\ n \in 1..Len(sales) /\ sales[n].plot = p
  BY <1>1, SaleHeld
<1>3. /\ row \in SaleRows /\ row.plot = p /\ row.status = "CANCELLED"
      /\ row.deeds = sales[n].deeds
  BY <1>2, Rows DEF SaleInv, SaleRows
<1> HIDE DEF row
<1>4. /\ Len(sales') = Len(sales) /\ sales'[n] = row
      /\ \A m \in 1..Len(sales) \ {n} : sales'[m] = sales[m]
  BY <1>1, <1>2, <1>3, RowWritten DEF SaleInv
<1>5. stage'[c] = "cancel.count" /\ held'[c] = held[c]
  BY <1>1, OneMoves DEF SaleInv
<1>6. SalesOf(p)' = SalesOf(p) \ {n}
  BY <1>2, <1>3, <1>4 DEF SalesOf
<1>7. \A m \in 1..Len(sales) : sales'[m].plot = p =>
        sales'[m].deeds <= 1 /\ ~(sales'[m].status = "DRAFT" /\ sales'[m].deeds # 0)
  BY <1>1, <1>2, <1>3, <1>4 DEF Amid
<1>8. CASE n \in SalesOf(p)
  <2>1. SalesOf(p)' = {}
    BY <1>6, <1>8 DEF Amid
  <2> QED BY <1>4, <1>5, <1>7, <2>1 DEF Amid, Relying, Making
<1>9. CASE n \notin SalesOf(p)
  <2>1. SalesOf(p)' = SalesOf(p) /\ \A m \in SalesOf(p) : sales'[m] = sales[m]
    BY <1>4, <1>6, <1>9 DEF SalesOf
  <2>2. StatusBySales(p)' = StatusBySales(p)
    BY <2>1 DEF StatusBySales
  <2>3. PlotSays(p)'
    BY <1>1, <2>2 DEF Amid, PlotSays
  <2> QED BY <1>4, <1>5, <1>7, <2>1, <2>3 DEF Amid, Relying, Making
<1> QED BY <1>8, <1>9

-----------------------------------------------------------------------------
(* A call that begins, when it is the only one; one that fails leaves its  *)
(* plot uneven.                                                            *)
LEMMA BeginTidy ==
  ASSUME MaxSales \in Nat, Plots # {}, SaleInv, NEW c \in Callers, NEW kind \in SaleKinds,
         NEW q \in Plots, NEW n \in 0..MaxSales, BeginSale(c, kind, q, n),
         NEW p \in Plots, p \notin uneven', Tidy(p)
  PROVE  Tidy(p)'
<1> DEFINE l == [NoHolding EXCEPT !.kind = kind, !.plot = q, !.sale = n]
<1>1. NoHolding \in Holdings /\ Len(sales) \in Nat
  BY NothingHeldFits DEF SaleInv, SaleTypeOK
<1>2. l.plot = q /\ l.sale = n /\ l.kind = kind
  <2> HIDE DEF NoHolding
  <2> QED BY <1>1 DEF Holdings
<1>3. /\ stage[c] = "idle" /\ GoOn(c, FirstPoint(kind), l)
      /\ UNCHANGED <<plots, sales, imported>>
  BY DEF BeginSale, Reached, register
<1> HIDE DEF l
<1>4. /\ stage'[c] = FirstPoint(kind) /\ held'[c] = l
      /\ \A o \in Callers \ {c} : stage'[o] = stage[o] /\ held'[o] = held[o]
  BY <1>3, OneMoves DEF SaleInv
<1>5. CASE p # q
  <2>1. UnderWay(p)' = UnderWay(p) /\ c \notin UnderWay(p)
    BY <1>2, <1>3, <1>4, <1>5 DEF UnderWay
  <2>2. Apart(p)
    BY <1>1, <1>3, <1>4, <2>1 DEF Apart, UnderWay
  <2> QED BY <2>2, ApartKeeps
<1>6. CASE p = q
  <2>1. UnderWay(p) = {}
    BY <1>6 DEF BeginSale
  <2>2. Amid(p, "idle", NoHolding)
    BY <2>1 DEF Tidy
  <2>3. /\ FirstPoint(kind) \in {"checks.plot", "text.plot", "paper.plot", "sale.read"}
        /\ FirstPoint(kind) = "checks.plot" => n = 0
    BY DEF FirstPoint, SaleKinds, BeginSale
  <2>4. UnderWay(p)' = {c}
    BY <1>2, <1>4, <1>6, <2>1, <2>3 DEF UnderWay
  <2>5. PlotSays(p)' /\ SalesOf(p)' = SalesOf(p)
    BY <1>3, <2>2 DEF Amid, PlotSays, StatusBySales, SalesOf
  <2>6. Amid(p, stage[c], held[c])'
    BY <1>2, <1>3, <1>4, <2>2, <2>3, <2>5 DEF Amid, Relying, Making
  <2> QED BY <2>4, <2>6 DEF Tidy
<1> QED BY <1>5, <1>6

LEMMA FailTidy ==
  ASSUME SaleInv, NEW c \in Callers, FailSale(c), NEW p \in Plots, p \notin uneven', Tidy(p)
  PROVE  Tidy(p)'
<1>1. p # held[c].plot /\ UNCHANGED <<plots, sales, imported>> /\ Len(sales) \in Nat
  BY DEF FailSale, register, SaleInv, SaleTypeOK
<1>2. /\ stage'[c] = "idle"
      /\ \A o \in Callers \ {c} : stage'[o] = stage[o] /\ held'[o] = held[o]
  BY OneMoves DEF FailSale, EndCall, SaleInv
<1>3. UnderWay(p)' = UnderWay(p) /\ c \notin UnderWay(p)
  BY <1>1, <1>2 DEF UnderWay
<1>4. Apart(p)
  BY <1>1, <1>2, <1>3 DEF Apart, UnderWay
<1> QED BY <1>4, ApartKeeps

LEMMA ImportTidy ==
  ASSUME SaleInv, NEW q \in Plots, ImportSold(q), NEW p \in Plots, Tidy(p)
  PROVE  Tidy(p)'
<1>1. UNCHANGED <<sales, stage, held>> /\ Len(sales) \in Nat
  BY DEF ImportSold, SaleInv, SaleTypeOK
<1>2. /\ imported \subseteq imported'
      /\ plots'[p] = plots[p] \/ (plots'[p] = "SOLD" /\ p \in imported')
  BY DEF ImportSold, SaleInv, SaleTypeOK
<1>3. Apart(p)
  BY <1>1, <1>2 DEF Apart, UnderWay
<1> QED BY <1>3, ApartKeeps

LEMMA CallTidy ==
  ASSUME MaxSales \in Nat, SaleInv, NEW c \in Callers, CallStep(c), NEW p \in Plots, Tidy(p)
  PROVE  Tidy(p)'
<1>1. CASE p # held[c].plot
  BY <1>1, OthersApart, ApartKeeps
<1>2. CASE p = held[c].plot
  <2>1. /\ stage[c] # "idle"
        /\ stage'[c] = "idle" \/ held'[c].plot = p
        /\ \A o \in Callers \ {c} : stage'[o] = stage[o] /\ held'[o] = held[o]
    BY <1>2, StaysWithPlot
  <2>2. c \in UnderWay(p)
    BY <1>2, <2>1, StaysWithPlot DEF UnderWay
  <2>3. UnderWay(p) = {c} /\ Amid(p, stage[c], held[c])
    BY <2>2 DEF Tidy
  <2>4. Amid(p, stage[c], held[c])'
    BY <1>2, <2>3, ReadsAmid, WritesPlotAmid, CreateAmid, DeedAmid, CancelAmid DEF CallStep
  <2>5. stage'[c] = "idle" => held'[c] = NoHolding
    <3>1. EndCall(c) \/ \E point \in SalePoints \ {"idle"} : \E l : GoOn(c, point, l)
      BY DEF CallStep, TextPlot, PaperPlot, PaperExisting, ReadSale, ChecksPlot, ChecksOther,
        NextNumber, CancelCount, Drafted, DeedSold, CancelFree, CreateSale, DeedCreate,
        DeedMark, CancelSave, SalePoints
    <3> QED BY <3>1, OneMoves DEF EndCall, SaleInv
  <2> QED BY <1>2, <2>1, <2>3, <2>4, <2>5, OwnPlot DEF SaleInv
<1> QED BY <1>1, <1>2

LEMMA RegisterStart == ASSUME Plots # {} PROVE SaleInit => Register
<1> SUFFICES ASSUME SaleInit, NEW p \in Plots PROVE Tidy(p)
  BY DEF Register
<1>1. UnderWay(p) = {} /\ SalesOf(p) = {} /\ Len(sales) = 0
  BY DEF SaleInit, UnderWay, SalesOf
<1>2. PlotSays(p)
  BY <1>1 DEF SaleInit, PlotSays, StatusBySales
<1> QED BY <1>1, <1>2 DEF Tidy, Amid, Relying, Making

(* Every step keeps the plots tidy that were, and that it does not leave   *)
(* uneven.                                                                 *)
LEMMA RegisterKept ==
  ASSUME MaxSales \in Nat, Plots # {}
  PROVE  SaleInv /\ Register /\ [SaleNext]_saleVars => Register'
<1> SUFFICES ASSUME SaleInv, Register, [SaleNext]_saleVars, NEW p \in Plots, p \notin uneven'
             PROVE  Tidy(p)'
  BY DEF Register
<1>1. uneven \subseteq uneven'
  BY DEF SaleNext, BeginSale, FailSale, ImportSold, TextPlot, PaperPlot, PaperExisting, ReadSale,
    ChecksPlot, ChecksOther, NextNumber, CancelCount, Drafted, DeedSold, CancelFree, CreateSale,
    DeedCreate, DeedMark, CancelSave, Reading, SetPlot, SetSale, saleVars
<1>2. Tidy(p)
  BY <1>1 DEF Register
<1>3. CASE UNCHANGED saleVars
  BY SMTT(30), <1>2, <1>3 DEF saleVars, Tidy, UnderWay, Amid, PlotSays, StatusBySales, SalesOf
<1>4. ASSUME NEW q \in Plots, ImportSold(q) PROVE Tidy(p)'
  BY <1>2, <1>4, ImportTidy
<1>5. ASSUME NEW c \in Callers, NEW kind \in SaleKinds, NEW q \in Plots, NEW n \in 0..MaxSales,
             BeginSale(c, kind, q, n)
      PROVE  Tidy(p)'
  BY <1>2, <1>5, BeginTidy
<1>6. ASSUME NEW c \in Callers, FailSale(c) PROVE Tidy(p)'
  BY <1>2, <1>6, FailTidy
<1>7. ASSUME NEW c \in Callers, CallStep(c) PROVE Tidy(p)'
  BY <1>2, <1>7, CallTidy
<1> QED BY <1>3, <1>4, <1>5, <1>6, <1>7 DEF SaleNext, CallStep

(* When the calls about a plot come one after another and to their end,    *)
(* its status says what its sales say, or SOLD after an import, and there  *)
(* is one sale and one deed at most (createSale, makeDeed, cancelSale,     *)
(* importSoldPlots), whatever happens to the other plots.                  *)
THEOREM RegisterStaysInStep ==
  ASSUME MaxSales \in Nat, Plots # {}
  PROVE  SaleSpec => []RegisterAgrees
<1>1. Register => RegisterAgrees
  BY DEF Register, Tidy, Amid, PlotSays, RegisterAgrees
<1> QED BY <1>1, SalesStart, SalesKept, RegisterStart, RegisterKept, PTL DEF SaleSpec
=============================================================================
