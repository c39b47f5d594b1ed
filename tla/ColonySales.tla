----------------------------- MODULE ColonySales -----------------------------
(***************************************************************************)
(* The sales of a colony project (colony.service): a sale is entered on    *)
(* the web, from a sheet, by a company's text or its paper, its deed is    *)
(* made from the project's text, and it can be cancelled.  Whether a plot  *)
(* is free is kept twice: in the plot's status and in the sales that name  *)
(* it.  No call locks anything or runs in a transaction: a step is one     *)
(* database statement, calls interleave, and any of them can fail midway.  *)
(***************************************************************************)
EXTENDS Naturals, Sequences

CONSTANTS
  Plots,    \* plots of the project's master
  Callers,    \* slots for the staff's requests and the company's messages
  MaxSales  \* bound: sales entered

VARIABLES
  plots,       \* plot -> its status
  sales,       \* the ColonySale rows by number, and how many deeds each got
  stage, held,   \* call -> its next statement, and what it holds
  imported,    \* plots an import marked SOLD
  old,         \* those of which no sale was recorded or under way
  uneven,      \* plots whose calls overlapped or failed midway
  interrupted, \* plots of which a sale was cancelled amid another call
  rushed       \* plots with two calls that may make a deed at once, or one that
               \* failed between a deed and its sale

saleVars == <<plots, sales, stage, held, imported, old, uneven, interrupted, rushed>>

PlotStatuses == {"AVAILABLE", "DRAFTED", "SOLD"}
SaleRows ==
  [plot : Plots, status : {"DRAFT", "DEED_CREATED", "CANCELLED"}, deeds : 0..2]
SaleKinds == {"enter", "text", "paper", "deed", "cancel"}
DeedKinds == {"paper", "deed"}   \* those that may make a deed
SalePoints ==
  {"idle", "text.plot", "paper.plot", "paper.existing", "sale.read", "checks.plot",
   "checks.other", "number", "create", "drafted", "deed.create", "deed.mark",
   "deed.sold", "cancel.save", "cancel.count", "cancel.free"}
Holdings ==
  [kind : SaleKinds, plot : Plots, sale : 0..MaxSales, number : 0..(MaxSales + 1),
   sold : BOOLEAN]
NoHolding ==
  [kind |-> "enter", plot |-> CHOOSE p \in Plots : TRUE, sale |-> 0, number |-> 0,
   sold |-> FALSE]

SaleInit ==
  /\ plots = [p \in Plots |-> "AVAILABLE"] /\ sales = <<>>
  /\ stage = [c \in Callers |-> "idle"] /\ held = [c \in Callers |-> NoHolding]
  /\ imported = {} /\ old = {} /\ uneven = {} /\ interrupted = {} /\ rushed = {}

-----------------------------------------------------------------------------

Reached(c, point) == stage[c] = point
GoOn(c, point, l) == stage' = [stage EXCEPT ![c] = point] /\ held' = [held EXCEPT ![c] = l]
EndCall(c) == GoOn(c, "idle", NoHolding)
register == <<plots, sales, imported, old>>
Reading == UNCHANGED <<register, uneven, interrupted, rushed>>

UnderWay(p) == {c \in Callers : stage[c] # "idle" /\ held[c].plot = p}
ForDeed(p) == {c \in UnderWay(p) : held[c].kind \in DeedKinds}

(* The sales of a plot that were not cancelled. *)
SalesOf(p) == {n \in 1..Len(sales) : sales[n].plot = p /\ sales[n].status # "CANCELLED"}

(* Where a call begins once it has read the project. *)
FirstPoint(kind) ==
  CASE kind = "enter" -> "checks.plot"
    [] kind = "text" -> "text.plot"
    [] kind = "paper" -> "paper.plot"
    [] OTHER -> "sale.read"

(* A call about a plot, or about sale n of it. *)
BeginSale(c, kind, p, n) ==
  /\ Reached(c, "idle")
  /\ IF kind \in {"enter", "text", "paper"} THEN n = 0 ELSE n \in 1..Len(sales) /\ sales[n].plot = p
  /\ GoOn(c, FirstPoint(kind), [NoHolding EXCEPT !.kind = kind, !.plot = p, !.sale = n])
  /\ uneven' = IF UnderWay(p) # {} THEN uneven \union {p} ELSE uneven
  /\ rushed' = IF kind \in DeedKinds /\ ForDeed(p) # {} THEN rushed \union {p} ELSE rushed
  /\ UNCHANGED <<register, interrupted>>

(* The request fails, or the server restarts. *)
FailSale(c) ==
  /\ ~Reached(c, "idle")
  /\ EndCall(c)
  /\ uneven' = uneven \union {held[c].plot}
  /\ rushed' = IF Reached(c, "deed.mark") THEN rushed \union {held[c].plot} ELSE rushed
  /\ UNCHANGED <<register, interrupted>>

(* importSoldPlots: SOLD, whatever is known of the plot. *)
ImportSold(p) ==
  /\ plots' = [plots EXCEPT ![p] = "SOLD"]
  /\ imported' = imported \union {p}
  /\ old' = IF UnderWay(p) = {} /\ \A n \in 1..Len(sales) : sales[n].plot # p
            THEN old \union {p} ELSE old
  /\ UNCHANGED <<sales, stage, held, uneven, interrupted, rushed>>

-----------------------------------------------------------------------------
(* handleCompany: a sale written as text wants a plot that is free. *)
TextPlot(c) ==
  /\ Reached(c, "text.plot")
  /\ IF plots[held[c].plot] = "AVAILABLE" THEN GoOn(c, "number", held[c]) ELSE EndCall(c)
  /\ Reading

(* handleCompanyFile reads the plot ... *)
PaperPlot(c) ==
  /\ Reached(c, "paper.plot")
  /\ GoOn(c, "paper.existing", [held[c] EXCEPT !.sold = plots[held[c].plot] = "SOLD"])
  /\ Reading

BlockedByOldSale(c) == held[c].sold

(* ... and the last sale of it: a draft is filled in, a deed stands in the *)
(* way, and so does an old sale when there is no draft. *)
PaperExisting(c) ==
  LET mine == SalesOf(held[c].plot)
      l == [held[c] EXCEPT !.sold = FALSE]
  IN
  /\ Reached(c, "paper.existing")
  /\ \/ mine = {} /\ BlockedByOldSale(c) /\ EndCall(c)
     \/ mine = {} /\ ~BlockedByOldSale(c) /\ GoOn(c, "number", l)
     \/ \E last \in mine :
          /\ \A n \in mine : n <= last
          /\ IF sales[last].status = "DEED_CREATED" THEN EndCall(c)
             ELSE GoOn(c, "drafted", [l EXCEPT !.sale = last])
  /\ Reading

(* createDeed and companyFinish want a draft; cancelSale takes any sale,   *)
(* one with a deed only from a manager.                                    *)
ReadSale(c) ==
  LET status == sales[held[c].sale].status IN
  /\ Reached(c, "sale.read")
  /\ \/ held[c].kind = "cancel" /\ GoOn(c, "cancel.save", held[c])
     \/ held[c].kind = "cancel" /\ status = "DEED_CREATED" /\ EndCall(c)
     \/ held[c].kind = "deed" /\ status = "DRAFT" /\ GoOn(c, "checks.plot", held[c])
     \/ held[c].kind = "deed" /\ status # "DRAFT" /\ EndCall(c)
  /\ Reading

(* checksFor: is the plot sold ... *)
ChecksPlot(c) ==
  /\ Reached(c, "checks.plot")
  /\ GoOn(c, "checks.other", [held[c] EXCEPT !.sold = plots[held[c].plot] = "SOLD"])
  /\ Reading

(* Faulty variant: a deed's check trusts the plot's status. *)
OnlyStatus(c) == held[c].sold
DoubleSale(c) == held[c].sold \/ SalesOf(held[c].plot) \ {held[c].sale} # {}

(* ... or another sale of it recorded?  A new sale then gets its number; a *)
(* recorded one its deed, unless the project is not live or something else *)
(* of the sale is missing.                                                 *)
ChecksOther(c) ==
  LET l == [held[c] EXCEPT !.sold = FALSE] IN
  /\ Reached(c, "checks.other")
  /\ \/ DoubleSale(c) /\ EndCall(c)
     \/ ~DoubleSale(c) /\ l.kind = "enter" /\ GoOn(c, "number", l)
     \/ ~DoubleSale(c) /\ l.kind # "enter" /\ GoOn(c, "deed.create", l)
     \/ l.kind # "enter" /\ EndCall(c)
  /\ Reading

-----------------------------------------------------------------------------
(* nextNumber. *)
NextNumber(c) ==
  /\ Reached(c, "number")
  /\ GoOn(c, "create", [held[c] EXCEPT !.number = Len(sales) + 1])
  /\ Reading

(* The sale, unless its number was taken meanwhile. *)
CreateSale(c) ==
  /\ Reached(c, "create")
  /\ Len(sales) < MaxSales
  /\ IF held[c].number = Len(sales) + 1
     THEN /\ sales' = Append(sales, [plot |-> held[c].plot, status |-> "DRAFT", deeds |-> 0])
          /\ GoOn(c, "drafted", [held[c] EXCEPT !.sale = Len(sales) + 1, !.number = 0])
     ELSE EndCall(c) /\ UNCHANGED sales
  /\ UNCHANGED <<plots, imported, old, uneven, interrupted, rushed>>

SetPlot(c, status) ==
  /\ plots' = [plots EXCEPT ![held[c].plot] = status]
  /\ UNCHANGED <<sales, imported, old, uneven, interrupted, rushed>>

(* The plot is spoken for; a paper with nothing missing goes on to the deed. *)
Drafted(c) ==
  /\ Reached(c, "drafted")
  /\ SetPlot(c, "DRAFTED")
  /\ \/ EndCall(c)
     \/ held[c].kind = "paper" /\ GoOn(c, "checks.plot", held[c])

SetSale(c, row) ==
  /\ sales' = [sales EXCEPT ![held[c].sale] = row]
  /\ UNCHANGED <<plots, imported, old, uneven, rushed>>

Once(deeds) == IF deeds < 2 THEN deeds + 1 ELSE 2

(* makeDeed: the deed, ... *)
DeedCreate(c) ==
  LET row == sales[held[c].sale] IN
  /\ Reached(c, "deed.create")
  /\ SetSale(c, [row EXCEPT !.deeds = Once(@)]) /\ UNCHANGED interrupted
  /\ GoOn(c, "deed.mark", held[c])

(* ... its sale, ... *)
DeedMark(c) ==
  LET row == sales[held[c].sale] IN
  /\ Reached(c, "deed.mark")
  /\ SetSale(c, [row EXCEPT !.status = "DEED_CREATED"]) /\ UNCHANGED interrupted
  /\ GoOn(c, "deed.sold", held[c])

(* ... and the plot. *)
DeedSold(c) == Reached(c, "deed.sold") /\ SetPlot(c, "SOLD") /\ EndCall(c)

CancelSave(c) ==
  LET p == held[c].plot IN
  /\ Reached(c, "cancel.save")
  /\ SetSale(c, [sales[held[c].sale] EXCEPT !.status = "CANCELLED"])
  /\ interrupted' = IF UnderWay(p) # {c} THEN interrupted \union {p} ELSE interrupted
  /\ GoOn(c, "cancel.count", held[c])

(* Faulty variant: whoever else bought the plot, it is free again. *)
AlwaysFree(p) == TRUE
FreeAgain(p) == SalesOf(p) = {}

CancelCount(c) ==
  /\ Reached(c, "cancel.count")
  /\ IF FreeAgain(held[c].plot) THEN GoOn(c, "cancel.free", held[c]) ELSE EndCall(c)
  /\ Reading

CancelFree(c) == Reached(c, "cancel.free") /\ SetPlot(c, "AVAILABLE") /\ EndCall(c)

SaleNext ==
  \/ \E p \in Plots : ImportSold(p)
  \/ \E c \in Callers :
       \/ \E kind \in SaleKinds, p \in Plots, n \in 0..MaxSales : BeginSale(c, kind, p, n)
       \/ FailSale(c) \/ TextPlot(c) \/ PaperPlot(c) \/ PaperExisting(c) \/ ReadSale(c)
       \/ ChecksPlot(c) \/ ChecksOther(c) \/ NextNumber(c) \/ CreateSale(c) \/ Drafted(c)
       \/ DeedCreate(c) \/ DeedMark(c) \/ DeedSold(c)
       \/ CancelSave(c) \/ CancelCount(c) \/ CancelFree(c)

SaleSpec == SaleInit /\ [][SaleNext]_saleVars

-----------------------------------------------------------------------------
SaleTypeOK ==
  /\ plots \in [Plots -> PlotStatuses]
  /\ sales \in Seq(SaleRows) /\ Len(sales) <= MaxSales
  /\ stage \in [Callers -> SalePoints] /\ held \in [Callers -> Holdings]
  /\ imported \subseteq Plots /\ old \subseteq imported
  /\ uneven \subseteq Plots /\ interrupted \subseteq Plots /\ rushed \subseteq Plots

(* However calls overlap or fail, no plot has two sales with a deed, unless *)
(* a sale of it was cancelled amid another call about it (createDeed's      *)
(* checks look at the other sales, never at one transaction).               *)
OneSaleWithDeed ==
  \A m, n \in 1..Len(sales) :
    sales[m].status = "DEED_CREATED" /\ sales[n].status = "DEED_CREATED"
      /\ sales[m].plot = sales[n].plot /\ sales[m].plot \notin interrupted
    => m = n

(* No sale gets a second deed, unless two calls that may make one were at   *)
(* work on its plot at once or one failed between the deed and the sale's   *)
(* mark (createDeed wants a DRAFT, and makeDeed writes without a condition  *)
(* of its own); all other calls may overlap and fail as they like.          *)
OneDeedPerSale ==
  \A n \in 1..Len(sales) : sales[n].plot \notin rushed => sales[n].deeds <= 1

(* A plot imported as sold before any sale of it never gets one.           *)
OldSoldBlocks == \A n \in 1..Len(sales) : sales[n].plot \notin old

(* "A made deed or an old sold record blocks" (handleCompanyFile), and so   *)
(* do the checks of every other way to a sale and its deed, as far as the   *)
(* calls about the plot let them.                                           *)
SoldBlocks == OneSaleWithDeed /\ OneDeedPerSale /\ OldSoldBlocks

(* What the sales say of a plot. *)
StatusBySales(p) ==
  IF SalesOf(p) = {} THEN "AVAILABLE"
  ELSE IF \E n \in SalesOf(p) : sales[n].status = "DEED_CREATED" THEN "SOLD" ELSE "DRAFTED"

(* Between calls that neither overlapped nor failed, a plot has one sale at *)
(* most, each sale one deed at most, and the plot's status says what the    *)
(* sales say, or SOLD after an import (checksFor, handleCompany and the     *)
(* dashboard go by the status, the deed by the sales).                      *)
RegisterAgrees ==
  \A p \in Plots \ uneven :
    UnderWay(p) = {} =>
      /\ \A m, n \in SalesOf(p) : m = n
      /\ \A n \in 1..Len(sales) : sales[n].plot = p => sales[n].deeds <= 1
      /\ plots[p] \in {StatusBySales(p)} \union (IF p \in imported THEN {"SOLD"} ELSE {})
=============================================================================
