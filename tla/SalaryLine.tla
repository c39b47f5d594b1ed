----------------------------- MODULE SalaryLine -----------------------------
(***************************************************************************)
(* One employee's line of the salary sheet (salaryLine in                  *)
(* attendance-rules): the days of the month are counted one after the      *)
(* other, and the pay follows from the counts. Parts of a day are counted  *)
(* in hundredths, to which the code rounds them.                           *)
(***************************************************************************)
EXTENDS Integers

CONSTANTS
  Salaries,   \* monthly salaries, in rupees
  Quotas,     \* paidLeavePerMonth settings, in hundredths of a day
  LateRates,  \* lateDeductionDay settings, in hundredths of a day
  Extras,     \* bonuses, advances and other deductions
  MaxDays     \* bound: days of the month

VARIABLES
  terms,   \* what the line is computed with, besides the days
  counted  \* the counters of the loop over the days

lineVars == <<terms, counted>>

Statuses ==
  {"present", "late", "halfDay", "leave", "halfLeave", "field", "absent", "future",
   "off", "holiday"}
Closed == {"off", "holiday"}

Terms ==
  [monthly : Salaries, quota : Quotas, lateRate : LateRates,
   bonus : Extras, advance : Extras, other : Extras]

Counts ==
  [total : Nat, off : Nat, present : Nat, half : Nat, late : Nat, leave : Nat,
   absent : Nat, preJoin : Nat]

NoDays ==
  [total |-> 0, off |-> 0, present |-> 0, half |-> 0, late |-> 0, leave |-> 0,
   absent |-> 0, preJoin |-> 0]

LineInit == terms \in Terms /\ counted = NoDays

-----------------------------------------------------------------------------

(* What a day adds to the counters. *)
OneDay(n) == [n EXCEPT !.total = @ + 1]
Worked(n, part) == [n EXCEPT !.present = @ + part]
OnLeave(n, part) == [n EXCEPT !.leave = @ + part]
Off(n) == [n EXCEPT !.off = @ + 1]
Late(n) == [n EXCEPT !.late = @ + 1]
Half(n) == [n EXCEPT !.half = @ + 1]
Absent(n) == [n EXCEPT !.absent = @ + 1]
Early(n) == [n EXCEPT !.preJoin = @ + 1]

(* Faulty variant: of half a day's leave the other half is not counted. *)
HalfLeaveOnly(n) == OnLeave(n, 50)

HalfLeave(n) == OnLeave(Worked(n, 50), 50)

(* One round of the loop: a day with this status, since the start date. *)
WithDay(n, status) ==
  CASE status \in Closed -> Off(OneDay(n))
    [] status \in {"present", "field", "future"} -> Worked(OneDay(n), 100)
    [] status = "late" -> Late(Worked(OneDay(n), 100))
    [] status = "halfDay" -> Half(Worked(OneDay(n), 50))
    [] status = "leave" -> OnLeave(OneDay(n), 100)
    [] status = "halfLeave" -> HalfLeave(OneDay(n))
    [] status = "absent" -> Absent(OneDay(n))

(* A working day before the start date. *)
WithEarlyDay(n) == Early(OneDay(n))

Started(n) == n.total > n.off + n.preJoin

Day(status) ==
  /\ counted.total < MaxDays
  /\ counted' = WithDay(counted, status)
  /\ UNCHANGED terms

DayBeforeStart ==
  /\ counted.total < MaxDays /\ ~Started(counted)
  /\ counted' = WithEarlyDay(counted)
  /\ UNCHANGED terms

LineNext == DayBeforeStart \/ \E status \in Statuses : Day(status)

LineSpec == LineInit /\ [][LineNext]_lineVars

-----------------------------------------------------------------------------
(* What follows from the counts.                                           *)

Least(a, b) == IF a < b THEN a ELSE b
Most(a, b) == IF a > b THEN a ELSE b

WorkingDays(n) == n.total - n.off
PaidLeave(n, t) == Least(n.leave, t.quota)

(* Faulty variant: leave costs what is over the quota, and absence nothing. *)
LeaveOnly(n, t) == n.leave - PaidLeave(n, t)

(* Leave over the quota, absence, and days before the start. *)
UnpaidDays(n, t) ==
  n.leave - PaidLeave(n, t) + 100 * n.absent + 50 * n.half + n.late * t.lateRate
    + 100 * n.preJoin

(* Math.round(unpaidDays * monthly / workingDays), 0 without a working day. *)
Deduction(n, t) ==
  IF WorkingDays(n) = 0 THEN 0
  ELSE (2 * UnpaidDays(n, t) * t.monthly + 100 * WorkingDays(n))
         \div (200 * WorkingDays(n))

Payable(n, t) ==
  Most(0, t.monthly - Deduction(n, t) + t.bonus - t.advance - t.other)

-----------------------------------------------------------------------------

LineTypeOK == terms \in Terms /\ counted \in Counts

(* Every working day is accounted for, once: at work, on leave, absent or  *)
(* not employed yet, in whole or in halves.                                *)
Account(n) ==
  n.present + n.leave + 50 * n.half + 100 * n.absent + 100 * n.preJoin

DaysAccounted == 100 * WorkingDays(counted) = Account(counted)

(* So the pay is right: nothing is paid beyond the salary and the bonus,   *)
(* whatever is deducted, and who missed nothing gets them in full but for  *)
(* the advance and the other deduction.                                    *)
PayInRange ==
  /\ Payable(counted, terms) \in 0..(terms.monthly + terms.bonus)
  /\ UnpaidDays(counted, terms) = 0 =>
       Payable(counted, terms) =
         Most(0, terms.monthly + terms.bonus - terms.advance - terms.other)

PayRight == DaysAccounted /\ PayInRange

(* Which day is never worth less than which: coming beats absence, also    *)
(* late or for half the day, and so does asking for leave.                 *)
WorthMore ==
  {<<"absent", s>> : s \in {"late", "halfDay", "leave", "halfLeave"}} \union
  {<<s, "present">> : s \in {"absent", "late", "halfDay", "leave", "halfLeave"}}

(* One day less of the worse kind and one more of the better kind never    *)
(* lowers the pay of a month, which has other days besides.                *)
BetterDayNeverCosts ==
  counted.total > 0 => \A pair \in WorthMore :
    Payable(WithDay(counted, pair[1]), terms) <= Payable(WithDay(counted, pair[2]), terms)
=============================================================================
