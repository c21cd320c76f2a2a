---------------------------- MODULE BookingMetrics ----------------------------
(***************************************************************************)
(* Booking with the counter carshare_holds_expired_total of                *)
(* internal/metrics/metrics.go, which OrderCar adds to as soon as the      *)
(* DELETE of expired holds has run, before its transaction commits.        *)
(***************************************************************************)
EXTENDS Booking

CONSTANT MaxCount  \* bound on the counter

VARIABLE holdsExpired

\* The orderer whose DELETE this step is, with the rows it affected.
Reaped == UNION {order'[p].locked : p \in {q \in Orderers :
                    order[q].pc = "reap" /\ order'[q].pc = "check"}}

\* metrics.HoldsExpiredTotal.Add(float64(reaped.RowsAffected()))
Count == holdsExpired' = holdsExpired + Cardinality(Reaped)

MetricsInit == Init /\ holdsExpired = 0

MetricsNext == Next /\ Count /\ holdsExpired' <= MaxCount

MetricsSpec == MetricsInit /\ [][MetricsNext]_<<vars, holdsExpired>>

Deleted == {r \in ResIds : resv[r].status = "reaped"}

\* metrics.go:34: "HoldsExpiredTotal counts expired holds reaped by later booking
\* attempts", with the help text "Expired rental holds deleted to make room for
\* new bookings."  So it never exceeds the holds deleted, plus those an open
\* transaction is deleting.
OnlyDeletedAreCounted ==
    holdsExpired <= Cardinality(Deleted) +
        Cardinality(UNION {order[p].locked : p \in Orderers})
=============================================================================
