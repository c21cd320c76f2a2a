--------------------------- MODULE MCBookingMetrics ---------------------------
(* Small instances of BookingMetrics. *)
EXTENDS BookingMetrics, MCBooking

\* Two holds, and a rental that overlaps only one of them.
MCMetricOrders ==
    {request(car1, ann, "rental_hold", 2, 3, 2, NoKey),
     request(car1, bob, "rental", 3, 5, 2, NoKey)}
=============================================================================
