------------------------------ MODULE Percent -------------------------------
(***************************************************************************)
(* "part / whole * 100 <= limit", as row_delta, null_rate and              *)
(* sampled_checksum compute it.  The division and the product are binary   *)
(* floating point: nothing is lost when part is 0, and away from equality  *)
(* the rounding is far too small to matter, but at equality it may tip the *)
(* comparison (7 / 100 * 100 is greater than 7).                           *)
(***************************************************************************)
EXTENDS Integers

\* What the comparison may say: "ok" within the limit, "fail" beyond it.
WithinLimit(part, whole, limit) ==
    {s \in {"ok", "fail"} :
        IF s = "ok" THEN 100 * part <= limit * whole
        ELSE part > 0 /\ 100 * part >= limit * whole}
=============================================================================
