------------------------------- MODULE Bands -------------------------------
(***************************************************************************)
(* The auto-reject bands of universe/bands.py: how far a price may move    *)
(* from the previous close, and whether it stands at the edge.             *)
(***************************************************************************)
EXTENDS Config

Abs(n) == IF n < 0 THEN -n ELSE n

\* by board, price and age: a new listing moves within its own band
BandPct(board, prev, ipo) ==
    IF ipo # Absent /\ ipo <= IPO_BAND_DAYS THEN BAND_IPO
    ELSE IF board = "DEVELOPMENT" THEN (IF prev >= DEV_TIGHT_PRICE THEN BAND_DEV_TIGHT ELSE BAND_DEV_WIDE)
    ELSE BAND_MAIN

\* check_pinned: at the edge within PIN_EPSILON, and at which one
Pinned(price, prev, board, ipo) ==
    IF prev <= 0 \/ 1000 * Abs(price - prev) < (BandPct(board, prev, ipo) - PIN_EPSILON) * prev THEN "FREE"
    ELSE IF price > prev THEN "PINNED_ARA" ELSE "PINNED_ARB"
=============================================================================
