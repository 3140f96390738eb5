------------------------------- MODULE Config -------------------------------
(***************************************************************************)
(* The thresholds of config.py that the signal, universe, order and        *)
(* catalog modules read.  A ratio is a whole number of thousandths, so     *)
(* that 0.07 is 70; fees and slippage, which need more digits, are counted *)
(* in millionths.  A window, a count or a sum of money, which an instance  *)
(* scales down, is a CONSTANT of the source's name.                        *)
(***************************************************************************)
EXTENDS Integers

CONSTANTS
    Absent,  \* no row, or a field of one the feed left out
    MIN_HISTORY, ADV_WINDOW, ADV_FLOOR, ADV_TRACK_A, CORP_WINDOW, RECOVERY_WINDOW,
    IPO_BAND_DAYS,
    PHASE_MIN_BARS, PHASE_RANGE_LOOKBACK, PHASE_RANGE_MIN_BARS, EVENT_WINDOW, AR_SPAN,
    SMS_DIVERGENCE_WINDOW, SMS_BROKER_PERSIST_DAYS, SMS_BLOCK_VALUE,
    VETO_ROTATION_MIN_DAYS, VETO_FLIP_MIN_DAYS,
    DECAY_WINDOW, DECAY_FOREIGN_SELL_STREAK,
    OWNERSHIP_WINDOW_SLICES, OWNERSHIP_STALE_DAYS,
    VPA_CONTEXT_BARS, VPA_MIN_CONTEXT_BARS, VPA_TREND_BARS, VPA_RIBBON_BARS,
    VP_WINDOW_BARS, VP_MIN_BARS, VP_BUCKETS,
    CATALOG_MIN_N, CATALOG_HOLDOUT_START,
    SLIPPAGE_LARGE_ADV_IDR, SLIPPAGE_MID_ADV_IDR

ASSUME ConfigAssumption ==
    /\ Absent \notin Int
    /\ {MIN_HISTORY, ADV_WINDOW, IPO_BAND_DAYS, PHASE_MIN_BARS, PHASE_RANGE_LOOKBACK,
        PHASE_RANGE_MIN_BARS, EVENT_WINDOW, AR_SPAN, SMS_DIVERGENCE_WINDOW,
        SMS_BROKER_PERSIST_DAYS, SMS_BLOCK_VALUE, VETO_ROTATION_MIN_DAYS, VETO_FLIP_MIN_DAYS,
        DECAY_WINDOW, DECAY_FOREIGN_SELL_STREAK, OWNERSHIP_WINDOW_SLICES, VPA_CONTEXT_BARS,
        VPA_MIN_CONTEXT_BARS, VPA_TREND_BARS, VPA_RIBBON_BARS, VP_WINDOW_BARS, VP_MIN_BARS,
        VP_BUCKETS} \subseteq Nat \ {0}
    /\ {ADV_FLOOR, ADV_TRACK_A, CORP_WINDOW, RECOVERY_WINDOW, OWNERSHIP_STALE_DAYS,
        CATALOG_MIN_N, CATALOG_HOLDOUT_START,
        SLIPPAGE_LARGE_ADV_IDR, SLIPPAGE_MID_ADV_IDR} \subseteq Nat

-----------------------------------------------------------------------------
\* Universe gate and price bands
TRACK_A_INDEXES == {"LQ45", "IDX80"}
LISTED == "LISTED"
PRICE_FLOOR == 100
BAND_MAIN == 70
BAND_DEV_TIGHT == 100
BAND_DEV_WIDE == 250
DEV_TIGHT_PRICE == 5000
BAND_IPO == 350
PIN_EPSILON == 5

\* Wyckoff phase
PHASE_RANGE_MAX_WIDTH == 350
PHASE_SC_VOLUME_MULT == 2000
PHASE_SOS_VOLUME_MULT == 1500
PHASE_SPRING_PENETRATION == 20
PHASE_SPRING_MAX_VOLUME_MULT == 1500
PHASE_MARKUP_EXTENSION == 100

\* Smart Money Score: each candidate component is pinned at 0
SMS_WEIGHTS ==
    [ A |-> [ divergence |-> 30, broker_concentration |-> 20, foreign_flow |-> 25, rvol |-> 10,
              block_trade |-> 5, phase_bonus |-> 10,
              ownership_delta |-> 0, bar_character |-> 0, vp_confluence |-> 0 ],
      B |-> [ divergence |-> 30, broker_concentration |-> 35, foreign_flow |-> 0, rvol |-> 15,
              block_trade |-> 10, phase_bonus |-> 10,
              ownership_delta |-> 0, bar_character |-> 0, vp_confluence |-> 0 ] ]
SMS_ARMED_THRESHOLD == 70
SMS_DIVERGENCE_FLAT_PCT == 5
SMS_DIVERGENCE_CORR_MAX == 300
SMS_DIVERGENCE_HIVOL_MULT == 1500
SMS_FOREIGN_SPIKE_MULT == 2000
SMS_RVOL_MULT == 3000
SMS_BLOCK_ADV_PCT == 10

\* Vetoes and decay
VETO_MONOPOLY_SHARE == 600
VETO_RETAIL_FOMO_SHARE == 600
VETO_MARKUP_PRICE_PCT == 30
VETO_MARKUP_THIN_RVOL == 1000
VETO_WASH_RATIO == 700
VETO_DIST_CLOSE_POSITION == 500
DECAY_DIVERGENCE_MIN_PRICE_RISE == 30
DECAY_NO_DEMAND_SPREAD_MULT == 1000

\* Ownership, in tenths of a percentage point
OWNERSHIP_MATERIAL_PP == 5
OWNERSHIP_MARKUP_PCT == -20
OWNERSHIP_FULL_CREDIT_PP == 20

\* Bar character and volume profile
VPA_HIGH_VOL_MULT == 1500
VPA_LOW_VOL_MULT == 700
VPA_NARROW_SPREAD_MULT == 700
VPA_WIDE_SPREAD_MULT == 1300
VPA_CLOSE_HIGH == 660
VPA_CLOSE_LOW == 340
VPA_TREND_PCT == 20
VPA_FULL_CREDIT_BARS == 3
VP_VALUE_AREA_PCT == 700
VP_HVN_MULT == 1500
VP_LVN_MULT == 400
VP_CONFLUENCE_BUCKETS == 1
VP_FULL_CREDIT_CONFLUENCES == 2

\* Orders and fills
RR_MIN == 2
STOP_BUFFER == 5
LIMIT_UNDERCUT == 0
TARGET_MEASURED_MOVE_MULT == 1
FAST_MODE_LIMIT_PREMIUM == 5
RISK_PCT == 10
LOT_SIZE == 100
CONVICTION == [COMPOUNDER |-> 1000, NEUTRAL |-> 750, SPECULATIVE |-> 500, FLOW_ONLY |-> 750]
TRAIL == [COMPOUNDER |-> 150, NEUTRAL |-> 100, SPECULATIVE |-> 60, FLOW_ONLY |-> 60]
TICK_BANDS == {<<0, 1>>, <<200, 2>>, <<500, 5>>, <<2000, 10>>, <<5000, 25>>}
EXPOSURE_CAP_NAME == 100
EXPOSURE_CAP_SECTOR == 300
EXPOSURE_WARN_NAME == 85
EXPOSURE_WARN_SECTOR == 250
CROWDING_CORR_THRESHOLD == 7  \* in tenths
DTE_PARTICIPATION == 200
STRESS_IHSG_GAP == -50
STRESS_FOREIGN_EXODUS == -30
STRESS_RUPIAH_SHOCK == -40
FEE_COMMISSION == [BUY |-> 1500, SELL |-> 2500]
FEE_LEVY == 430
FEE_VAT == 110  \* of the commission, in thousandths
FEE_SELL_TAX == 1000
SLIPPAGE == [LARGE |-> 1000, MID |-> 3500, SMALL |-> 12000]
SETTLEMENT_DAYS == 2
PAPER_VALIDATION_MONTHS == 3
=============================================================================
