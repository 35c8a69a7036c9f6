-------------------------------- MODULE Ads --------------------------------
(***************************************************************************)
(* services/ad_service.py: one preloaded interstitial, shown at natural    *)
(* breaks and replaced when used; and a queue of one for a break that      *)
(* finds none ready.  The handlers of an ad write the shared flags         *)
(* whichever ad is the current one.                                        *)
(***************************************************************************)
EXTENDS Integers, FiniteSets, Nothing

CONSTANTS
  Ad,         \* ads alive at a time; an id is used again when its ad is gone
  MaxShows    \* bound: shows under way

ASSUME AdsAssumption == MaxShows \in Nat

VARIABLES
  ad,             \* each ad on the platform
  interstitial,   \* the current one, or None
  _interstitial_loaded, _interstitial_shown, _pending_interstitial,
  shows,          \* shows under way: [of, ad], ad None for a scheduled _show_loaded
  gap_over,       \* MIN_INTERSTITIAL_GAP has passed
  is_premium,
  free_ads,       \* history: an ad was shown to a premium user
  not_created     \* history: while a break was queued an ad could not be created

adVars == <<ad, interstitial, _interstitial_loaded, _interstitial_shown, _pending_interstitial,
            shows, gap_over, is_premium, free_ads, not_created>>

flags == <<_interstitial_loaded, _interstitial_shown>>

----------------------------------------------------------------------------
\* preload_interstitial, when the ads are as given: the current one becomes a
\* new one, or None if it cannot be created.  Premium users get none.
preload_interstitial(ads, current) ==
  IF is_premium THEN ad' = ads /\ interstitial' = current
  ELSE \/ \E a \in Ad : /\ a # current
                        /\ ads[a] \in {"none", "ready", "gone"}
                        /\ \A s \in shows : s.ad # a
                        /\ ad' = [ads EXCEPT ![a] = "loading"] /\ interstitial' = a
       \/ ad' = ads /\ interstitial' = None

PreloadedFlags(loaded, shown) ==
  /\ _interstitial_loaded' = (is_premium /\ loaded)
  /\ _interstitial_shown' = (is_premium /\ shown)

\* The end of show_interstitial, with nothing to show: a fresh load is queued.
Queues(current, loaded) ==
  IF current # None \/ _pending_interstitial
  THEN /\ _pending_interstitial' = TRUE
       /\ interstitial' = current /\ _interstitial_loaded' = loaded
       /\ UNCHANGED <<ad, _interstitial_shown>>
  ELSE /\ preload_interstitial(ad, None)
       /\ PreloadedFlags(loaded, _interstitial_shown)
       /\ _pending_interstitial' = (interstitial' # None)

\* A break: opening, closing or creating a session.
show_interstitial ==
  /\ ~is_premium /\ gap_over
  /\ IF interstitial # None /\ _interstitial_loaded /\ ~_interstitial_shown
     THEN /\ Cardinality(shows) < MaxShows
          /\ shows' = shows \union {[of |-> "break", ad |-> interstitial]}
          /\ UNCHANGED <<ad, interstitial, flags, _pending_interstitial>>
     ELSE Queues(interstitial, _interstitial_loaded) /\ UNCHANGED shows
  /\ UNCHANGED <<gap_over, is_premium, free_ads, not_created>>

\* show() comes back: the ad is on screen, the gap starts, and the next ad is
\* preloaded at once.
BreakShown(s) ==
  /\ s.of = "break" /\ ad[s.ad] = "ready"
  /\ shows' = shows \ {s}
  /\ preload_interstitial([ad EXCEPT ![s.ad] = "on_screen"], s.ad)
  /\ PreloadedFlags(_interstitial_loaded, TRUE)
  /\ gap_over' = FALSE
  /\ free_ads' = (free_ads \/ is_premium)
  /\ not_created' = (not_created \/ (_pending_interstitial /\ interstitial' = None))
  /\ UNCHANGED <<_pending_interstitial, is_premium>>

\* show() raises, as it must for an ad that was shown already.
BreakRaises(s) ==
  /\ s.of = "break"
  /\ shows' = shows \ {s}
  /\ Queues(None, FALSE)
  /\ UNCHANGED <<gap_over, is_premium, free_ads, not_created>>

\* _handle_loaded of an ad, the current one or not.
_handle_loaded(a) ==
  /\ ad[a] = "loading"
  /\ ad' = [ad EXCEPT ![a] = "ready"]
  /\ _interstitial_loaded' = TRUE
  /\ _pending_interstitial' = FALSE
  /\ shows' = IF _pending_interstitial THEN shows \union {[of |-> "queue", ad |-> None]} ELSE shows
  /\ UNCHANGED <<interstitial, _interstitial_shown, gap_over, is_premium, free_ads, not_created>>

\* Mutant of _handle_error: the queue goes on waiting for the ad that failed.
ErrorKeepsQueue(a) ==
  /\ ad[a] = "loading"
  /\ ad' = [ad EXCEPT ![a] = "gone"]
  /\ interstitial' = None /\ _interstitial_loaded' = FALSE
  /\ UNCHANGED <<_pending_interstitial, shows, _interstitial_shown, gap_over, is_premium, free_ads, not_created>>

_handle_error(a) ==
  /\ ad[a] = "loading"
  /\ ad' = [ad EXCEPT ![a] = "gone"]
  /\ interstitial' = None /\ _interstitial_loaded' = FALSE
  /\ _pending_interstitial' = FALSE
  /\ UNCHANGED <<shows, _interstitial_shown, gap_over, is_premium, free_ads, not_created>>

\* _show_loaded: the task looks at the ad that is current by now.
_show_loaded(s) ==
  /\ s.of = "queue" /\ s.ad = None
  /\ shows' = IF interstitial = None \/ _interstitial_shown THEN shows \ {s}
              ELSE (shows \ {s}) \union {[s EXCEPT !.ad = interstitial]}
  /\ UNCHANGED <<ad, interstitial, flags, _pending_interstitial, gap_over, is_premium, free_ads, not_created>>

LoadedShown(s) ==
  /\ s.of = "queue" /\ s.ad # None
  /\ ad[s.ad] = "ready"
  /\ shows' = shows \ {s}
  /\ ad' = [ad EXCEPT ![s.ad] = "on_screen"]
  /\ _interstitial_shown' = TRUE
  /\ gap_over' = FALSE
  /\ free_ads' = (free_ads \/ is_premium)
  /\ UNCHANGED <<interstitial, _interstitial_loaded, _pending_interstitial, is_premium, not_created>>

LoadedRaises(s) ==
  /\ s.of = "queue" /\ s.ad # None
  /\ shows' = shows \ {s}
  /\ interstitial' = None /\ _interstitial_loaded' = FALSE
  /\ UNCHANGED <<ad, _interstitial_shown, _pending_interstitial, gap_over, is_premium, free_ads, not_created>>

\* The user closes an ad: another one replaces the current one, whichever it is.
_handle_close(a) ==
  /\ ad[a] = "on_screen"
  /\ preload_interstitial([ad EXCEPT ![a] = "gone"], interstitial)
  /\ PreloadedFlags(_interstitial_loaded, FALSE)
  /\ not_created' = (not_created \/ (_pending_interstitial /\ interstitial' = None))
  /\ UNCHANGED <<_pending_interstitial, shows, gap_over, is_premium, free_ads>>

GapPasses ==
  /\ ~gap_over
  /\ gap_over' = TRUE
  /\ UNCHANGED <<ad, interstitial, flags, _pending_interstitial, shows, is_premium, free_ads, not_created>>

BuysPremium ==
  /\ ~is_premium
  /\ is_premium' = TRUE
  /\ UNCHANGED <<ad, interstitial, flags, _pending_interstitial, shows, gap_over, free_ads, not_created>>

----------------------------------------------------------------------------
AdsInit ==
  /\ \E a \in Ad : ad = [x \in Ad |-> IF x = a THEN "loading" ELSE "none"] /\ interstitial = a
  /\ _interstitial_loaded = FALSE /\ _interstitial_shown = FALSE
  /\ _pending_interstitial = FALSE
  /\ shows = {} /\ gap_over = TRUE /\ is_premium = FALSE
  /\ free_ads = FALSE /\ not_created = FALSE

Platform(a) == _handle_loaded(a) \/ _handle_error(a) \/ _handle_close(a)
ShowStep == \E s \in shows :
  BreakShown(s) \/ BreakRaises(s) \/ _show_loaded(s) \/ LoadedShown(s) \/ LoadedRaises(s)

AdsNext ==
  \/ show_interstitial \/ ShowStep
  \/ \E a \in Ad : Platform(a)
  \/ GapPasses \/ BuysPremium

\* An ad is loaded or fails in the end, one on screen is closed, show() returns.
AdsFairness == WF_adVars(ShowStep) /\ \A a \in Ad : WF_adVars(Platform(a))

AdsSpec == AdsInit /\ [][AdsNext]_adVars /\ AdsFairness

----------------------------------------------------------------------------
(* Properties *)

\* The queue is not held forever by a break whose ad will never come, unless the
\* ad could not even be created, by the close of another.  (For premium users it
\* is of no consequence.)
QueueIsEmptied == []<>(~_pending_interstitial \/ is_premium \/ not_created)

\* "no ads, ever" for premium users: a show under way, or queued, still fires.
NoAdsForPremium == ~free_ads
=============================================================================
