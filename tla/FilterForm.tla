----------------------------- MODULE FilterForm -----------------------------
(* The filter form of the board: app/auto-apply.tsx with the state machine   *)
(* of lib/auto-apply.ts, the one saved filter (app/filter-defaults.tsx,      *)
(* app/board-storage.ts) and the address that holds the filters              *)
(* (lib/params.ts). A tick waits until the ticking stops, a list driven by   *)
(* the keyboard waits until the focus leaves it, and every navigation takes  *)
(* a while to land; meanwhile the reader goes on, here or with links and the *)
(* back button.                                                              *)
(*                                                                           *)
(* A filter is a value; Window is the one chosen from a list, the others are *)
(* check boxes. Each side of the board offers its own values. Not modelled:  *)
(* the drawer, the page number, and a second press of the submit button.     *)
EXTENDS Naturals, FiniteSets

CONSTANTS Common, Employed, Freelance,   \* values both sides offer, and each alone
          Patient,                       \* links wait until the form has settled
          MaxActs

VARIABLES url,      \* what the address says, and the table shows
          nav,      \* the navigation under way
          form,     \* the values the controls show
          apply,    \* the state of the machine, and whether its timer runs
          stored,   \* the saved filter of this browser
          button,   \* engaged and setup of the one filter button
          want,     \* what the reader last asked for (history)
          acts      \* acts so far

vars == <<url, nav, form, apply, stored, button, want, acts>>

Window == "window"
Sides == {"employed", "freelance"}
Offered(side) == Common \cup {Window} \cup (IF side = "employed" THEN Employed ELSE Freelance)
Values == Common \cup Employed \cup Freelance \cup {Window}
Nowhere == [side |-> "none", sel |-> {}, all |-> FALSE]
Nothing == [saved |-> FALSE, sel |-> {}]

(* parseParams: what a side does not offer drops out, and filters that were  *)
(* asked for and came to none are an unfiltered view, not a bare address.    *)
Parsed(side, sel, explicit) ==
    [side |-> side, sel |-> sel \cap Offered(side),
     all |-> explicit /\ sel \cap Offered(side) = {}]

Bare(p) == p.sel = {} /\ ~p.all
Cleared(p) == [p EXCEPT !.sel = {}, !.all = TRUE]

(* savedFilterQuery: the saved filter as it applies on a side.               *)
SavedOn(side) == IF stored.saved THEN stored.sel \cap Offered(side) ELSE {}

(* Mutant of Yields: the saved filter fills every view without filters.      *)
YieldsToFilters(p) == p.sel # {}
Yields(p) == ~Bare(p)

(* defaultFiltersHref: where the saved filter leads from a view, if anywhere.*)
DefaultFrom(p, force) ==
    LET to == Parsed(p.side, SavedOn(p.side), TRUE) IN
    IF ~stored.saved \/ (~force /\ (Yields(p) \/ to.sel = {})) \/ to = p THEN Nowhere ELSE to

Init == /\ url = Parsed("employed", {}, FALSE) /\ nav = Nowhere
        /\ form = {} /\ apply = [mode |-> "pointer", pending |-> "none", timer |-> FALSE]
        /\ stored = Nothing /\ button = [engaged |-> FALSE, setup |-> FALSE]
        /\ want = url /\ acts = 0

(* The reader's selection, as the form would be submitted now.               *)
Selection(f) == Parsed(url.side, f, TRUE)
Engages(f, st, was) ==
    LET on == IF st.saved THEN st.sel \cap Offered(url.side) ELSE {}
    IN on # {} /\ f # {} /\ (was \/ f = on)

Act == acts < MaxActs /\ acts' = acts + 1
Shows(f) == /\ form' = f
            /\ button' = [button EXCEPT !.engaged = Engages(f, stored, @)]

Toggled(f, v) == IF v \in f THEN f \ {v} ELSE f \cup {v}

-----------------------------------------------------------------------------
(* applyReducer, event by event; Submits is the form's own navigation.       *)
Submits(f) == nav' = Selection(f)
Quiet == [apply EXCEPT !.pending = "none", !.timer = FALSE]

Tick(v) ==
    /\ Act /\ v \in Offered(url.side) \ {Window}
    /\ Shows(Toggled(form, v)) /\ want' = Selection(Toggled(form, v))
    /\ apply' = [apply EXCEPT !.pending = "idle", !.timer = TRUE]
    /\ UNCHANGED <<url, nav, stored>>

(* Mutant of Pressed: a pointer press drops the change that is held.         *)
PressedAnew == [Quiet EXCEPT !.mode = "pointer"]
Pressed == [apply EXCEPT !.mode = "pointer"]
Pointer == /\ Act /\ apply' = Pressed
           /\ UNCHANGED <<url, nav, form, stored, button, want>>
Keyboard == /\ Act /\ apply' = [apply EXCEPT !.mode = "keyboard"]
            /\ UNCHANGED <<url, nav, form, stored, button, want>>

Choose ==
    /\ Act
    /\ Shows(Toggled(form, Window)) /\ want' = Selection(Toggled(form, Window))
    /\ \/ apply.mode = "pointer" /\ Submits(Toggled(form, Window)) /\ apply' = Quiet
       \/ /\ apply.mode = "keyboard" /\ UNCHANGED nav
          /\ apply' = [apply EXCEPT !.pending = "focusout"]
    /\ UNCHANGED <<url, stored>>

FocusOut ==
    /\ apply.pending = "focusout"
    /\ Submits(form) /\ apply' = Quiet
    /\ UNCHANGED <<url, form, stored, button, want, acts>>

Idle ==
    /\ apply.timer
    /\ apply' = IF apply.pending = "idle" THEN Quiet ELSE [apply EXCEPT !.timer = FALSE]
    /\ IF apply.pending = "idle" THEN Submits(form) ELSE UNCHANGED nav
    /\ UNCHANGED <<url, form, stored, button, want, acts>>

-----------------------------------------------------------------------------
(* A navigation lands: the address is written into the controls unless a     *)
(* change of the reader's is held, and a bare address gets the saved filter. *)
(* A tick made before the landing is meant for the side it lands on.         *)
(* Mutant of Holds: the address is always written in.                        *)
HoldsNever == FALSE
Holds == apply.pending # "none"

Land ==
    /\ nav # Nowhere
    /\ url' = nav /\ nav' = DefaultFrom(nav, FALSE)
    /\ form' = IF Holds THEN form \cap Offered(nav.side) ELSE nav.sel
    /\ button' = [button EXCEPT !.engaged =
          LET on == SavedOn(nav.side) IN
          on # {} /\ form' # {} /\ (@ \/ form' = on)]
    /\ want' = IF Holds THEN Parsed(nav.side, want.sel, TRUE) ELSE want
    /\ UNCHANGED <<apply, stored, acts>>

(* A link, a badge, the back button or the other side of the board.          *)
May == Patient => apply.pending = "none"
Goes(to) == /\ nav' = to
            /\ want' = IF DefaultFrom(to, FALSE) = Nowhere THEN to ELSE DefaultFrom(to, FALSE)
Follow ==
    /\ Act /\ May
    /\ \/ \E v \in Offered(url.side) \ {Window} : Goes(Parsed(url.side, Toggled(url.sel, v), TRUE))
       \/ \E side \in Sides \ {url.side} : Goes(Parsed(side, url.sel, url.sel # {} \/ url.all))
       \/ \E side \in Sides : Goes(Parsed(side, {}, FALSE))
    /\ UNCHANGED <<url, form, apply, stored, button>>

(* The one filter button (myFilter): what a press does depends on what the   *)
(* form shows, which runs ahead of the address.                              *)
Setup == /\ Act /\ SavedOn(url.side) = {} /\ ~button.setup
         /\ button' = [button EXCEPT !.setup = TRUE]
         /\ UNCHANGED <<url, nav, form, apply, stored, want>>

Offers == \/ SavedOn(url.side) = {} /\ button.setup /\ form # {}
          \/ SavedOn(url.side) \notin {{}, form} /\ button.engaged /\ form # {}
Save == /\ Act /\ Offers
        /\ stored' = [saved |-> TRUE, sel |-> Selection(form).sel]
        /\ button' = [engaged |-> TRUE, setup |-> FALSE]
        /\ Submits(form) /\ want' = Selection(form)
        /\ UNCHANGED <<url, form, apply>>

Apply == /\ Act /\ May /\ ~Offers /\ SavedOn(url.side) \notin {{}, form}
         /\ DefaultFrom(url, TRUE) # Nowhere
         /\ nav' = DefaultFrom(url, TRUE) /\ want' = nav'
         /\ UNCHANGED <<url, form, apply, stored, button>>

Clear == /\ Act /\ May /\ SavedOn(url.side) # {} /\ form = SavedOn(url.side)
         /\ nav' = Cleared(url) /\ want' = nav'
         /\ UNCHANGED <<url, form, apply, stored, button>>

Next == \/ \E v \in Values : Tick(v)
        \/ Pointer \/ Keyboard \/ Choose \/ FocusOut \/ Idle \/ Land
        \/ Follow \/ Setup \/ Save \/ Apply \/ Clear

Spec == Init /\ [][Next]_vars

-----------------------------------------------------------------------------
(* Views hold only what their side offers; the machine is in one of its      *)
(* states.                                                                   *)
TypeOK ==
    /\ url.side \in Sides /\ url.sel \subseteq Offered(url.side)
    /\ nav = Nowhere \/ nav.sel \subseteq Offered(nav.side)
    /\ form \subseteq Offered(url.side)
    /\ apply.pending \in {"none", "idle", "focusout"}
    /\ apply.pending = "idle" => apply.timer

Settled == nav = Nowhere /\ apply.pending = "none"

(* Once nothing is held or under way, the controls show what the table is    *)
(* filtered by.                                                              *)
ControlsTell == Settled => form = url.sel

(* Once nothing is held or under way, the board shows what the reader asked  *)
(* for last: no tick is lost to a navigation that lands late, and the saved  *)
(* filter does not come back over a view that was asked for.                 *)
LastActWins == Settled => url = want

FormIsSound == ControlsTell /\ LastActWins
=============================================================================
