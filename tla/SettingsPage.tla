----------------------------- MODULE SettingsPage -----------------------------
(***************************************************************************)
(* The settings page in a browser (web_server: html/index.html) against    *)
(* the device.  The page opens with defaults of its own and asks           *)
(* /api/config for what is stored; the answer fills in what it tells,      *)
(* whatever the user has changed by then, or never comes.  The page may    *)
(* be submitted at any time, and again after a restart of the device;      *)
(* other sessions save in between.                                         *)
(***************************************************************************)
EXTENDS Settings, FiniteSets

CONSTANT MaxEdits  \* bound on the settings changed on the page

ASSUME PageAssumption == MaxEdits \in Nat

VARIABLES
    page,     \* the fields of config_form
    loading,  \* its fetch of /api/config is under way
    told,     \* history: what was stored, of what that told it, when it did
    edited,   \* history: the settings the user has changed on it
    byPage    \* history: the save under way was submitted by it

browser  == <<page, loading, told, edited>>
pageVars == <<settings, browser, byPage>>

PageTypeOK ==
    /\ page \in Forms /\ loading \in BOOLEAN
    /\ told \in Stored /\ edited \subseteq Keys
    /\ byPage \in BOOLEAN

-----------------------------------------------------------------------------
(* The page                                                                *)

\* As it comes from flash.
OnPage == [mqtt_en |-> "1", meter_type |-> "e570", e450_parity |-> "none"]
Untold == [k \in Keys |-> Unset]

PageInit ==
    /\ SettingsInit
    /\ page = OnPage /\ loading = FALSE /\ told = Untold /\ edited = {}
    /\ byPage = FALSE

\* GET /; the page asks for the settings at once.
OpenPage ==
    /\ on /\ saving = "idle"
    /\ page' = OnPage /\ loading' = TRUE /\ told' = Untold /\ edited' = {}
    /\ UNCHANGED <<settings, byPage>>

\* /api/config leaves the settings of the E450 out, and has its own defaults.
Returned == Keys \ {"e450_parity"}
ConfigDefault == [mqtt_en |-> "0", meter_type |-> "e570"]

ResponseAlwaysDefault == ConfigDefault
Response ==
    [k \in Returned |-> IF stored[k] = Unset THEN ConfigDefault[k] ELSE stored[k]]

\* The box is checked for 1 only; a selection cannot hold a value it does not
\* offer, and is then not sent.
ShownAnyValue(k, v) == v
Shown(k, v) ==
    IF v \in Choices[k] THEN v ELSE IF k = "mqtt_en" THEN "0" ELSE Empty

\* api_config_handler answers, and the answer is filled in.  Whatever happens
\* between the two could as well happen after both.
ConfigArrives ==
    /\ on /\ saving = "idle" /\ loading /\ loading' = FALSE
    /\ page' = [k \in Keys |-> IF k \in Returned THEN Shown(k, Response[k]) ELSE page[k]]
    /\ told' = [k \in Keys |-> IF k \in Returned THEN stored[k] ELSE Unset]
    /\ edited' = edited \ Returned
    /\ UNCHANGED <<settings, byPage>>

\* .catch(e => {})
FetchFails == loading /\ loading' = FALSE /\ UNCHANGED <<settings, page, told, edited, byPage>>

\* The user changes a setting.  This touches nothing that a save under way
\* looks at, and is taken before or after it.
Edit ==
    /\ saving = "idle"
    /\ \E k \in Keys : \E v \in Choices[k] \ {page[k]} :
          page' = [page EXCEPT ![k] = v] /\ edited' = edited \cup {k}
    /\ Cardinality(edited') <= MaxEdits
    /\ UNCHANGED <<settings, loading, told, byPage>>

-----------------------------------------------------------------------------
(* The page and the device                                                 *)

\* The browser may come back to the page as it was.
Submit == Post(page) /\ byPage' = TRUE /\ UNCHANGED browser

OtherSession == (\E f \in Forms : Post(f)) /\ byPage' = FALSE /\ UNCHANGED browser

Device ==
    /\ SetField \/ Reply \/ Restart \/ PowerCut \/ BootSettings
    /\ byPage' = (byPage /\ saving' # "idle") /\ UNCHANGED browser

PageNext ==
    \/ OpenPage \/ ConfigArrives \/ FetchFails \/ Edit
    \/ Submit \/ OtherSession \/ Device

PageSpec == PageInit /\ [][PageNext]_pageVars

-----------------------------------------------------------------------------
(* Correctness                                                             *)

\* What a page was told and the user left alone is stored again as it was when
\* the page was told, however old that is and whatever was saved, lost or typed
\* since: so it does not change at all, unless another save has come between.
UneditedAsTold ==
    saving = "saved" /\ byPage /\ whole =>
        \A k \in Returned \ (edited \cup failed) :
            told[k] # Unset =>
                stored[k] = IF told[k] \in Choices[k] THEN told[k] ELSE before[k]
=============================================================================
