------------------------------- MODULE Settings -------------------------------
(***************************************************************************)
(* The stored configuration: the handler of /save (web_server.c:           *)
(* post_handler), which any client may call with any form, and what        *)
(* app_main makes of what is stored at the next start.  Each nvs_set is    *)
(* durable by itself and may fail by itself, so the power may go, a write  *)
(* may be refused or the rest of the body may be missing, between any two. *)
(* Three settings stand for all: the MQTT checkbox, which the handler      *)
(* clears first and which comes first in a form; the meter type; and the   *)
(* parity of the E450, which the page sends but is never told.             *)
(***************************************************************************)
EXTENDS Naturals, Sequences

CONSTANTS
    Offered,  \* meter types the page offers, of "e570", "e450" and "mbus"
    Unset,    \* a key that is not in NVS
    Empty,    \* a field with no value, or not sent
    Cut       \* what is left of a value that did not arrive whole

VARIABLES
    on,       \* the device is running
    stored,   \* NVS, namespace "config"
    used,     \* the settings read at the last start
    saving,   \* post_handler: "idle", "writing", or "saved" and about to restart
    todo,     \* fields of the body still to be looked at
    before,   \* history: stored, when the save began
    form,     \* history: the form as it was sent
    whole,    \* history: its body arrived whole
    failed    \* history: the settings of which a write failed

save     == <<todo, before, form, whole, failed>>
settings == <<on, stored, used, saving, save>>

Keys    == {"mqtt_en", "meter_type", "e450_parity"}
Choices == [mqtt_en |-> {"0", "1"}, meter_type |-> Offered, e450_parity |-> {"none"}]

\* A field with no value is not one of the choices; a piece of "on" is not "on".
ASSUME SettingsAssumption ==
    /\ "e570" \in Offered /\ Offered \subseteq {"e570", "e450", "mbus"}
    /\ \A k \in Keys : Empty \notin Choices[k]
    /\ Cut # "1"

Value   == {"0", "1", "none", "even", "e450", Cut} \cup Offered
Setting == [Keys -> Value]
Form    == [Keys -> Value \cup {Empty}]
Stored  == [Keys -> Value \cup {Unset}]
Field   == [key : Keys, val : Value \cup {Empty}]

\* The fields in the order of the page.
Order == <<"mqtt_en", "meter_type", "e450_parity">>

SettingsTypeOK ==
    /\ on \in BOOLEAN /\ saving \in {"idle", "writing", "saved"}
    /\ stored \in Stored /\ before \in Stored
    /\ used \in Setting /\ form \in Form
    /\ todo \in Seq(Field)
    /\ whole \in BOOLEAN /\ failed \subseteq Keys

\* What the program uses in place of a setting that is not stored.
AtBoot == [mqtt_en |-> "0", meter_type |-> "e450", e450_parity |-> "even"]
InForce(s) == [k \in Keys |-> IF s[k] = Unset THEN AtBoot[k] ELSE s[k]]

\* The task app_main starts; a stored type it does not know starts none.
Tasks == {"e570", "e450", "am550_ascii", "iec62056_21"}
TaskRuns == on /\ used["meter_type"] \in Tasks

-----------------------------------------------------------------------------
(* post_handler                                                            *)

\* What a page may send.  A box that is not checked, "0", is not in the body; a
\* selection of something it does not offer has no value.
Forms == [mqtt_en : Choices.mqtt_en, meter_type : Offered \cup {Empty},
          e450_parity : Choices.e450_parity]

\* What httpd_req_recv returned of the body of f: n fields, and maybe a piece
\* of the value of the next.
Arrived(f, n, piece) ==
    [i \in 1 .. (IF piece THEN n + 1 ELSE n) |->
        [key |-> Order[i],
         val |-> IF i = n + 1 /\ f[Order[i]] # Empty THEN Cut ELSE f[Order[i]]]]

\* mqtt_en is cleared: an unchecked box is not sent.
ClearedNot(s) == s
Cleared(s) == [s EXCEPT !["mqtt_en"] = "0"]

\* Form f, or what there is of it, is received; nvs_set_u8 may fail unnoticed.
Post(f) ==
    /\ on /\ saving = "idle" /\ saving' = "writing"
    /\ form' = f
    /\ \E n \in 0 .. Len(Order), piece \in BOOLEAN :
          /\ n = Len(Order) => ~ piece
          /\ todo' = Arrived(f, n, piece)
          /\ whole' = (n = Len(Order))
    /\ before' = stored
    /\ \/ stored' = Cleared(stored) /\ failed' = {}
       \/ stored' = stored /\ failed' = {"mqtt_en"}
    /\ UNCHANGED <<on, used>>

\* An empty value leaves the setting as it was; the checkbox counts only as "on".
AppliedIfEmptyToo(s, field) == [s EXCEPT ![field.key] = field.val]
Written(field) == field.val # Empty /\ (field.key = "mqtt_en" => field.val = "1")
Applied(s, field) == IF Written(field) THEN [s EXCEPT ![field.key] = field.val] ELSE s

\* One pass of the loop over the fields; an nvs_set that fails is not noticed.
SetField ==
    /\ on /\ saving = "writing" /\ todo # <<>>
    /\ \/ stored' = Applied(stored, Head(todo)) /\ UNCHANGED failed
       \/ /\ Written(Head(todo)) /\ failed' = failed \cup {Head(todo).key}
          /\ UNCHANGED stored
    /\ todo' = Tail(todo)
    /\ UNCHANGED <<on, used, saving, before, form, whole>>

\* "Settings saved!"
Reply ==
    /\ on /\ saving = "writing" /\ todo = <<>> /\ saving' = "saved"
    /\ UNCHANGED <<on, stored, used, save>>

GoesDown ==
    /\ on' = FALSE /\ used' = AtBoot /\ UNCHANGED stored
    /\ saving' = "idle" /\ todo' = <<>>

Forgotten ==
    /\ before' = [k \in Keys |-> Unset] /\ form' = [k \in Keys |-> Empty]
    /\ whole' = FALSE /\ failed' = {}

\* A second later, esp_restart.
RestartSkipped == saving = "saved" /\ saving' = "idle" /\ UNCHANGED <<on, stored, used, save>>
Restart == saving = "saved" /\ GoesDown /\ Forgotten

PowerCut == on /\ GoesDown /\ Forgotten

\* app_main reads what is stored; an NVS that cannot be used is erased first.
BootSettings ==
    /\ ~ on /\ on' = TRUE
    /\ stored' \in {stored, [k \in Keys |-> Unset]}
    /\ used' = InForce(stored')
    /\ UNCHANGED <<saving, save>>

SettingsInit ==
    /\ on = FALSE /\ saving = "idle" /\ todo = <<>>
    /\ stored = [k \in Keys |-> Unset] /\ used = AtBoot
    /\ before = [k \in Keys |-> Unset] /\ form = [k \in Keys |-> Empty]
    /\ whole = FALSE /\ failed = {}

SettingsNext ==
    \/ \E f \in Forms : Post(f)
    \/ SetField \/ Reply \/ Restart \/ PowerCut \/ BootSettings

SettingsSpec == SettingsInit /\ [][SettingsNext]_settings

-----------------------------------------------------------------------------
(* Correctness                                                             *)

\* Whatever earlier saves were torn by power cuts, failed writes or missing
\* pieces: after one that arrived whole, every setting whose writes succeeded is
\* what the form says, and what it says nothing about is as before; a write that
\* fails spoils no other setting.
SavedAsEntered ==
    saving = "saved" /\ whole =>
        \A k \in Keys \ failed :
            stored[k] = IF form[k] = Empty THEN before[k] ELSE form[k]

\* The running device never goes on with other settings than the stored ones:
\* unless a save is under way, each is the one stored or its default.
UsedIsStored == on /\ saving = "idle" => used = InForce(stored)

\* A save that is cut short at any point, with any writes failing, leaves every
\* setting old or new, but for MQTT, which may be off without being off in
\* either, and the one value the cut went through.  MQTT is left on against the
\* form only where NVS refused to clear it.
TornSave ==
    saving # "idle" =>
        /\ \A k \in Keys : \/ stored[k] \in {before[k], form[k]}
                           \/ k = "mqtt_en" /\ stored[k] = "0"
                           \/ ~ whole /\ stored[k] = Cut /\ k # "mqtt_en"
        /\ "mqtt_en" \notin failed => stored["mqtt_en"] \in {"0", form["mqtt_en"]}
=============================================================================
